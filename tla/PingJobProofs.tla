-------------------------- MODULE PingJobProofs ---------------------------
(***************************************************************************)
(* Proofs of the properties of PingWorker that rest on what does not fail: *)
(* the lock excludes as long as it does not expire, a recovery is announced *)
(* once when the jobs of an endpoint come one at a time, no counter stays   *)
(* for good, no recovery is lost, an UP ping closes the open alert, and an  *)
(* alert opens only after enough failures in a row.                        *)
(***************************************************************************)
EXTENDS PingWorkerProofs

---------------------------------------------------------------------------
(* Mutual exclusion by the lock.  Not inductive alone: the DEL of finally  *)
(* is harmless only if whoever is in the transaction still has its key.    *)

HolderHasKey ==
    Spared({"lockExpiry"}) => \A j \in Jobs : pc[j] \in InTransaction => ep[j] \in locks

LockInv == HolderHasKey /\ LockExclusive

\* A step that lets no job into the transaction.
NoEntry ==
    /\ mode' = mode
    /\ \A k \in Jobs : pc'[k] \in InTransaction => pc[k] \in InTransaction /\ ep'[k] = ep[k]

LEMMA NoEntryKeepsLock ==
    ASSUME LockInv, NoEntry, locks \subseteq locks'
    PROVE  LockInv'
BY DEF LockInv, NoEntry, HolderHasKey, LockExclusive, Spared

LEMMA GotoNoEntry ==
    ASSUME JobsTypeOK, NEW j \in Jobs, NEW place, Goto(j, place), mode' = mode,
           place \in InTransaction => pc[j] \in InTransaction
    PROVE  NoEntry
BY DEF JobsTypeOK, Goto, NoEntry

LEMMA FinishNoEntry ==
    ASSUME JobsTypeOK, NEW j \in Jobs, Finish(j), mode' = mode
    PROVE  NoEntry /\ pc'[j] \notin InTransaction
BY DEF JobsTypeOK, Finish, NoEntry, InTransaction

LEMMA RetryNoEntry ==
    ASSUME JobsTypeOK, NEW j \in Jobs, Retry(j), mode' = mode
    PROVE  NoEntry /\ pc'[j] \notin InTransaction
<1>1. CASE Finish(j)
  BY <1>1, FinishNoEntry
<1>2. CASE ~Finish(j)
  BY <1>2 DEF JobsTypeOK, Retry, NoEntry, InTransaction
<1> QED
  BY <1>1, <1>2

LEMMA HandlerKeepsLock ==
    ASSUME TypeOK, LockInv, NEW j \in Jobs, HandlerStep(j)
    PROVE  LockInv'
<1> JobsTypeOK
  BY DEF TypeOK
<1>1. CASE ReadConfig(j) \/ Ping(j)
  BY <1>1, GotoNoEntry, FinishNoEntry, NoEntryKeepsLock
  DEF ReadConfig, Ping, redisVars, envVars, InTransaction
<1>2. CASE Incr(j) \/ Expire(j)
  <2>1. locks' = locks /\ mode' = mode
    BY <1>2 DEF Incr, Expire, envVars
  <2>2. Finish(j) \/ Goto(j, "expire") \/ Goto(j, "lock")
    BY <1>2 DEF Incr, Expire
  <2> QED
    BY <2>1, <2>2, GotoNoEntry, FinishNoEntry, NoEntryKeepsLock DEF InTransaction
<1>3. CASE Lock(j)
  <2>1. CASE ep[j] \in locks
    BY <1>3, <2>1, FinishNoEntry, NoEntryKeepsLock DEF Lock, envVars
  <2>2. CASE ep[j] \notin locks
    <3>1. locks' = locks \cup {ep[j]} /\ mode' = mode /\ Goto(j, "begin")
      BY <1>3, <2>2 DEF Lock, envVars
    <3>2. \A k \in Jobs : k # j => pc'[k] = pc[k]
      BY <3>1 DEF Goto, JobsTypeOK
    <3> QED
      BY <2>2, <3>1, <3>2 DEF Goto, LockInv, HolderHasKey, LockExclusive, Spared
  <2> QED
    BY <2>1, <2>2
<1>4. CASE Begin(j) \/ Commit(j) \/ CommitRejected(j)
  BY <1>4, GotoNoEntry, NoEntryKeepsLock
  DEF Begin, Commit, CreateAlert, CommitRejected, redisVars, envVars, InTransaction
<1>5. CASE Unlock(j)
  <2>1. /\ pc[j] \in InTransaction
        /\ locks' = locks \ {ep[j]}
        /\ mode' = mode
        /\ Finish(j) \/ Retry(j)
    BY <1>5 DEF Unlock, envVars, InTransaction
  <2>2. NoEntry /\ pc'[j] \notin InTransaction
    BY <2>1, FinishNoEntry, RetryNoEntry
  <2> QED
    BY <2>1, <2>2 DEF NoEntry, LockInv, HolderHasKey, LockExclusive, Spared
<1>6. CASE Get(j) \/ Del(j)
  BY <1>6, GotoNoEntry, FinishNoEntry, NoEntryKeepsLock
  DEF Get, Del, redisVars, envVars, InTransaction
<1>7. CASE Find(j)
  <2>1. CASE Finish(j)
    BY <1>7, <2>1, FinishNoEntry, NoEntryKeepsLock DEF Find, redisVars, envVars
  <2>2. CASE ~Finish(j)
    <3>1. NoEntry
      BY <1>7, <2>2 DEF Find, NoEntry, JobsTypeOK, envVars, InTransaction
    <3> QED
      BY <1>7, <3>1, NoEntryKeepsLock DEF Find, redisVars
  <2> QED
    BY <2>1, <2>2
<1>8. CASE Resolve(j)
  BY <1>8, GotoNoEntry, NoEntryKeepsLock
  DEF Resolve, MarkResolved, redisVars, envVars, InTransaction
<1>9. CASE ResolveRejected(j) \/ Enqueue(j)
  BY <1>9, FinishNoEntry, RetryNoEntry, NoEntryKeepsLock
  DEF ResolveRejected, Enqueue, redisVars, envVars
<1> QED
  BY <1>1, <1>2, <1>3, <1>4, <1>5, <1>6, <1>7, <1>8, <1>9 DEF HandlerStep

LEMMA FaultKeepsLock ==
    ASSUME TypeOK, LockInv, NEW j \in Jobs,
           CallFails(j) \/ CommitUnacknowledged(j) \/ ResolveUnacknowledged(j) \/ Crash(j)
    PROVE  LockInv'
<1> JobsTypeOK
  BY DEF TypeOK
<1>1. CASE CallFails(j)
  BY <1>1, GotoNoEntry, RetryNoEntry, NoEntryKeepsLock
  DEF CallFails, redisVars, envVars, InTransaction
<1>2. CASE CommitUnacknowledged(j)
  BY <1>2, GotoNoEntry, NoEntryKeepsLock
  DEF CommitUnacknowledged, CreateAlert, redisVars, envVars, InTransaction
<1>3. CASE ResolveUnacknowledged(j)
  BY <1>3, RetryNoEntry, NoEntryKeepsLock
  DEF ResolveUnacknowledged, MarkResolved, redisVars, envVars
<1>4. CASE Crash(j)
  <2>1. NoEntry
    <3>1. CASE Finish(j)
      BY <1>4, <3>1, FinishNoEntry DEF Crash, envVars
    <3>2. CASE ~Finish(j)
      BY <1>4, <3>2 DEF Crash, NoEntry, JobsTypeOK, envVars, InTransaction
    <3> QED
      BY <3>1, <3>2
  <2> QED
    BY <1>4, <2>1, NoEntryKeepsLock DEF Crash, redisVars
<1> QED
  BY <1>1, <1>2, <1>3, <1>4

LEMMA StepLockInv == TypeOK /\ LockInv /\ [Next]_vars => LockInv'
<1> SUFFICES ASSUME TypeOK, LockInv, [Next]_vars PROVE LockInv'
  OBVIOUS
<1>1. CASE UNCHANGED vars
  BY <1>1, NoEntryKeepsLock DEF NoEntry, vars, jobVars, redisVars, envVars
<1>2. ASSUME NEW e \in Endpoints, NEW j \in Jobs, Tick(e, j) PROVE LockInv'
  <2>1. NoEntry
    BY <1>2 DEF Tick, NoEntry, TypeOK, JobsTypeOK, envVars, InTransaction
  <2> QED
    BY <1>2, <2>1, NoEntryKeepsLock DEF Tick, redisVars
<1>3. ASSUME NEW e \in Endpoints, EndpointNext(e) PROVE LockInv'
  <2>1. NoEntry
    BY <1>3 DEF EndpointNext, ExpireCount, ExpireLock, GoDown, GoUp, ChangeConfig,
                DeleteRow, ClearKeys, jobVars, envVars, NoEntry
  <2>2. CASE ExpireLock(e)
    BY <2>1, <2>2 DEF ExpireLock, NoEntry, LockInv, HolderHasKey, LockExclusive, Spared
  <2>3. CASE ~ExpireLock(e)
    BY <1>3, <2>1, <2>3, NoEntryKeepsLock
    DEF EndpointNext, ExpireCount, GoDown, GoUp, ChangeConfig, DeleteRow, ClearKeys, redisVars
  <2> QED
    BY <2>2, <2>3
<1> QED
  BY <1>1, <1>2, <1>3, HandlerKeepsLock, FaultKeepsLock DEF Next, JobNext

\* As long as no lock expires, at most one job per endpoint is between SET NX
\* and DEL, through crashes, rejections and overlapping jobs.
THEOREM LockExcludes == Spec => []LockExclusive
<1>1. Init => LockInv
  BY DEF Init, LockInv, HolderHasKey, LockExclusive, InTransaction
<1>2. LockInv => LockExclusive
  BY DEF LockInv
<1>3. TypeOK /\ LockInv /\ [Next]_vars => LockInv'
  BY StepLockInv
<1> QED
  BY <1>1, <1>2, <1>3, TypeCorrect, PTL DEF Spec

---------------------------------------------------------------------------
(* Recoveries, when the jobs of an endpoint come one at a time.  Then the  *)
(* alert a job is about to close or announce is its own affair: no other   *)
(* job has an alert of the same endpoint in hand.                          *)

Alone ==
    Serial => \A j, k \in Jobs : ep[j] = ep[k] /\ ep[j] \in Endpoints => j = k

\* What a job has in hand is an alert of its endpoint, not announced yet.
InHand(j) ==
    /\ target[j] \in Alerts
    /\ alertOf[target[j]] = ep[j]
    /\ recoveries[target[j]] = 0
    /\ alert[target[j]] # "free"
    /\ pc[j] = "enqueue" => alert[target[j]] # "TRIGGERED"

HandsMatch == Serial => \A j \in Jobs : pc[j] \in {"resolve", "enqueue"} => InHand(j)

AnnouncedIsClosed ==
    Serial => \A a \in Alerts : recoveries[a] > 0 => alert[a] \notin {"free", "TRIGGERED"}

RecoveryInv == Alone /\ HandsMatch /\ AnnouncedIsClosed /\ RecoveryAtMostOnce

\* A step that gives no job an endpoint or an alert.
NoGain ==
    /\ mode' = mode
    /\ \A k \in Jobs : ep'[k] \in Endpoints => ep'[k] = ep[k]
    /\ \A k \in Jobs : pc'[k] \in {"resolve", "enqueue"} =>
          pc'[k] = pc[k] /\ ep'[k] = ep[k] /\ target'[k] = target[k]

LEMMA NoGainKeeps ==
    ASSUME RecoveryInv, NoGain, UNCHANGED <<alert, alertOf, recoveries>>
    PROVE  RecoveryInv'
BY DEF RecoveryInv, NoGain, Alone, HandsMatch, InHand, AnnouncedIsClosed,
       RecoveryAtMostOnce, Serial

\* Closing or deleting alerts that exist disturbs nothing either.
LEMMA ClosingKeepsRecovery ==
    ASSUME RecoveryInv, NoGain, UNCHANGED <<alertOf, recoveries>>,
           \A a \in Alerts :
              \/ alert'[a] = alert[a]
              \/ alert[a] # "free" /\ alert'[a] \notin {"free", "TRIGGERED"}
    PROVE  RecoveryInv'
BY DEF RecoveryInv, NoGain, Alone, HandsMatch, InHand, AnnouncedIsClosed,
       RecoveryAtMostOnce, Serial

LEMMA GotoNoGain ==
    ASSUME JobsTypeOK, NEW j \in Jobs, NEW place, Goto(j, place), mode' = mode,
           place \notin {"resolve", "enqueue"}
    PROVE  NoGain
BY DEF JobsTypeOK, Goto, NoGain

LEMMA FinishNoGain ==
    ASSUME JobsTypeOK, NEW j \in Jobs, Finish(j), mode' = mode
    PROVE  NoGain
BY EndpointsAssumption DEF JobsTypeOK, Finish, NoGain

LEMMA RetryNoGain ==
    ASSUME JobsTypeOK, NEW j \in Jobs, Retry(j), mode' = mode
    PROVE  NoGain
<1>1. CASE Finish(j)
  BY <1>1, FinishNoGain
<1>2. CASE ~Finish(j)
  BY <1>2 DEF JobsTypeOK, Retry, NoGain
<1> QED
  BY <1>1, <1>2

\* The alert a transaction opens was free: nobody has it in hand and it was
\* never announced.
LEMMA CreateKeepsRecovery ==
    ASSUME TypeOK, RecoveryInv, NoGain, NEW j \in Jobs, CreateAlert(j)
    PROVE  RecoveryInv'
<1>1. PICK a \in Alerts :
         /\ alert[a] = "free"
         /\ alert' = [alert EXCEPT ![a] = "TRIGGERED"]
         /\ alertOf' = [alertOf EXCEPT ![a] = ep[j]]
  BY DEF CreateAlert
<1>2. \A b \in Alerts \ {a} : alert'[b] = alert[b] /\ alertOf'[b] = alertOf[b]
  BY <1>1 DEF TypeOK, DataTypeOK
<1>3. recoveries' = recoveries
  BY DEF CreateAlert
<1>4. Alone' /\ RecoveryAtMostOnce'
  BY <1>3 DEF RecoveryInv, NoGain, Alone, RecoveryAtMostOnce, Serial
<1>5. HandsMatch'
  BY <1>1, <1>2, <1>3 DEF RecoveryInv, NoGain, HandsMatch, InHand, Serial
<1>6. AnnouncedIsClosed'
  BY <1>1, <1>2, <1>3 DEF RecoveryInv, NoGain, AnnouncedIsClosed, Serial
<1> QED
  BY <1>4, <1>5, <1>6 DEF RecoveryInv

LEMMA HandlerKeepsRecovery ==
    ASSUME TypeOK, RecoveryInv, NEW j \in Jobs, HandlerStep(j)
    PROVE  RecoveryInv'
<1> JobsTypeOK /\ DataTypeOK
  BY DEF TypeOK
<1>1. CASE ReadConfig(j) \/ Ping(j) \/ Begin(j) \/ Get(j)
  <2>1. /\ mode' = mode /\ UNCHANGED <<alert, alertOf, recoveries>>
        /\ \/ Finish(j)
           \/ \E place \in {"ping", "get", "incr", "commit", "unlock", "del"} : Goto(j, place)
    BY <1>1 DEF ReadConfig, Ping, Begin, Get, dbVars, envVars
  <2> QED
    BY <2>1, GotoNoGain, FinishNoGain, NoGainKeeps
<1>2. CASE Incr(j) \/ Expire(j) \/ Lock(j) \/ Del(j)
  <2>1. /\ mode' = mode /\ UNCHANGED <<alert, alertOf, recoveries>>
        /\ \/ Finish(j)
           \/ \E place \in {"expire", "lock", "begin", "find"} : Goto(j, place)
    BY <1>2 DEF Incr, Expire, Lock, Del, dbVars, envVars
  <2> QED
    BY <2>1, GotoNoGain, FinishNoGain, NoGainKeeps
<1>3. CASE Commit(j)
  BY <1>3, GotoNoGain, CreateKeepsRecovery DEF Commit, CreateAlert, envVars
<1>4. CASE CommitRejected(j)
  BY <1>4, GotoNoGain, NoGainKeeps DEF CommitRejected, envVars
<1>5. CASE Unlock(j) \/ ResolveRejected(j)
  BY <1>5, FinishNoGain, RetryNoGain, NoGainKeeps DEF Unlock, ResolveRejected, dbVars, envVars
<1>6. CASE Find(j)
  <2>1. CASE Finish(j)
    BY <1>6, <2>1, FinishNoGain, NoGainKeeps DEF Find, dbVars, envVars
  <2>2. CASE ~Finish(j)
    <3>1. PICK a \in OpenAlerts(ep[j]) :
             /\ pc' = [pc EXCEPT ![j] = "resolve"]
             /\ target' = [target EXCEPT ![j] = a]
             /\ ep' = ep
      BY <1>6, <2>2 DEF Find
    <3>2. UNCHANGED <<alert, alertOf, recoveries, mode>>
      BY <1>6 DEF Find, dbVars, envVars
    <3>3. /\ pc'[j] = "resolve" /\ target'[j] = a
          /\ \A k \in Jobs : k # j => pc'[k] = pc[k] /\ target'[k] = target[k]
      BY <3>1 DEF JobsTypeOK
    <3>4. a \in Alerts /\ alert[a] = "TRIGGERED" /\ alertOf[a] = ep[j]
      BY <3>1 DEF OpenAlerts
    <3>5. Serial => recoveries[a] = 0
      BY <3>4 DEF RecoveryInv, AnnouncedIsClosed, DataTypeOK
    <3>6. HandsMatch'
      BY <3>1, <3>2, <3>3, <3>4, <3>5 DEF RecoveryInv, HandsMatch, InHand, Serial
    <3> QED
      BY <3>1, <3>2, <3>6
      DEF RecoveryInv, Alone, AnnouncedIsClosed, RecoveryAtMostOnce, Serial
  <2> QED
    BY <2>1, <2>2
<1>7. CASE Resolve(j)
  <2>1. /\ alert' = [alert EXCEPT ![target[j]] = "RESOLVED"]
        /\ pc[j] = "resolve" /\ pc' = [pc EXCEPT ![j] = "enqueue"]
        /\ UNCHANGED <<ep, target, alertOf, recoveries, mode>>
    BY <1>7 DEF Resolve, MarkResolved, Goto, envVars
  <2>2. \A a \in Alerts : alert'[a] = alert[a] \/ (a = target[j] /\ alert'[a] = "RESOLVED")
    BY <2>1 DEF DataTypeOK
  <2>3. \A k \in Jobs : k # j => pc'[k] = pc[k]
    BY <2>1 DEF JobsTypeOK
  <2>4. HandsMatch'
    <3> SUFFICES ASSUME Serial, NEW k \in Jobs, pc'[k] \in {"resolve", "enqueue"}
                 PROVE  InHand(k)'
      BY <2>1 DEF HandsMatch, Serial
    <3>1. InHand(k)
      BY <2>1, <2>3 DEF RecoveryInv, HandsMatch
    <3>2. k # j => (InHand(k))'
      BY <2>1, <2>2, <2>3, <3>1 DEF InHand
    <3>3. k = j => (InHand(k))'
      <4>1. k = j => alert'[target[k]] = "RESOLVED"
        BY <2>1, <3>1 DEF InHand, DataTypeOK
      <4> QED
        BY <2>1, <3>1, <4>1 DEF InHand
    <3> QED
      BY <3>2, <3>3
  <2> QED
    BY <2>1, <2>2, <2>4
    DEF RecoveryInv, Alone, AnnouncedIsClosed, RecoveryAtMostOnce, Serial
<1>8. CASE Enqueue(j)
  <2>1. /\ pc[j] = "enqueue"
        /\ recoveries' = [recoveries EXCEPT ![target[j]] =
              IF recoveries[target[j]] < 2 THEN recoveries[target[j]] + 1
                                           ELSE recoveries[target[j]]]
        /\ Finish(j)
        /\ UNCHANGED <<alert, alertOf, mode>>
    BY <1>8 DEF Enqueue, dbVars, envVars
  <2>2. NoGain /\ pc'[j] = "free"
    BY <2>1, FinishNoGain DEF Finish, JobsTypeOK
  <2>3. Serial => InHand(j) /\ alert[target[j]] # "TRIGGERED"
    BY <2>1 DEF RecoveryInv, HandsMatch, InHand
  <2>4. \A a \in Alerts : a # target[j] => recoveries'[a] = recoveries[a]
    BY <2>1 DEF DataTypeOK
  <2>5. Serial => recoveries'[target[j]] = 1
    BY <2>1, <2>3 DEF InHand, DataTypeOK
  <2>6. Alone'
    BY <2>2 DEF RecoveryInv, NoGain, Alone, Serial
  <2>7. HandsMatch'
    <3> SUFFICES ASSUME Serial, NEW k \in Jobs, pc'[k] \in {"resolve", "enqueue"}
                 PROVE  InHand(k)'
      BY <2>1 DEF HandsMatch, Serial
    <3>1. k # j /\ pc'[k] = pc[k] /\ ep'[k] = ep[k] /\ target'[k] = target[k]
      BY <2>2 DEF NoGain
    <3>2. InHand(k)
      BY <3>1 DEF RecoveryInv, HandsMatch
    <3>3. ep[k] \in Endpoints /\ ep[k] # ep[j]
      BY <3>1, <3>2 DEF RecoveryInv, Alone, InHand, DataTypeOK
    <3>4. target[k] # target[j]
      BY <2>3, <3>2, <3>3 DEF InHand
    <3> QED
      BY <2>1, <2>4, <3>1, <3>2, <3>4 DEF InHand
  <2>8. AnnouncedIsClosed' /\ RecoveryAtMostOnce'
    BY <2>1, <2>3, <2>4, <2>5
    DEF RecoveryInv, InHand, AnnouncedIsClosed, RecoveryAtMostOnce, Serial
  <2> QED
    BY <2>6, <2>7, <2>8 DEF RecoveryInv
<1> QED
  BY <1>1, <1>2, <1>3, <1>4, <1>5, <1>6, <1>7, <1>8 DEF HandlerStep

LEMMA FaultKeepsRecovery ==
    ASSUME TypeOK, LedgerInv, RecoveryInv, NEW j \in Jobs,
           CallFails(j) \/ CommitUnacknowledged(j) \/ ResolveUnacknowledged(j) \/ Crash(j)
    PROVE  RecoveryInv'
<1> JobsTypeOK /\ DataTypeOK
  BY DEF TypeOK
<1>1. CASE CallFails(j)
  BY <1>1, GotoNoGain, RetryNoGain, NoGainKeeps DEF CallFails, envVars
<1>2. CASE CommitUnacknowledged(j)
  BY <1>2, GotoNoGain, CreateKeepsRecovery DEF CommitUnacknowledged, CreateAlert, envVars
<1>3. CASE ResolveUnacknowledged(j)
  <2>1. NoGain
    BY <1>3, RetryNoGain DEF ResolveUnacknowledged, MarkResolved, envVars
  <2>2. target[j] \in Alerts /\ alert[target[j]] # "free"
    BY <1>3 DEF ResolveUnacknowledged, MarkResolved, LedgerInv, TargetExists
  <2> QED
    BY <1>3, <2>1, <2>2, ClosingKeepsRecovery
    DEF ResolveUnacknowledged, MarkResolved, DataTypeOK
<1>4. CASE Crash(j)
  <2>1. NoGain
    <3>1. CASE Finish(j)
      BY <1>4, <3>1, FinishNoGain DEF Crash, envVars
    <3>2. CASE ~Finish(j)
      BY <1>4, <3>2 DEF Crash, NoGain, JobsTypeOK, envVars
    <3> QED
      BY <3>1, <3>2
  <2> QED
    BY <1>4, <2>1, NoGainKeeps DEF Crash
<1> QED
  BY <1>1, <1>2, <1>3, <1>4

LEMMA StepRecoveryInv == TypeOK /\ LedgerInv /\ RecoveryInv /\ [Next]_vars => RecoveryInv'
<1> SUFFICES ASSUME TypeOK, LedgerInv, RecoveryInv, [Next]_vars PROVE RecoveryInv'
  OBVIOUS
<1>1. CASE UNCHANGED vars
  BY <1>1, NoGainKeeps DEF NoGain, vars, jobVars, dbVars, envVars
<1>2. ASSUME NEW e \in Endpoints, NEW j \in Jobs, Tick(e, j) PROVE RecoveryInv'
  <2>1. /\ pc' = [pc EXCEPT ![j] = "waiting"] /\ ep' = [ep EXCEPT ![j] = e]
        /\ Serial => \A k \in Jobs : ep[k] # e
        /\ UNCHANGED <<target, alert, alertOf, recoveries, mode>>
    BY <1>2 DEF Tick, dbVars, envVars, Serial
  <2>2. /\ pc'[j] = "waiting" /\ ep'[j] = e
        /\ \A k \in Jobs : k # j => pc'[k] = pc[k] /\ ep'[k] = ep[k]
    BY <2>1 DEF TypeOK, JobsTypeOK
  <2>3. Alone'
    BY <2>1, <2>2 DEF RecoveryInv, Alone, Serial
  <2>4. HandsMatch'
    BY <2>1, <2>2 DEF RecoveryInv, HandsMatch, InHand, Serial
  <2> QED
    BY <2>1, <2>3, <2>4 DEF RecoveryInv, AnnouncedIsClosed, RecoveryAtMostOnce, Serial
<1>3. ASSUME NEW e \in Endpoints, EndpointNext(e) PROVE RecoveryInv'
  <2>1. NoGain
    BY <1>3 DEF EndpointNext, ExpireCount, ExpireLock, GoDown, GoUp, ChangeConfig,
                DeleteRow, ClearKeys, jobVars, envVars, NoGain
  <2>2. CASE DeleteRow(e)
    BY <2>1, <2>2, ClosingKeepsRecovery DEF DeleteRow
  <2>3. CASE ~DeleteRow(e)
    BY <1>3, <2>1, <2>3, NoGainKeeps
    DEF EndpointNext, ExpireCount, ExpireLock, GoDown, GoUp, ChangeConfig, ClearKeys, dbVars
  <2> QED
    BY <2>2, <2>3
<1> QED
  BY <1>1, <1>2, <1>3, HandlerKeepsRecovery, FaultKeepsRecovery DEF Next, JobNext

\* When the jobs of an endpoint do not overlap, no crash, retry, redelivery or
\* lost acknowledgement makes the worker queue a recovery of one alert twice.
THEOREM RecoveryOnce == Spec => []RecoveryAtMostOnce
<1>1. Init => RecoveryInv
  BY EndpointsAssumption
  DEF Init, RecoveryInv, Alone, HandsMatch, AnnouncedIsClosed, RecoveryAtMostOnce
<1>2. RecoveryInv => RecoveryAtMostOnce
  BY DEF RecoveryInv
<1>3. TypeOK /\ LedgerInv /\ RecoveryInv /\ [Next]_vars => RecoveryInv'
  BY StepRecoveryInv
<1> QED
  BY <1>1, <1>2, <1>3, LedgerInvariant, PTL DEF Spec

---------------------------------------------------------------------------
(* What a step of one job leaves of the others, and where it leaves itself. *)

Others(j) ==
    \A k \in Jobs \ {j} : pc'[k] = pc[k] /\ ep'[k] = ep[k] /\ target'[k] = target[k]

LEMMA GotoMoves ==
    ASSUME JobsTypeOK, NEW j \in Jobs, NEW place, Goto(j, place)
    PROVE  Others(j) /\ pc'[j] = place /\ ep'[j] = ep[j] /\ target'[j] = target[j]
BY DEF JobsTypeOK, Goto, Others

LEMMA FinishMoves ==
    ASSUME JobsTypeOK, NEW j \in Jobs, Finish(j)
    PROVE  Others(j) /\ pc'[j] = "free" /\ ep'[j] = NoEndpoint
BY DEF JobsTypeOK, Finish, Others

LEMMA RetryMoves ==
    ASSUME JobsTypeOK, NEW j \in Jobs, Retry(j)
    PROVE  Others(j) /\ pc'[j] \in {"free", "waiting"} /\ ep'[j] \in {ep[j], NoEndpoint}
<1>1. CASE Finish(j)
  BY <1>1, FinishMoves
<1>2. CASE ~Finish(j)
  BY <1>2 DEF JobsTypeOK, Retry, Others
<1> QED
  BY <1>1, <1>2

LEMMA HandlerMoves ==
    ASSUME TypeOK, NEW j \in Jobs, HandlerStep(j)
    PROVE  /\ Others(j) /\ mode' = mode
           /\ pc[j] # "free" /\ ep[j] \in Endpoints /\ ep'[j] \in {ep[j], NoEndpoint}
<1> JobsTypeOK
  BY DEF TypeOK
<1>1. mode' = mode /\ pc[j] # "free"
  BY DEF HandlerStep, ReadConfig, Ping, Incr, Expire, Lock, Begin, Commit, CreateAlert,
         CommitRejected, Unlock, Get, Del, Find, Resolve, MarkResolved, ResolveRejected, Enqueue,
         envVars
<1>2. (\E place : Goto(j, place)) \/ Finish(j) \/ Retry(j) => Others(j) /\ ep'[j] \in {ep[j], NoEndpoint}
  BY GotoMoves, FinishMoves, RetryMoves
<1>3. Others(j) /\ ep'[j] \in {ep[j], NoEndpoint}
  <2>1. CASE (\E place : Goto(j, place)) \/ Finish(j) \/ Retry(j)
    BY <1>2, <2>1
  <2>2. CASE Find(j) /\ ~Finish(j)
    BY <2>2 DEF Find, JobsTypeOK, Others
  <2> QED
    BY <2>1, <2>2
    DEF HandlerStep, ReadConfig, Ping, Incr, Expire, Lock, Begin, Commit, CommitRejected, Unlock,
        Get, Del, Resolve, ResolveRejected, Enqueue
<1> QED
  BY <1>1, <1>3 DEF JobsTypeOK

LEMMA FaultMoves ==
    ASSUME TypeOK, NEW j \in Jobs,
           CallFails(j) \/ CommitUnacknowledged(j) \/ ResolveUnacknowledged(j)
    PROVE  /\ Others(j) /\ mode' = mode /\ pc'[j] \in {"free", "waiting", "unlockThrow"}
           /\ ~Spared({"error"})
           /\ UNCHANGED <<fails, expiring, row, streak>>
           /\ pc[j] \in {"waiting", "ping", "find", "resolve", "begin", "commit"}
<1> JobsTypeOK
  BY DEF TypeOK
<1>1. Goto(j, "unlockThrow") \/ Retry(j)
  BY DEF CallFails, CommitUnacknowledged, ResolveUnacknowledged
<1> QED
  BY <1>1, GotoMoves, RetryMoves
  DEF CallFails, CommitUnacknowledged, CreateAlert, ResolveUnacknowledged, MarkResolved,
      redisVars, envVars, Spared

---------------------------------------------------------------------------
(* Counters.  CounterExpires is inductive: whoever creates the counter goes *)
(* to EXPIRE next, and only a crash keeps it from there.                    *)

LEMMA CounterKept ==
    ASSUME CounterExpires, mode' = mode,
           \A e \in Endpoints : fails'[e] > 0 => fails[e] > 0 /\ (e \in expiring => e \in expiring'),
           Spared({"crash"}) =>
              \A k \in Jobs : pc[k] = "expire" => pc'[k] = "expire" /\ ep'[k] = ep[k]
    PROVE  CounterExpires'
BY DEF CounterExpires, Spared

LEMMA HandlerKeepsCounter ==
    ASSUME TypeOK, CounterExpires, NEW j \in Jobs, HandlerStep(j)
    PROVE  CounterExpires'
<1> JobsTypeOK /\ DataTypeOK
  BY DEF TypeOK
<1>1. Others(j) /\ mode' = mode /\ ep[j] \in Endpoints
  BY HandlerMoves
<1>2. CASE Incr(j)
  <2>1. /\ pc[j] = "incr"
        /\ expiring' = expiring
        /\ \A e \in Endpoints \ {ep[j]} : fails'[e] = fails[e]
        /\ fails[ep[j]] = 0 => pc'[j] = "expire" /\ ep'[j] = ep[j]
    BY <1>2, GotoMoves DEF Incr, DataTypeOK
  <2> SUFFICES ASSUME Spared({"crash"}), NEW e \in Endpoints, fails'[e] > 0
               PROVE  e \in expiring' \/ \E k \in Jobs : pc'[k] = "expire" /\ ep'[k] = e
    BY <1>1 DEF CounterExpires, Spared
  <2>2. CASE e = ep[j] /\ fails[e] = 0
    BY <2>1, <2>2
  <2>3. CASE e # ep[j] \/ fails[e] # 0
    <3>1. fails[e] > 0
      BY <1>1, <2>1, <2>3 DEF DataTypeOK
    <3>2. CASE e \in expiring
      BY <2>1, <3>2
    <3>3. CASE \E k \in Jobs : pc[k] = "expire" /\ ep[k] = e
      <4>1. PICK k \in Jobs : pc[k] = "expire" /\ ep[k] = e
        BY <3>3
      <4>2. pc'[k] = "expire" /\ ep'[k] = e
        BY <1>1, <2>1, <4>1 DEF Others
      <4> QED
        BY <4>2
    <3> QED
      BY <3>1, <3>2, <3>3 DEF CounterExpires
  <2> QED
    BY <2>2, <2>3
<1>3. CASE Expire(j)
  <2>1. /\ pc[j] = "expire" /\ fails' = fails
        /\ expiring' = IF fails[ep[j]] > 0 THEN expiring \cup {ep[j]} ELSE expiring
    BY <1>3 DEF Expire
  <2> SUFFICES ASSUME Spared({"crash"}), NEW e \in Endpoints, fails[e] > 0
               PROVE  e \in expiring' \/ \E k \in Jobs : pc'[k] = "expire" /\ ep'[k] = e
    BY <1>1, <2>1 DEF CounterExpires, Spared
  <2>2. CASE e \in expiring \/ e = ep[j]
    BY <2>1, <2>2
  <2>3. CASE e \notin expiring /\ e # ep[j]
    <3>1. PICK k \in Jobs : pc[k] = "expire" /\ ep[k] = e
      BY <2>3 DEF CounterExpires
    <3>2. pc'[k] = "expire" /\ ep'[k] = e
      BY <1>1, <2>3, <3>1 DEF Others
    <3> QED
      BY <3>2
  <2> QED
    BY <2>2, <2>3
<1>4. CASE Del(j)
  <2>1. /\ pc[j] = "del"
        /\ fails'[ep[j]] = 0
        /\ \A e \in Endpoints \ {ep[j]} : fails'[e] = fails[e] /\ (e \in expiring => e \in expiring')
    BY <1>1, <1>4 DEF Del, DataTypeOK
  <2> QED
    BY <1>1, <2>1, CounterKept DEF Others
<1>5. CASE ~Incr(j) /\ ~Expire(j) /\ ~Del(j)
  <2>1. UNCHANGED <<fails, expiring>> /\ pc[j] # "expire"
    BY <1>5 DEF HandlerStep, ReadConfig, Ping, Lock, Begin, Commit, CreateAlert, CommitRejected,
                Unlock, Get, Find, Resolve, MarkResolved, ResolveRejected, Enqueue, redisVars
  <2> QED
    BY <1>1, <2>1, CounterKept DEF Others
<1> QED
  BY <1>2, <1>3, <1>4, <1>5

LEMMA StepCounter == TypeOK /\ CounterExpires /\ [Next]_vars => CounterExpires'
<1> SUFFICES ASSUME TypeOK, CounterExpires, [Next]_vars PROVE CounterExpires'
  OBVIOUS
<1>1. CASE UNCHANGED vars
  BY <1>1, CounterKept DEF vars, jobVars, redisVars, envVars
<1>2. ASSUME NEW j \in Jobs, CallFails(j) \/ CommitUnacknowledged(j) \/ ResolveUnacknowledged(j)
      PROVE  CounterExpires'
  BY <1>2, FaultMoves, CounterKept DEF Others
<1>3. ASSUME NEW j \in Jobs, Crash(j) PROVE CounterExpires'
  <2>1. ~Spared({"crash"}) /\ mode' = mode
    BY <1>3 DEF Crash, Spared, envVars
  <2> QED
    BY <2>1 DEF CounterExpires, Spared
<1>4. ASSUME NEW e \in Endpoints, NEW j \in Jobs, Tick(e, j) PROVE CounterExpires'
  <2>1. UNCHANGED <<fails, expiring, mode>> /\ pc[j] = "free"
    BY <1>4 DEF Tick, redisVars, envVars
  <2>2. \A k \in Jobs \ {j} : pc'[k] = pc[k] /\ ep'[k] = ep[k]
    BY <1>4 DEF Tick, TypeOK, JobsTypeOK
  <2> QED
    BY <2>1, <2>2, CounterKept
<1>5. ASSUME NEW e \in Endpoints, EndpointNext(e) PROVE CounterExpires'
  <2>1. UNCHANGED <<pc, ep, mode>>
    BY <1>5 DEF EndpointNext, ExpireCount, ExpireLock, GoDown, GoUp, ChangeConfig, DeleteRow,
                ClearKeys, jobVars, envVars
  <2>2. CASE ExpireCount(e) \/ ClearKeys(e)
    <3>1. /\ fails'[e] = 0
          /\ \A d \in Endpoints \ {e} : fails'[d] = fails[d] /\ (d \in expiring => d \in expiring')
      BY <2>2 DEF ExpireCount, ClearKeys, TypeOK, DataTypeOK
    <3> QED
      BY <2>1, <3>1, CounterKept
  <2>3. CASE ~ExpireCount(e) /\ ~ClearKeys(e)
    BY <1>5, <2>1, <2>3, CounterKept
    DEF EndpointNext, ExpireLock, GoDown, GoUp, ChangeConfig, DeleteRow, redisVars
  <2> QED
    BY <2>2, <2>3
<1> QED
  BY <1>1, <1>2, <1>3, <1>4, <1>5, HandlerKeepsCounter DEF Next, JobNext

\* Unless a worker dies between INCR and EXPIRE, no failure count is left
\* without a TTL, however the jobs of an endpoint interleave.
THEOREM CountersExpire == Spec => []CounterExpires
<1>1. Init => CounterExpires
  BY DEF Init, CounterExpires
<1> QED
  BY <1>1, StepCounter, TypeCorrect, PTL DEF Spec

---------------------------------------------------------------------------
(* Recoveries are not lost.  It needs LedgerInv only to know that a job     *)
(* about to write names an alert that exists.                              *)

LEMMA PromiseKept ==
    ASSUME NoLostRecovery, mode' = mode, recoveries' = recoveries,
           \A a \in Alerts : alert'[a] = "RESOLVED" => alert[a] = "RESOLVED",
           \A k \in Jobs : pc[k] = "enqueue" => pc'[k] = "enqueue" /\ target'[k] = target[k]
    PROVE  NoLostRecovery'
BY DEF NoLostRecovery, Spared

LEMMA ResolvePromises ==
    ASSUME TypeOK, LedgerInv, NoLostRecovery, NEW j \in Jobs, Resolve(j)
    PROVE  NoLostRecovery'
<1>1. /\ target[j] \in Alerts
      /\ pc[j] = "resolve"
      /\ \A a \in Alerts \ {target[j]} : alert'[a] = alert[a]
      /\ UNCHANGED <<recoveries, mode>>
  BY DEF Resolve, MarkResolved, LedgerInv, TargetExists, TypeOK, DataTypeOK, envVars
<1>2. Others(j) /\ pc'[j] = "enqueue" /\ target'[j] = target[j]
  BY GotoMoves DEF Resolve, TypeOK
<1> SUFFICES ASSUME Spared({"crash", "error"}), NEW a \in Alerts, alert'[a] = "RESOLVED"
             PROVE  recoveries'[a] > 0 \/ \E k \in Jobs : pc'[k] = "enqueue" /\ target'[k] = a
  BY <1>1 DEF NoLostRecovery, Spared
<1>3. CASE a = target[j]
  BY <1>2, <1>3
<1>4. CASE a # target[j] /\ recoveries[a] > 0
  BY <1>1, <1>4
<1>5. CASE a # target[j] /\ ~(recoveries[a] > 0)
  <2>1. PICK k \in Jobs : pc[k] = "enqueue" /\ target[k] = a
    BY <1>1, <1>5 DEF NoLostRecovery
  <2>2. pc'[k] = "enqueue" /\ target'[k] = a
    BY <1>1, <1>2, <2>1 DEF Others
  <2> QED
    BY <2>2
<1> QED
  BY <1>3, <1>4, <1>5

LEMMA EnqueueDelivers ==
    ASSUME TypeOK, LedgerInv, NoLostRecovery, NEW j \in Jobs, Enqueue(j)
    PROVE  NoLostRecovery'
<1> DEFINE more == IF recoveries[target[j]] < 2 THEN recoveries[target[j]] + 1
                                               ELSE recoveries[target[j]]
<1>1. /\ target[j] \in Alerts
      /\ recoveries' = [recoveries EXCEPT ![target[j]] = more]
      /\ UNCHANGED <<alert, mode>>
  BY DEF Enqueue, LedgerInv, TargetExists, dbVars, envVars
<1>2. recoveries[target[j]] \in 0..2
  BY <1>1 DEF TypeOK, DataTypeOK
<1>3. more > 0
  BY <1>2
<1> HIDE DEF more
<1>4. /\ recoveries'[target[j]] > 0
      /\ \A a \in Alerts \ {target[j]} : recoveries'[a] = recoveries[a]
  BY <1>1, <1>3 DEF TypeOK, DataTypeOK
<1>5. Others(j)
  BY FinishMoves DEF Enqueue, TypeOK
<1> SUFFICES ASSUME Spared({"crash", "error"}), NEW a \in Alerts, alert[a] = "RESOLVED"
             PROVE  recoveries'[a] > 0 \/ \E k \in Jobs : pc'[k] = "enqueue" /\ target'[k] = a
  BY <1>1 DEF NoLostRecovery, Spared
<1>6. CASE a = target[j] \/ recoveries[a] > 0
  BY <1>4, <1>6
<1>7. CASE a # target[j] /\ ~(recoveries[a] > 0)
  <2>1. PICK k \in Jobs : pc[k] = "enqueue" /\ target[k] = a
    BY <1>7 DEF NoLostRecovery
  <2>2. pc'[k] = "enqueue" /\ target'[k] = a
    BY <1>5, <1>7, <2>1 DEF Others
  <2> QED
    BY <2>2
<1> QED
  BY <1>6, <1>7

LEMMA StepPromise == TypeOK /\ LedgerInv /\ NoLostRecovery /\ [Next]_vars => NoLostRecovery'
<1> SUFFICES ASSUME TypeOK, LedgerInv, NoLostRecovery, [Next]_vars PROVE NoLostRecovery'
  OBVIOUS
<1>1. CASE UNCHANGED vars
  BY <1>1, PromiseKept DEF vars, jobVars, dbVars, envVars
<1>2. ASSUME NEW j \in Jobs, HandlerStep(j), ~Resolve(j), ~Enqueue(j) PROVE NoLostRecovery'
  <2>1. recoveries' = recoveries /\ pc[j] # "enqueue"
    BY <1>2 DEF HandlerStep, ReadConfig, Ping, Incr, Expire, Lock, Begin, Commit, CreateAlert,
                CommitRejected, Unlock, Get, Del, Find, ResolveRejected
  <2>2. alert' = alert \/ \E a \in Alerts : alert' = [alert EXCEPT ![a] = "TRIGGERED"]
    BY <1>2 DEF HandlerStep, ReadConfig, Ping, Incr, Expire, Lock, Begin, Commit, CreateAlert,
                CommitRejected, Unlock, Get, Del, Find, ResolveRejected, dbVars
  <2>3. \A a \in Alerts : alert'[a] = "RESOLVED" => alert[a] = "RESOLVED"
    BY <2>2 DEF TypeOK, DataTypeOK
  <2> QED
    BY <1>2, <2>1, <2>3, HandlerMoves, PromiseKept DEF Others
<1>3. ASSUME NEW j \in Jobs, \/ CallFails(j) \/ CommitUnacknowledged(j)
                             \/ ResolveUnacknowledged(j) \/ Crash(j)
      PROVE  NoLostRecovery'
  <2>1. ~Spared({"crash", "error"}) /\ mode' = mode
    BY <1>3 DEF CallFails, CommitUnacknowledged, CreateAlert, ResolveUnacknowledged, MarkResolved,
                Crash, Spared, envVars
  <2> QED
    BY <2>1 DEF NoLostRecovery, Spared
<1>4. ASSUME NEW e \in Endpoints, NEW j \in Jobs, Tick(e, j) PROVE NoLostRecovery'
  <2>1. UNCHANGED <<target, alert, recoveries, mode>> /\ pc[j] = "free"
    BY <1>4 DEF Tick, dbVars, envVars
  <2>2. \A k \in Jobs \ {j} : pc'[k] = pc[k]
    BY <1>4 DEF Tick, TypeOK, JobsTypeOK
  <2> QED
    BY <2>1, <2>2, PromiseKept
<1>5. ASSUME NEW e \in Endpoints, EndpointNext(e) PROVE NoLostRecovery'
  <2>1. UNCHANGED <<pc, target, recoveries, mode>>
    BY <1>5 DEF EndpointNext, ExpireCount, ExpireLock, GoDown, GoUp, ChangeConfig, DeleteRow,
                ClearKeys, jobVars, envVars
  <2>2. \A a \in Alerts : alert'[a] = "RESOLVED" => alert[a] = "RESOLVED"
    BY <1>5 DEF EndpointNext, ExpireCount, ExpireLock, GoDown, GoUp, ChangeConfig, DeleteRow,
                ClearKeys, dbVars
  <2> QED
    BY <2>1, <2>2, PromiseKept
<1> QED
  BY <1>1, <1>2, <1>3, <1>4, <1>5, ResolvePromises, EnqueueDelivers DEF Next, JobNext

\* Unless a worker dies or a call is rejected, every alert that is closed has
\* its recovery queued or a job about to queue it, overlapping jobs or not.
THEOREM RecoveryKept == Spec => []NoLostRecovery
<1>1. Init => NoLostRecovery
  BY DEF Init, NoLostRecovery
<1> QED
  BY <1>1, StepPromise, LedgerInvariant, PTL DEF Spec

---------------------------------------------------------------------------
(* Open alerts are counted.  Sheltered jobs come one at a time, so the       *)
(* counter a job has raised stays up while the job is on its way to the      *)
(* transaction; the alert a job is about to close is the only open one of    *)
(* its endpoint; and no alert opens once the row of its endpoint is gone.    *)

FailsOnRecord ==
    \A j \in Jobs, e \in Endpoints :
        pc[j] \in {"expire", "lock", "begin", "commit"} /\ ep[j] = e /\ row[e] = "live"
            => fails[e] > 0

DeletedIsClosed == \A e \in Endpoints : row[e] # "live" => OpenAlerts(e) = {}

OnlyTargetOpen ==
    \A j \in Jobs, e \in Endpoints :
        pc[j] \in {"resolve", "enqueue"} /\ ep[j] = e => OpenAlerts(e) \subseteq {target[j]}

Remembered ==
    \A e \in Endpoints :
        OpenAlerts(e) # {} =>
            fails[e] > 0 \/ \E j \in Jobs : ep[j] = e /\ pc[j] \in {"find", "resolve"}

CountInv == Sheltered => FailsOnRecord /\ DeletedIsClosed /\ OnlyTargetOpen /\ Remembered

\* A step of one job that leaves the counters and the Alert table alone.
LEMMA CountKept ==
    ASSUME TypeOK, CountInv, NEW j \in Jobs, Others(j), ep[j] \in Endpoints,
           UNCHANGED <<fails, alert, alertOf, row, mode>>,
           Sheltered /\ pc'[j] \in {"expire", "lock", "begin", "commit"} =>
               /\ ep'[j] = ep[j]
               /\ pc[j] \in {"expire", "lock", "begin", "commit"},
           Sheltered /\ pc'[j] \in {"resolve", "enqueue"} =>
               ep'[j] = ep[j] /\ OpenAlerts(ep[j]) \subseteq {target'[j]},
           Sheltered /\ pc[j] \in {"find", "resolve"} =>
               \/ pc'[j] \in {"find", "resolve"} /\ ep'[j] = ep[j]
               \/ OpenAlerts(ep[j]) = {}
    PROVE  CountInv'
<1>1. \A e \in Endpoints : (OpenAlerts(e))' = OpenAlerts(e)
  BY DEF OpenAlerts
<1> SUFFICES ASSUME Sheltered PROVE (FailsOnRecord /\ DeletedIsClosed /\ OnlyTargetOpen /\ Remembered)'
  BY DEF CountInv, Sheltered, Serial, Spared
<1>2. FailsOnRecord /\ DeletedIsClosed /\ OnlyTargetOpen /\ Remembered
  BY DEF CountInv
<1>3. FailsOnRecord'
  BY <1>2 DEF FailsOnRecord, Others
<1>4. DeletedIsClosed'
  BY <1>1, <1>2 DEF DeletedIsClosed
<1>5. OnlyTargetOpen'
  BY <1>1, <1>2 DEF OnlyTargetOpen, Others
<1>6. Remembered'
  <2> SUFFICES ASSUME NEW e \in Endpoints, OpenAlerts(e) # {}, ~(fails[e] > 0)
               PROVE  \E k \in Jobs : ep'[k] = e /\ pc'[k] \in {"find", "resolve"}
    BY <1>1 DEF Remembered
  <2>1. PICK k \in Jobs : ep[k] = e /\ pc[k] \in {"find", "resolve"}
    BY <1>2 DEF Remembered
  <2>2. ep'[k] = e /\ pc'[k] \in {"find", "resolve"}
    BY <2>1 DEF Others
  <2> QED
    BY <2>2
<1> QED
  BY <1>3, <1>4, <1>5, <1>6

\* INCR leaves a count of one at least.
LEMMA IncrCounts ==
    ASSUME TypeOK, CountInv, NEW j \in Jobs, Incr(j)
    PROVE  CountInv'
<1>1. /\ pc[j] = "incr" /\ ep[j] \in Endpoints
      /\ fails' = [fails EXCEPT ![ep[j]] = BumpCount(fails[ep[j]])]
      /\ UNCHANGED <<alert, alertOf, row, mode>>
      /\ Finish(j) \/ Goto(j, "expire") \/ Goto(j, "lock")
  BY HandlerMoves DEF HandlerStep, Incr, dbVars, envVars
<1>2. /\ Others(j)
      /\ pc'[j] \in {"free", "expire", "lock"}
      /\ pc'[j] # "free" => ep'[j] = ep[j]
  BY <1>1, GotoMoves, FinishMoves DEF TypeOK
<1>3. /\ fails'[ep[j]] > 0
      /\ \A e \in Endpoints \ {ep[j]} : fails'[e] = fails[e]
  BY <1>1, BumpTypes, CapAssumption DEF TypeOK, DataTypeOK
<1>4. \A e \in Endpoints : (OpenAlerts(e))' = OpenAlerts(e)
  BY <1>1 DEF OpenAlerts
<1> SUFFICES ASSUME Sheltered PROVE (FailsOnRecord /\ DeletedIsClosed /\ OnlyTargetOpen /\ Remembered)'
  BY <1>1 DEF CountInv, Sheltered, Serial, Spared
<1>5. FailsOnRecord /\ DeletedIsClosed /\ OnlyTargetOpen /\ Remembered
  BY DEF CountInv
<1>6. FailsOnRecord'
  BY <1>1, <1>2, <1>3, <1>5 DEF FailsOnRecord, Others
<1>7. DeletedIsClosed' /\ OnlyTargetOpen'
  BY <1>1, <1>2, <1>4, <1>5 DEF DeletedIsClosed, OnlyTargetOpen, Others
<1>8. Remembered'
  BY <1>1, <1>2, <1>3, <1>4, <1>5 DEF Remembered, Others
<1> QED
  BY <1>6, <1>7, <1>8

\* Nobody else is on its way to the transaction when the counter is deleted.
LEMMA DelCounts ==
    ASSUME TypeOK, RecoveryInv, CountInv, NEW j \in Jobs, Del(j)
    PROVE  CountInv'
<1>1. /\ pc[j] = "del" /\ ep[j] \in Endpoints
      /\ fails' = [fails EXCEPT ![ep[j]] = 0]
      /\ UNCHANGED <<alert, alertOf, row, mode>>
      /\ Goto(j, "find")
  BY HandlerMoves DEF HandlerStep, Del, dbVars, envVars
<1>2. Others(j) /\ pc'[j] = "find" /\ ep'[j] = ep[j]
  BY <1>1, GotoMoves DEF TypeOK
<1>3. \A e \in Endpoints \ {ep[j]} : fails'[e] = fails[e]
  BY <1>1 DEF TypeOK, DataTypeOK
<1>4. \A e \in Endpoints : (OpenAlerts(e))' = OpenAlerts(e)
  BY <1>1 DEF OpenAlerts
<1> SUFFICES ASSUME Sheltered PROVE (FailsOnRecord /\ DeletedIsClosed /\ OnlyTargetOpen /\ Remembered)'
  BY <1>1 DEF CountInv, Sheltered, Serial, Spared
<1>5. FailsOnRecord /\ DeletedIsClosed /\ OnlyTargetOpen /\ Remembered
  BY DEF CountInv
<1>6. \A k \in Jobs \ {j} : ep[k] # ep[j]
  BY <1>1 DEF RecoveryInv, Alone, Sheltered
<1>7. FailsOnRecord'
  BY <1>1, <1>2, <1>3, <1>5, <1>6 DEF FailsOnRecord, Others
<1>8. DeletedIsClosed' /\ OnlyTargetOpen'
  BY <1>1, <1>2, <1>4, <1>5 DEF DeletedIsClosed, OnlyTargetOpen, Others
<1>9. Remembered'
  <2> SUFFICES ASSUME NEW e \in Endpoints, OpenAlerts(e) # {}
               PROVE  fails'[e] > 0 \/ \E k \in Jobs : ep'[k] = e /\ pc'[k] \in {"find", "resolve"}
    BY <1>4 DEF Remembered
  <2>1. CASE e = ep[j]
    BY <1>2, <2>1
  <2>2. CASE e # ep[j] /\ fails[e] > 0
    BY <1>3, <2>2
  <2>3. CASE e # ep[j] /\ ~(fails[e] > 0)
    <3>1. PICK k \in Jobs : ep[k] = e /\ pc[k] \in {"find", "resolve"}
      BY <1>5, <2>3 DEF Remembered
    <3>2. ep'[k] = e /\ pc'[k] \in {"find", "resolve"}
      BY <1>1, <1>2, <2>3, <3>1 DEF Others
    <3> QED
      BY <3>2
  <2> QED
    BY <2>1, <2>2, <2>3
<1> QED
  BY <1>7, <1>8, <1>9

\* An alert opens while its endpoint has a row and a failure count, and no
\* other job of the endpoint is there to hold an alert.
LEMMA CommitCounts ==
    ASSUME TypeOK, RecoveryInv, CountInv, NEW j \in Jobs, Commit(j)
    PROVE  CountInv'
<1>1. /\ pc[j] = "commit" /\ ep[j] \in Endpoints /\ row[ep[j]] = "live"
      /\ UNCHANGED <<fails, row, mode>>
      /\ Goto(j, "unlock")
  BY HandlerMoves DEF HandlerStep, Commit, CreateAlert, redisVars, envVars
<1>2. Others(j) /\ pc'[j] = "unlock" /\ ep'[j] = ep[j]
  BY <1>1, GotoMoves DEF TypeOK
<1>3. PICK a \in Alerts :
         /\ alert[a] = "free"
         /\ alert' = [alert EXCEPT ![a] = "TRIGGERED"]
         /\ alertOf' = [alertOf EXCEPT ![a] = ep[j]]
  BY DEF Commit, CreateAlert
<1>4. /\ alertOf'[a] = ep[j]
      /\ \A b \in Alerts \ {a} : alert'[b] = alert[b] /\ alertOf'[b] = alertOf[b]
  BY <1>3 DEF TypeOK, DataTypeOK
<1>5. \A e \in Endpoints \ {ep[j]} : (OpenAlerts(e))' = OpenAlerts(e)
  BY <1>3, <1>4 DEF OpenAlerts
<1> SUFFICES ASSUME Sheltered PROVE (FailsOnRecord /\ DeletedIsClosed /\ OnlyTargetOpen /\ Remembered)'
  BY <1>1 DEF CountInv, Sheltered, Serial, Spared
<1>6. FailsOnRecord /\ DeletedIsClosed /\ OnlyTargetOpen /\ Remembered
  BY DEF CountInv
<1>7. \A k \in Jobs \ {j} : ep[k] # ep[j]
  BY <1>1 DEF RecoveryInv, Alone, Sheltered
<1>8. FailsOnRecord'
  BY <1>1, <1>2, <1>6 DEF FailsOnRecord, Others
<1>9. DeletedIsClosed'
  BY <1>1, <1>5, <1>6 DEF DeletedIsClosed
<1>10. OnlyTargetOpen'
  BY <1>1, <1>2, <1>5, <1>6, <1>7 DEF OnlyTargetOpen, Others
<1>11. Remembered'
  <2> SUFFICES ASSUME NEW e \in Endpoints, (OpenAlerts(e))' # {}, ~(fails[e] > 0)
               PROVE  \E k \in Jobs : ep'[k] = e /\ pc'[k] \in {"find", "resolve"}
    BY <1>1 DEF Remembered
  <2>1. e # ep[j]
    BY <1>1, <1>6 DEF FailsOnRecord
  <2>2. PICK k \in Jobs : ep[k] = e /\ pc[k] \in {"find", "resolve"}
    BY <1>5, <1>6, <2>1 DEF Remembered
  <2>3. ep'[k] = e /\ pc'[k] \in {"find", "resolve"}
    BY <1>2, <2>1, <2>2 DEF Others
  <2> QED
    BY <2>3
<1> QED
  BY <1>8, <1>9, <1>10, <1>11

\* The job closes the only open alert of its endpoint.
LEMMA ResolveCounts ==
    ASSUME TypeOK, LedgerInv, CountInv, NEW j \in Jobs, Resolve(j)
    PROVE  CountInv'
<1>1. /\ pc[j] = "resolve" /\ ep[j] \in Endpoints /\ target[j] \in Alerts
      /\ alert' = [alert EXCEPT ![target[j]] = "RESOLVED"]
      /\ UNCHANGED <<alertOf, fails, row, mode>>
      /\ Goto(j, "enqueue")
  BY HandlerMoves DEF HandlerStep, Resolve, MarkResolved, LedgerInv, TargetExists, redisVars, envVars
<1>2. Others(j) /\ pc'[j] = "enqueue" /\ ep'[j] = ep[j] /\ target'[j] = target[j]
  BY <1>1, GotoMoves DEF TypeOK
<1>3. \A e \in Endpoints : (OpenAlerts(e))' = OpenAlerts(e) \ {target[j]}
  BY <1>1 DEF OpenAlerts, TypeOK, DataTypeOK
<1> SUFFICES ASSUME Sheltered PROVE (FailsOnRecord /\ DeletedIsClosed /\ OnlyTargetOpen /\ Remembered)'
  BY <1>1 DEF CountInv, Sheltered, Serial, Spared
<1>4. FailsOnRecord /\ DeletedIsClosed /\ OnlyTargetOpen /\ Remembered
  BY DEF CountInv
<1>5. (OpenAlerts(ep[j]) \ {target[j]}) = {}
  BY <1>1, <1>4 DEF OnlyTargetOpen
<1>6. FailsOnRecord'
  BY <1>1, <1>2, <1>4 DEF FailsOnRecord, Others
<1>7. DeletedIsClosed'
  BY <1>1, <1>3, <1>4 DEF DeletedIsClosed
<1>8. OnlyTargetOpen'
  BY <1>1, <1>2, <1>3, <1>4 DEF OnlyTargetOpen, Others
<1>9. Remembered'
  <2> SUFFICES ASSUME NEW e \in Endpoints, (OpenAlerts(e))' # {}, ~(fails[e] > 0)
               PROVE  \E k \in Jobs : ep'[k] = e /\ pc'[k] \in {"find", "resolve"}
    BY <1>1 DEF Remembered
  <2>1. e # ep[j] /\ OpenAlerts(e) # {}
    BY <1>3, <1>5
  <2>2. PICK k \in Jobs : ep[k] = e /\ pc[k] \in {"find", "resolve"}
    BY <1>4, <2>1 DEF Remembered
  <2>3. ep'[k] = e /\ pc'[k] \in {"find", "resolve"}
    BY <1>2, <2>1, <2>2 DEF Others
  <2> QED
    BY <2>3
<1> QED
  BY <1>6, <1>7, <1>8, <1>9

LEMMA HandlerCounts ==
    ASSUME TypeOK, LedgerInv, RecoveryInv, CountInv, NEW j \in Jobs, HandlerStep(j)
    PROVE  CountInv'
<1> JobsTypeOK /\ DataTypeOK
  BY DEF TypeOK
<1>1. Others(j) /\ mode' = mode /\ ep[j] \in Endpoints
  BY HandlerMoves
<1>2. CASE ReadConfig(j) \/ Ping(j) \/ Get(j)
  <2>1. /\ UNCHANGED <<fails, alert, alertOf, row>>
        /\ pc[j] \in {"waiting", "ping", "get"}
        /\ Finish(j) \/ \E place \in {"ping", "get", "incr", "del"} : Goto(j, place)
    BY <1>2 DEF ReadConfig, Ping, Get, redisVars, dbVars, envVars
  <2>2. pc'[j] \in {"free", "ping", "get", "incr", "del"}
    BY <2>1, GotoMoves, FinishMoves
  <2> QED
    BY <1>1, <2>1, <2>2, CountKept
<1>3. CASE Expire(j) \/ Lock(j) \/ Begin(j)
  <2>1. /\ UNCHANGED <<fails, alert, alertOf, row>>
        /\ pc[j] \in {"expire", "lock", "begin"}
        /\ Finish(j) \/ \E place \in {"lock", "begin", "commit", "unlock"} : Goto(j, place)
    BY <1>3 DEF Expire, Lock, Begin, redisVars, dbVars, envVars
  <2>2. /\ pc'[j] \in {"free", "lock", "begin", "commit", "unlock"}
        /\ pc'[j] # "free" => ep'[j] = ep[j]
    BY <2>1, GotoMoves, FinishMoves
  <2> QED
    BY <1>1, <2>1, <2>2, CountKept
<1>4. CASE CommitRejected(j) \/ Unlock(j)
  <2>1. /\ UNCHANGED <<fails, alert, alertOf, row>>
        /\ pc[j] \in {"commit", "unlock", "unlockThrow"}
        /\ Finish(j) \/ Retry(j) \/ Goto(j, "unlockThrow")
    BY <1>4 DEF CommitRejected, Unlock, redisVars, dbVars, envVars
  <2>2. pc'[j] \in {"free", "waiting", "unlockThrow"}
    BY <2>1, GotoMoves, FinishMoves, RetryMoves
  <2> QED
    BY <1>1, <2>1, <2>2, CountKept
<1>5. CASE Find(j)
  <2>1. UNCHANGED <<fails, alert, alertOf, row>> /\ pc[j] = "find"
    BY <1>5 DEF Find, redisVars, dbVars, envVars
  <2>2. CASE OpenAlerts(ep[j]) = {} /\ Finish(j)
    BY <1>1, <2>1, <2>2, FinishMoves, CountKept
  <2>3. CASE ~(OpenAlerts(ep[j]) = {} /\ Finish(j))
    <3>1. PICK a \in OpenAlerts(ep[j]) :
             /\ pc' = [pc EXCEPT ![j] = "resolve"]
             /\ target' = [target EXCEPT ![j] = a]
             /\ ep' = ep
      BY <1>5, <2>3 DEF Find
    <3>2. pc'[j] = "resolve" /\ target'[j] = a /\ ep'[j] = ep[j]
      BY <3>1 DEF JobsTypeOK
    <3>3. OpenAlerts(ep[j]) \subseteq {a}
      BY <3>1 DEF LedgerInv, AtMostOneOpenAlert, OpenAlerts
    <3> QED
      BY <1>1, <2>1, <3>2, <3>3, CountKept
  <2> QED
    BY <2>2, <2>3
<1>6. CASE ResolveRejected(j)
  <2>1. /\ UNCHANGED <<fails, alert, alertOf, row>>
        /\ pc[j] = "resolve" /\ alert[target[j]] = "deleted"
        /\ Retry(j)
    BY <1>6 DEF ResolveRejected, redisVars, dbVars, envVars
  <2>2. pc'[j] \in {"free", "waiting"}
    BY <2>1, RetryMoves
  <2>3. Sheltered => OpenAlerts(ep[j]) = {}
    BY <1>1, <2>1 DEF CountInv, OnlyTargetOpen, OpenAlerts
  <2> QED
    BY <1>1, <2>1, <2>2, <2>3, CountKept
<1>7. CASE Enqueue(j)
  <2>1. UNCHANGED <<fails, alert, alertOf, row>> /\ pc[j] = "enqueue" /\ Finish(j)
    BY <1>7 DEF Enqueue, redisVars, dbVars, envVars
  <2> QED
    BY <1>1, <2>1, FinishMoves, CountKept
<1> QED
  BY <1>2, <1>3, <1>4, <1>5, <1>6, <1>7, IncrCounts, DelCounts, CommitCounts, ResolveCounts
  DEF HandlerStep

LEMMA StepCount == TypeOK /\ LedgerInv /\ RecoveryInv /\ CountInv /\ [Next]_vars => CountInv'
<1> SUFFICES ASSUME TypeOK, LedgerInv, RecoveryInv, CountInv, [Next]_vars PROVE CountInv'
  OBVIOUS
<1>1. CASE UNCHANGED vars
  BY <1>1 DEF vars, jobVars, redisVars, dbVars, envVars, CountInv, Sheltered, Serial, Spared,
              FailsOnRecord, DeletedIsClosed, OnlyTargetOpen, Remembered, OpenAlerts
<1>2. ASSUME NEW j \in Jobs, \/ CallFails(j) \/ CommitUnacknowledged(j)
                             \/ ResolveUnacknowledged(j) \/ Crash(j)
      PROVE  CountInv'
  <2>1. ~Sheltered /\ mode' = mode
    BY <1>2 DEF CallFails, CommitUnacknowledged, CreateAlert, ResolveUnacknowledged, MarkResolved,
                Crash, Sheltered, Spared, envVars
  <2> QED
    BY <2>1 DEF CountInv, Sheltered, Serial, Spared
<1>3. ASSUME NEW e \in Endpoints, NEW j \in Jobs, Tick(e, j) PROVE CountInv'
  <2>1. UNCHANGED <<target, fails, alert, alertOf, row, mode>> /\ pc[j] = "free"
    BY <1>3 DEF Tick, redisVars, dbVars, envVars
  <2>2. pc'[j] = "waiting" /\ \A k \in Jobs \ {j} : pc'[k] = pc[k] /\ ep'[k] = ep[k]
    BY <1>3 DEF Tick, TypeOK, JobsTypeOK
  <2> QED
    BY <2>1, <2>2
    DEF CountInv, Sheltered, Serial, Spared, FailsOnRecord, DeletedIsClosed, OnlyTargetOpen,
        Remembered, OpenAlerts
<1>4. ASSUME NEW e \in Endpoints, EndpointNext(e), ~DeleteRow(e), ~ClearKeys(e) PROVE CountInv'
  <2>1. CASE ExpireCount(e)
    <3>1. ~Sheltered /\ mode' = mode
      BY <2>1 DEF ExpireCount, Sheltered, Spared, envVars
    <3> QED
      BY <3>1 DEF CountInv, Sheltered, Serial, Spared
  <2>2. CASE ~ExpireCount(e)
    <3>1. UNCHANGED <<pc, ep, target, fails, alert, alertOf, row, mode>>
      BY <1>4, <2>2 DEF EndpointNext, ExpireLock, GoDown, GoUp, ChangeConfig, jobVars, redisVars,
                        dbVars, envVars
    <3> QED
      BY <3>1 DEF CountInv, Sheltered, Serial, Spared, FailsOnRecord, DeletedIsClosed,
                  OnlyTargetOpen, Remembered, OpenAlerts
  <2> QED
    BY <2>1, <2>2
<1>5. ASSUME NEW e \in Endpoints, DeleteRow(e) \/ ClearKeys(e) PROVE CountInv'
  <2>1. UNCHANGED <<pc, ep, target, alertOf, mode>>
    BY <1>5 DEF DeleteRow, ClearKeys, jobVars, dbVars, envVars
  <2>2. /\ row'[e] # "live"
        /\ \A d \in Endpoints \ {e} : row'[d] = row[d] /\ fails'[d] = fails[d]
    BY <1>5 DEF DeleteRow, ClearKeys, redisVars, TypeOK, DataTypeOK
  <2>3. \A d \in Endpoints : (OpenAlerts(d))' \subseteq OpenAlerts(d)
    BY <1>5 DEF DeleteRow, ClearKeys, dbVars, OpenAlerts
  <2>4. CountInv => (Sheltered => (OpenAlerts(e))' = {})
    <3>1. CASE DeleteRow(e)
      BY <3>1 DEF DeleteRow, OpenAlerts
    <3>2. CASE ClearKeys(e)
      BY <2>3, <3>2 DEF ClearKeys, CountInv, DeletedIsClosed
    <3> QED
      BY <1>5, <3>1, <3>2
  <2> SUFFICES ASSUME Sheltered
               PROVE  (FailsOnRecord /\ DeletedIsClosed /\ OnlyTargetOpen /\ Remembered)'
    BY <2>1 DEF CountInv, Sheltered, Serial, Spared
  <2>5. FailsOnRecord /\ DeletedIsClosed /\ OnlyTargetOpen /\ Remembered
    BY DEF CountInv
  <2>6. FailsOnRecord'
    BY <2>1, <2>2, <2>5 DEF FailsOnRecord
  <2>7. DeletedIsClosed' /\ OnlyTargetOpen'
    BY <2>1, <2>2, <2>3, <2>4, <2>5 DEF DeletedIsClosed, OnlyTargetOpen
  <2>8. Remembered'
    BY <2>1, <2>2, <2>3, <2>4, <2>5 DEF Remembered
  <2> QED
    BY <2>6, <2>7, <2>8
<1> QED
  BY <1>1, <1>2, <1>3, <1>4, <1>5, HandlerCounts DEF Next, JobNext

LEMMA InitCount == Init => CountInv
BY DEF Init, CountInv, FailsOnRecord, DeletedIsClosed, OnlyTargetOpen, Remembered, OpenAlerts

LEMMA InitRecovery == Init => RecoveryInv
BY EndpointsAssumption
DEF Init, RecoveryInv, Alone, HandsMatch, AnnouncedIsClosed, RecoveryAtMostOnce

SafeInv == TypeOK /\ LedgerInv /\ RecoveryInv /\ CountInv

LEMMA SafeInvariant == Spec => []SafeInv
<1>1. Init => SafeInv
  BY InitTypes, InitLedgerInv, InitRecovery, InitCount DEF SafeInv
<1>2. SafeInv /\ [Next]_vars => SafeInv'
  BY StepTypes, StepLedgerInv, StepRecoveryInv, StepCount DEF SafeInv
<1> QED
  BY <1>1, <1>2, PTL DEF Spec

\* When jobs of one endpoint do not overlap and nothing interrupts them, the
\* counter, all that an UP ping looks at first (index.ts:120-121), remembers
\* every open alert.
THEOREM CounterRemembersAlert == Spec => []OpenAlertIsCounted
<1>1. SafeInv => OpenAlertIsCounted
  BY DEF SafeInv, CountInv, Remembered, OpenAlertIsCounted
<1> QED
  BY <1>1, SafeInvariant, PTL

LEMMA UpPingStep ==
    ASSUME SafeInv, Sheltered, NEW j \in Jobs
    PROVE  UpPingCloses(j)
<1> SUFFICES ASSUME Get(j) \/ Find(j) \/ Enqueue(j), pc'[j] = "free"
             PROVE  OpenAlerts(ep[j]) = {}
  BY DEF UpPingCloses
<1> JobsTypeOK
  BY DEF SafeInv, TypeOK
<1>1. ep[j] \in Endpoints
  BY HandlerMoves DEF SafeInv, HandlerStep
<1>2. CASE Get(j)
  <2>1. pc[j] = "get" /\ fails[ep[j]] = 0
    BY <1>2, GotoMoves DEF Get
  <2>2. \A k \in Jobs : ep[k] = ep[j] => k = j
    BY <1>1 DEF SafeInv, RecoveryInv, Alone, Sheltered
  <2> QED
    BY <1>1, <2>1, <2>2 DEF SafeInv, CountInv, Remembered
<1>3. CASE Find(j)
  BY <1>3 DEF Find, JobsTypeOK
<1>4. CASE Enqueue(j)
  BY <1>1, <1>4 DEF Enqueue, SafeInv, CountInv, OnlyTargetOpen, LedgerInv, TargetExists, OpenAlerts
<1> QED
  BY <1>2, <1>3, <1>4

\* Then an UP ping that is handled to its end leaves no alert of its endpoint
\* open, for any endpoints, jobs and thresholds.
THEOREM UpPingAlwaysCloses == Spec => UpPingClosesAlert
<1>1. SafeInv /\ [Next]_vars => [Sheltered => \A j \in Jobs : UpPingCloses(j)]_vars
  BY UpPingStep
<1> QED
  BY <1>1, SafeInvariant, PTL DEF Spec, UpPingClosesAlert

---------------------------------------------------------------------------
(* An alert needs its streak.  Jobs that come one at a time and never die    *)
(* raise the counter once for every ping that failed, so the counter is no  *)
(* more than the streak, except between an UP ping and the DEL that follows *)
(* it; past the comparison with the threshold, the streak has reached it.   *)

Unbroken == Serial /\ Spared({"crash"})

Resetting(e) == \E j \in Jobs : ep[j] = e /\ pc[j] \in {"get", "del"}

\* What is known of the streak of e when a job of e is at a place.
StreakAt(place, e) ==
    /\ place = "incr" => BumpCount(fails[e]) <= streak[e]
    /\ place \in {"expire", "lock", "begin", "commit"} => streak[e] > 0
    /\ place \in {"lock", "begin", "commit"} => streak[e] >= Threshold[e]

CountWithinStreak == \A e \in Endpoints : fails[e] <= streak[e] \/ Resetting(e)
JobsOnStreak == \A j \in Jobs, e \in Endpoints : ep[j] = e => StreakAt(pc[j], e)

StreakInv == Unbroken => CountWithinStreak /\ JobsOnStreak

\* A step of one job: what it must show is about its own endpoint.
LEMMA StreakKept ==
    ASSUME TypeOK, RecoveryInv, StreakInv, NEW j \in Jobs, Others(j), mode' = mode,
           ep[j] \in Endpoints, ep'[j] \in {ep[j], NoEndpoint},
           \A e \in Endpoints \ {ep[j]} : fails'[e] = fails[e] /\ streak'[e] = streak[e],
           NEW e0 \in Endpoints, e0 = ep[j],
           Unbroken =>
               /\ fails'[e0] <= streak'[e0] \/ (pc'[j] \in {"get", "del"} /\ ep'[j] = e0)
               /\ (StreakAt(pc[j], e0))' \/ ep'[j] = NoEndpoint
    PROVE  StreakInv'
<1> SUFFICES ASSUME Unbroken PROVE CountWithinStreak' /\ JobsOnStreak'
  BY DEF StreakInv, Unbroken, Serial, Spared
<1>1. CountWithinStreak /\ JobsOnStreak
  BY DEF StreakInv
<1>2. \A k \in Jobs \ {j} : ep[k] # e0
  BY DEF RecoveryInv, Alone, Unbroken
<1>3. CountWithinStreak'
  <2> SUFFICES ASSUME NEW e \in Endpoints, ~(fails'[e] <= streak'[e])
               PROVE  \E k \in Jobs : ep'[k] = e /\ pc'[k] \in {"get", "del"}
    BY DEF CountWithinStreak, Resetting
  <2>1. CASE e = e0
    BY <2>1
  <2>2. CASE e # e0
    <3>1. PICK k \in Jobs : ep[k] = e /\ pc[k] \in {"get", "del"}
      BY <1>1, <2>2 DEF CountWithinStreak, Resetting
    <3>2. ep'[k] = e /\ pc'[k] \in {"get", "del"}
      BY <2>2, <3>1 DEF Others
    <3> QED
      BY <3>2
  <2> QED
    BY <2>1, <2>2
<1>4. JobsOnStreak'
  <2> SUFFICES ASSUME NEW k \in Jobs, NEW e \in Endpoints, ep'[k] = e
               PROVE  (StreakAt(pc[k], e))'
    BY DEF JobsOnStreak
  <2>1. CASE k = j
    <3>1. e = e0
      BY <2>1, EndpointsAssumption
    <3> QED
      BY <2>1, <3>1, EndpointsAssumption DEF StreakAt
  <2>2. CASE k # j
    <3>1. ep[k] = e /\ pc'[k] = pc[k] /\ e # e0
      BY <1>2, <2>2 DEF Others
    <3>2. StreakAt(pc[k], e)
      BY <1>1, <3>1 DEF JobsOnStreak
    <3> QED
      BY <3>1, <3>2 DEF StreakAt
  <2> QED
    BY <2>1, <2>2
<1> QED
  BY <1>3, <1>4

\* Steps of a job that neither ping nor count: the place it goes to knows no
\* more of the streak than the one it comes from.
LEMMA StreakCarried ==
    ASSUME TypeOK, RecoveryInv, StreakInv, NEW j \in Jobs, Others(j),
           UNCHANGED <<fails, streak, mode>>,
           ep[j] \in Endpoints, ep'[j] \in {ep[j], NoEndpoint},
           pc'[j] # "incr",
           Unbroken /\ pc'[j] \in {"lock", "begin", "commit"} =>
               /\ ep'[j] = ep[j] /\ pc[j] \in {"expire", "lock", "begin", "commit"}
               /\ pc[j] = "expire" => Threshold[ep[j]] <= 1,
           pc'[j] # "expire",
           Unbroken /\ pc[j] \in {"get", "del"} =>
               (pc'[j] \in {"get", "del"} /\ ep'[j] = ep[j]) \/ fails[ep[j]] = 0
    PROVE  StreakInv'
<1>0. PICK e0 \in Endpoints : e0 = ep[j]
  OBVIOUS
<1>1. /\ fails[e0] \in 0..CountCap /\ streak[e0] \in 0..CountCap
      /\ Threshold[e0] \in 0..CountCap /\ CountCap \in Nat
  BY CapAssumption, ThresholdAssumption DEF TypeOK, DataTypeOK
<1>2. Unbroken => \A k \in Jobs \ {j} : ep[k] # e0
  BY <1>0 DEF RecoveryInv, Alone, Unbroken
<1>3. ASSUME Unbroken
      PROVE  fails[e0] <= streak[e0] \/ (pc'[j] \in {"get", "del"} /\ ep'[j] = e0)
  <2>1. CASE Resetting(e0)
    <3>1. pc[j] \in {"get", "del"}
      BY <1>2, <1>3, <2>1 DEF Resetting
    <3> QED
      BY <1>0, <1>1, <1>3, <3>1
  <2>2. CASE ~Resetting(e0)
    BY <1>3, <2>2 DEF StreakInv, CountWithinStreak
  <2> QED
    BY <2>1, <2>2
<1>4. ASSUME Unbroken PROVE (StreakAt(pc[j], e0))'
  <2>1. StreakAt(pc[j], e0)
    BY <1>0, <1>4 DEF StreakInv, JobsOnStreak
  <2> QED
    BY <1>0, <1>1, <1>4, <2>1 DEF StreakAt
<1> QED
  BY <1>0, <1>3, <1>4, StreakKept

LEMMA PingStreak ==
    ASSUME TypeOK, RecoveryInv, StreakInv, NEW j \in Jobs, Ping(j)
    PROVE  StreakInv'
<1>1. /\ Others(j) /\ mode' = mode /\ ep[j] \in Endpoints /\ pc[j] = "ping"
      /\ fails' = fails /\ ep'[j] = ep[j]
  BY HandlerMoves, GotoMoves DEF HandlerStep, Ping, redisVars, TypeOK
<1>2. PICK e0 \in Endpoints : e0 = ep[j]
  BY <1>1
<1>3. /\ fails[e0] \in 0..CountCap /\ streak[e0] \in 0..CountCap /\ CountCap \in Nat
      /\ \A e \in Endpoints \ {e0} : streak'[e] = streak[e]
  BY <1>2, CapAssumption DEF Ping, TypeOK, DataTypeOK
<1>4. CASE ep[j] \in up
  <2>1. pc'[j] = "get"
    BY <1>4, GotoMoves DEF Ping, TypeOK
  <2> QED
    BY <1>1, <1>2, <1>3, <2>1, StreakKept DEF StreakAt
<1>5. CASE ep[j] \notin up
  <2>1. pc'[j] = "incr" /\ streak'[e0] = BumpCount(streak[e0])
    BY <1>2, <1>5, GotoMoves DEF Ping, TypeOK, DataTypeOK
  <2>2. Unbroken => fails[e0] <= streak[e0]
    <3>1. Unbroken => ~Resetting(e0)
      BY <1>1, <1>2 DEF RecoveryInv, Alone, Unbroken, Resetting
    <3> QED
      BY <3>1 DEF StreakInv, CountWithinStreak
  <2>3. Unbroken => fails[e0] <= streak'[e0] /\ BumpCount(fails[e0]) <= streak'[e0]
    BY <1>3, <2>1, <2>2 DEF BumpCount
  <2> QED
    BY <1>1, <1>2, <1>3, <2>1, <2>3, StreakKept DEF StreakAt
<1> QED
  BY <1>4, <1>5

LEMMA IncrStreak ==
    ASSUME TypeOK, RecoveryInv, StreakInv, NEW j \in Jobs, Incr(j)
    PROVE  StreakInv'
<1>1. /\ Others(j) /\ mode' = mode /\ ep[j] \in Endpoints /\ pc[j] = "incr"
      /\ streak' = streak /\ ep'[j] \in {ep[j], NoEndpoint}
  BY HandlerMoves DEF HandlerStep, Incr
<1>2. PICK e0 \in Endpoints : e0 = ep[j]
  BY <1>1
<1>3. /\ fails[e0] \in 0..CountCap /\ streak[e0] \in 0..CountCap /\ CountCap \in Nat
      /\ Threshold[e0] \in 0..CountCap
      /\ BumpCount(fails[e0]) \in 1..CountCap
      /\ fails'[e0] = BumpCount(fails[e0])
      /\ \A e \in Endpoints \ {e0} : fails'[e] = fails[e]
  BY <1>2, CapAssumption, ThresholdAssumption, BumpTypes DEF Incr, TypeOK, DataTypeOK
<1>4. Unbroken => BumpCount(fails[e0]) <= streak[e0]
  BY <1>1, <1>2 DEF StreakInv, JobsOnStreak, StreakAt
<1>5. \/ pc'[j] = "expire" \/ pc'[j] = "free"
      \/ pc'[j] = "lock" /\ BumpCount(fails[e0]) >= Threshold[e0]
  BY <1>2, GotoMoves, FinishMoves DEF Incr, TypeOK
<1>6. Unbroken => (fails'[e0] <= streak'[e0] /\ (StreakAt(pc[j], e0))')
  BY <1>1, <1>3, <1>4, <1>5 DEF StreakAt
<1> QED
  BY <1>1, <1>2, <1>3, <1>6, StreakKept

LEMMA DelStreak ==
    ASSUME TypeOK, RecoveryInv, StreakInv, NEW j \in Jobs, Del(j)
    PROVE  StreakInv'
<1>1. /\ Others(j) /\ mode' = mode /\ ep[j] \in Endpoints
      /\ streak' = streak /\ ep'[j] \in {ep[j], NoEndpoint} /\ pc'[j] = "find"
  BY HandlerMoves, GotoMoves DEF HandlerStep, Del, TypeOK
<1>2. PICK e0 \in Endpoints : e0 = ep[j]
  BY <1>1
<1>3. /\ streak[e0] \in 0..CountCap /\ CountCap \in Nat
      /\ fails'[e0] = 0
      /\ \A e \in Endpoints \ {e0} : fails'[e] = fails[e]
  BY <1>2, CapAssumption DEF Del, TypeOK, DataTypeOK
<1>4. fails'[e0] <= streak'[e0] /\ (StreakAt(pc[j], e0))'
  BY <1>1, <1>3 DEF StreakAt
<1> QED
  BY <1>1, <1>2, <1>3, <1>4, StreakKept

LEMMA HandlerStreak ==
    ASSUME TypeOK, RecoveryInv, StreakInv, NEW j \in Jobs, HandlerStep(j)
    PROVE  StreakInv'
<1> JobsTypeOK
  BY DEF TypeOK
<1>1. Others(j) /\ mode' = mode /\ ep[j] \in Endpoints /\ ep'[j] \in {ep[j], NoEndpoint}
  BY HandlerMoves
<1>2. CASE ReadConfig(j) \/ Get(j)
  <2>1. /\ UNCHANGED <<fails, streak>>
        /\ \/ pc[j] = "waiting" /\ (Finish(j) \/ Goto(j, "ping"))
           \/ pc[j] = "get" /\ (Goto(j, "del") \/ (Finish(j) /\ fails[ep[j]] = 0))
    BY <1>2 DEF ReadConfig, Get, redisVars
  <2>2. \/ pc[j] = "waiting" /\ pc'[j] \in {"free", "ping"}
        \/ pc[j] = "get" /\ pc'[j] = "del" /\ ep'[j] = ep[j]
        \/ pc[j] = "get" /\ pc'[j] = "free" /\ fails[ep[j]] = 0
    BY <2>1, GotoMoves, FinishMoves
  <2> QED
    BY <1>1, <2>1, <2>2, StreakCarried
<1>3. CASE Expire(j)
  <2>1. /\ UNCHANGED <<fails, streak>> /\ pc[j] = "expire"
        /\ Finish(j) \/ (Goto(j, "lock") /\ ~(Threshold[ep[j]] > 1))
    BY <1>3 DEF Expire
  <2>2. Threshold[ep[j]] \in Nat
    BY <1>1, ThresholdAssumption, CapAssumption
  <2>3. pc'[j] = "free" \/ (pc'[j] = "lock" /\ ep'[j] = ep[j] /\ Threshold[ep[j]] <= 1)
    BY <2>1, <2>2, GotoMoves, FinishMoves
  <2> QED
    BY <1>1, <2>1, <2>3, StreakCarried
<1>4. CASE Lock(j) \/ Begin(j)
  <2>1. /\ UNCHANGED <<fails, streak>> /\ pc[j] \in {"lock", "begin"}
        /\ Finish(j) \/ \E place \in {"begin", "commit", "unlock"} : Goto(j, place)
    BY <1>4 DEF Lock, Begin, redisVars
  <2>2. /\ pc'[j] \in {"free", "begin", "commit", "unlock"}
        /\ pc'[j] # "free" => ep'[j] = ep[j]
    BY <2>1, GotoMoves, FinishMoves
  <2> QED
    BY <1>1, <2>1, <2>2, StreakCarried
<1>5. CASE Commit(j) \/ CommitRejected(j) \/ Unlock(j) \/ Resolve(j) \/ ResolveRejected(j) \/ Enqueue(j)
  <2>1. /\ UNCHANGED <<fails, streak>>
        /\ pc[j] \in {"commit", "unlock", "unlockThrow", "resolve", "enqueue"}
        /\ \/ Finish(j) \/ Retry(j)
           \/ \E place \in {"unlock", "unlockThrow", "enqueue"} : Goto(j, place)
    BY <1>5 DEF Commit, CreateAlert, CommitRejected, Unlock, Resolve, MarkResolved, ResolveRejected,
                Enqueue, redisVars
  <2>2. pc'[j] \in {"free", "waiting", "unlock", "unlockThrow", "enqueue"}
    BY <2>1, GotoMoves, FinishMoves, RetryMoves
  <2> QED
    BY <1>1, <2>1, <2>2, StreakCarried
<1>6. CASE Find(j)
  <2>1. UNCHANGED <<fails, streak>> /\ pc[j] = "find"
    BY <1>6 DEF Find, redisVars
  <2>2. pc'[j] \in {"free", "resolve"}
    BY <1>6 DEF Find, Finish, JobsTypeOK
  <2> QED
    BY <1>1, <2>1, <2>2, StreakCarried
<1> QED
  BY <1>2, <1>3, <1>4, <1>5, <1>6, PingStreak, IncrStreak, DelStreak DEF HandlerStep

LEMMA StepStreak == TypeOK /\ RecoveryInv /\ StreakInv /\ [Next]_vars => StreakInv'
<1> SUFFICES ASSUME TypeOK, RecoveryInv, StreakInv, [Next]_vars PROVE StreakInv'
  OBVIOUS
<1>1. CASE UNCHANGED vars
  BY <1>1 DEF vars, jobVars, redisVars, envVars, StreakInv, Unbroken, Serial, Spared,
              CountWithinStreak, JobsOnStreak, Resetting, StreakAt
<1>2. ASSUME NEW j \in Jobs, CallFails(j) \/ CommitUnacknowledged(j) \/ ResolveUnacknowledged(j)
      PROVE  StreakInv'
  <2>1. /\ Others(j) /\ UNCHANGED <<fails, streak, mode>>
        /\ pc'[j] \in {"free", "waiting", "unlockThrow"}
        /\ pc[j] \in {"waiting", "ping", "find", "resolve", "begin", "commit"}
    BY <1>2, FaultMoves
  <2>2. ep[j] \in Endpoints /\ ep'[j] \in {ep[j], NoEndpoint}
    BY <1>2, <2>1, GotoMoves, RetryMoves
    DEF CallFails, CommitUnacknowledged, ResolveUnacknowledged, TypeOK, JobsTypeOK
  <2> QED
    BY <2>1, <2>2, StreakCarried
<1>3. ASSUME NEW j \in Jobs, Crash(j) PROVE StreakInv'
  <2>1. ~Unbroken /\ mode' = mode
    BY <1>3 DEF Crash, Unbroken, Spared, envVars
  <2> QED
    BY <2>1 DEF StreakInv, Unbroken, Serial, Spared
<1>4. ASSUME NEW e \in Endpoints, NEW j \in Jobs, Tick(e, j) PROVE StreakInv'
  <2>1. UNCHANGED <<fails, streak, mode>> /\ pc[j] = "free"
    BY <1>4 DEF Tick, redisVars, envVars
  <2>2. pc'[j] = "waiting" /\ \A k \in Jobs \ {j} : pc'[k] = pc[k] /\ ep'[k] = ep[k]
    BY <1>4 DEF Tick, TypeOK, JobsTypeOK
  <2>3. \A d \in Endpoints : Resetting(d) => Resetting(d)'
    BY <2>1, <2>2 DEF Resetting
  <2> QED
    BY <2>1, <2>2, <2>3
    DEF StreakInv, Unbroken, Serial, Spared, CountWithinStreak, JobsOnStreak, StreakAt
<1>5. ASSUME NEW e \in Endpoints, EndpointNext(e) PROVE StreakInv'
  <2>1. UNCHANGED <<pc, ep, streak, mode>>
    BY <1>5 DEF EndpointNext, ExpireCount, ExpireLock, GoDown, GoUp, ChangeConfig, DeleteRow,
                ClearKeys, jobVars, envVars
  <2>2. fails' = fails \/ fails' = [fails EXCEPT ![e] = 0]
    BY <1>5 DEF EndpointNext, ExpireCount, ExpireLock, GoDown, GoUp, ChangeConfig, DeleteRow,
                ClearKeys, redisVars
  <2>3. \A d \in Endpoints : /\ fails[d] \in 0..CountCap /\ streak[d] \in 0..CountCap
                             /\ fails'[d] = fails[d] \/ fails'[d] = 0
                             /\ CountCap \in Nat
    BY <2>2, CapAssumption DEF TypeOK, DataTypeOK
  <2>4. \A d \in Endpoints : BumpCount(fails'[d]) <= BumpCount(fails[d])
    BY <2>3, CapAssumption DEF BumpCount
  <2>5. \A d \in Endpoints : BumpCount(fails[d]) \in Nat /\ BumpCount(fails'[d]) \in Nat
    BY <2>3, CapAssumption DEF BumpCount
  <2> SUFFICES ASSUME Unbroken PROVE CountWithinStreak' /\ JobsOnStreak'
    BY <2>1 DEF StreakInv, Unbroken, Serial, Spared
  <2>6. CountWithinStreak'
    BY <2>1, <2>3 DEF StreakInv, CountWithinStreak, Resetting
  <2>7. JobsOnStreak'
    <3> SUFFICES ASSUME NEW k \in Jobs, NEW d \in Endpoints, ep[k] = d
                 PROVE  (StreakAt(pc[k], d))'
      BY <2>1 DEF JobsOnStreak
    <3>1. StreakAt(pc[k], d)
      BY DEF StreakInv, JobsOnStreak
    <3>2. pc[k] = "incr" => BumpCount(fails'[d]) <= streak[d]
      BY <2>3, <2>4, <2>5, <3>1 DEF StreakAt
    <3> QED
      BY <2>1, <3>1, <3>2 DEF StreakAt, BumpCount
  <2> QED
    BY <2>6, <2>7
<1> QED
  BY <1>1, <1>2, <1>3, <1>4, <1>5, HandlerStreak DEF Next, JobNext

LEMMA InitStreak == Init => StreakInv
<1> SUFFICES ASSUME Init PROVE StreakInv
  OBVIOUS
<1>1. \A j \in Jobs : pc[j] = "free"
  BY DEF Init
<1>2. \A e \in Endpoints : fails[e] = 0 /\ streak[e] = 0
  BY DEF Init
<1> QED
  BY <1>1, <1>2 DEF StreakInv, CountWithinStreak, JobsOnStreak, StreakAt

\* Only a transaction opens an alert.
LEMMA OpeningStep ==
    ASSUME TypeOK, [Next]_vars, NEW e \in Endpoints, OpenAlerts(e) = {}, (OpenAlerts(e))' # {}
    PROVE  \E j \in Jobs : pc[j] = "commit" /\ ep[j] = e
<1>1. PICK a \in Alerts : alert'[a] = "TRIGGERED" /\ alertOf'[a] = e
  BY DEF OpenAlerts
<1>2. ~(alert[a] = "TRIGGERED" /\ alertOf[a] = e)
  BY <1>1 DEF OpenAlerts
<1>3. ASSUME NEW j \in Jobs, CreateAlert(j) PROVE pc[j] = "commit" /\ ep[j] = e
  BY <1>1, <1>2, <1>3 DEF CreateAlert, TypeOK, DataTypeOK
<1>4. ASSUME UNCHANGED <<alert, alertOf>> PROVE FALSE
  BY <1>1, <1>2, <1>4
<1>5. ASSUME NEW j \in Jobs, MarkResolved(j) PROVE FALSE
  BY <1>1, <1>2, <1>5 DEF MarkResolved, TypeOK, DataTypeOK
<1>6. ASSUME NEW d \in Endpoints, DeleteRow(d) PROVE FALSE
  BY <1>1, <1>2, <1>6 DEF DeleteRow
<1>7. ASSUME NEW j \in Jobs, JobNext(j)
      PROVE  CreateAlert(j) \/ MarkResolved(j) \/ UNCHANGED <<alert, alertOf>>
  BY <1>7 DEF JobNext, HandlerStep, ReadConfig, Ping, Incr, Expire, Lock, Begin, Commit,
              CommitRejected, Unlock, Get, Del, Find, Resolve, ResolveRejected, Enqueue, CallFails,
              CommitUnacknowledged, ResolveUnacknowledged, Crash, dbVars
<1>8. ASSUME NEW d \in Endpoints, NEW j \in Jobs, Tick(d, j) PROVE FALSE
  BY <1>4, <1>8 DEF Tick, dbVars
<1>9. ASSUME NEW d \in Endpoints, EndpointNext(d) PROVE FALSE
  BY <1>4, <1>6, <1>9 DEF EndpointNext, ExpireCount, ExpireLock, GoDown, GoUp, ChangeConfig,
                          ClearKeys, dbVars
<1>10. ~UNCHANGED vars
  BY <1>4 DEF vars, dbVars
<1> QED
  BY <1>3, <1>4, <1>5, <1>7, <1>8, <1>9, <1>10 DEF Next

\* When jobs of one endpoint do not overlap or die, an alert opens only after
\* alertThreshold failed pings in a row, for any thresholds.
THEOREM StreakBeforeAlert == Spec => AlertNeedsStreak
<1> DEFINE Inv == TypeOK /\ RecoveryInv /\ LedgerInv /\ StreakInv
<1>1. Init => Inv
  BY InitTypes, InitLedgerInv, InitRecovery, InitStreak
<1>2. Inv /\ [Next]_vars => Inv'
  BY StepTypes, StepLedgerInv, StepRecoveryInv, StepStreak
<1>3. Inv /\ [Next]_vars =>
        [Serial /\ Spared({"crash"}) =>
            \A e \in Endpoints :
                (OpenAlerts(e) = {} /\ OpenAlerts(e)' # {})
                    => streak[e] >= Threshold[e] /\ streak[e] > 0]_vars
  <2> SUFFICES ASSUME Inv, [Next]_vars, Unbroken,
                      NEW e \in Endpoints, OpenAlerts(e) = {}, (OpenAlerts(e))' # {}
               PROVE  streak[e] >= Threshold[e] /\ streak[e] > 0
    BY DEF Unbroken
  <2>1. PICK j \in Jobs : pc[j] = "commit" /\ ep[j] = e
    BY OpeningStep
  <2> QED
    BY <2>1 DEF StreakInv, JobsOnStreak, StreakAt
<1> QED
  BY <1>1, <1>2, <1>3, PTL DEF Spec, AlertNeedsStreak
=============================================================================
