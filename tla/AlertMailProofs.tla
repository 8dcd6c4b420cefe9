-------------------------- MODULE AlertMailProofs --------------------------
(***************************************************************************)
(* Proofs about the mails of an alert, for any alerts, owners and runs: the *)
(* digest worker marks nothing SENT that it has not mailed and, left in     *)
(* peace, mails nothing twice; no recovery is lost from sight.              *)
(***************************************************************************)
EXTENDS AlertMail, TLAPS

---------------------------------------------------------------------------
(* A run about to mark rows has mailed every one of them.  That is what    *)
(* lets Mark preserve the property; it holds because mails are not unsent. *)

RowsType ==
    /\ digest \in [Alerts -> {"none", "PENDING", "SENT"}]
    /\ digests \in [Alerts -> Nat]
    /\ run \in [Runs -> [pc : {"idle", "next", "mark"}, todo : SUBSET Alerts,
                         group : SUBSET Alerts]]

MarkedIsMailed ==
    \A r \in Runs : run[r].pc = "mark" => \A a \in run[r].group : digests[a] > 0

MailInv == RowsType /\ MarkedIsMailed /\ SentWasMailed

\* Mails are only ever added.
LEMMA MailsAdded ==
    ASSUME NEW mails \in [Alerts -> Nat], NEW A \in SUBSET Alerts
    PROVE  /\ OneMore(mails, A) \in [Alerts -> Nat]
           /\ \A a \in Alerts : mails[a] > 0 => OneMore(mails, A)[a] > 0
           /\ \A a \in A : OneMore(mails, A)[a] > 0
BY DEF OneMore

\* A run that goes on to the next user marks nothing.
LEMMA NextUserSafe ==
    ASSUME RowsType, NEW r \in Runs, NEW todo \in SUBSET Alerts, NextUser(r, todo)
    PROVE  /\ run' \in [Runs -> [pc : {"idle", "next", "mark"}, todo : SUBSET Alerts,
                                 group : SUBSET Alerts]]
           /\ run'[r].pc # "mark"
           /\ \A q \in Runs \ {r} : run'[q] = run[q]
BY DEF RowsType, NextUser, NoRun

\* Steps that leave the rows, the digest mails and the runs alone.
LEMMA RowsUnchanged ==
    ASSUME MailInv, UNCHANGED digestVars
    PROVE  MailInv'
BY DEF MailInv, RowsType, MarkedIsMailed, SentWasMailed, digestVars

\* Steps of the runs that mark no row.
LEMMA NothingMarked ==
    ASSUME MailInv, RowsType', digest' = digest,
           \A a \in Alerts : digests[a] > 0 => digests'[a] > 0,
           \A r \in Runs : run'[r].pc = "mark" =>
               run'[r] = run[r] \/ \A a \in run'[r].group : digests'[a] > 0
    PROVE  MailInv'
BY DEF MailInv, RowsType, MarkedIsMailed, SentWasMailed

LEMMA MailInvInit == Init => MailInv
BY DEF Init, MailInv, RowsType, MarkedIsMailed, SentWasMailed, NoRun

LEMMA TickKeeps ==
    ASSUME MailInv, NEW r \in Runs, Tick(r)
    PROVE  MailInv'
BY NothingMarked DEF Tick, Pending, MailInv, RowsType

LEMMA SendDigestKeeps ==
    ASSUME MailInv, NEW r \in Runs, NEW u \in Users, SendDigest(r, u)
    PROVE  MailInv'
<1> DEFINE group == RowsOf(r, u)
<1>1. group \in SUBSET Alerts /\ run[r].todo \in SUBSET Alerts
  BY DEF MailInv, RowsType, RowsOf
<1>2. /\ digests' = OneMore(digests, group)
      /\ run' = [run EXCEPT ![r] = [pc |-> "mark", todo |-> run[r].todo \ group,
                                    group |-> group]]
      /\ digest' = digest
  BY DEF SendDigest
<1> HIDE DEF group
<1>3. /\ digests' \in [Alerts -> Nat]
      /\ \A a \in Alerts : digests[a] > 0 => digests'[a] > 0
      /\ \A a \in group : digests'[a] > 0
  BY <1>1, <1>2, MailsAdded DEF MailInv, RowsType
<1>4. RowsType'
  BY <1>1, <1>2, <1>3 DEF MailInv, RowsType
<1>5. \A q \in Runs : run'[q] = run[q] \/ run'[q].group = group
  BY <1>2 DEF MailInv, RowsType
<1> QED
  BY <1>2, <1>3, <1>4, <1>5, NothingMarked

LEMMA SendDigestFailsKeeps ==
    ASSUME MailInv, NEW r \in Runs, NEW u \in Users, SendDigestFails(r, u)
    PROVE  MailInv'
<1> DEFINE group == RowsOf(r, u)
           todo == run[r].todo \ group
<1>1. group \in SUBSET Alerts /\ todo \in SUBSET Alerts
  BY DEF MailInv, RowsType, RowsOf
<1>2. /\ digests' = digests \/ digests' = OneMore(digests, group)
      /\ NextUser(r, todo)
      /\ digest' = digest
  BY DEF SendDigestFails
<1> HIDE DEF group, todo
<1>3. /\ digests' \in [Alerts -> Nat]
      /\ \A a \in Alerts : digests[a] > 0 => digests'[a] > 0
  BY <1>1, <1>2, MailsAdded DEF MailInv, RowsType
<1>4. /\ RowsType'
      /\ run'[r].pc # "mark"
      /\ \A q \in Runs \ {r} : run'[q] = run[q]
  BY <1>1, <1>2, <1>3, NextUserSafe DEF MailInv, RowsType
<1> QED
  BY <1>2, <1>3, <1>4, NothingMarked

LEMMA MarkKeeps ==
    ASSUME MailInv, NEW r \in Runs, Mark(r)
    PROVE  MailInv'
<1>1. run[r].pc = "mark" /\ NextUser(r, run[r].todo) /\ digests' = digests
  BY DEF Mark
<1>2. digest' = digest \/ digest' = [a \in Alerts |-> IF a \in run[r].group THEN "SENT" ELSE digest[a]]
  BY DEF Mark
<1>3. /\ RowsType'
      /\ run'[r].pc # "mark"
      /\ \A q \in Runs \ {r} : run'[q] = run[q]
  BY <1>1, <1>2, NextUserSafe DEF MailInv, RowsType
<1>4. MarkedIsMailed'
  BY <1>1, <1>3 DEF MailInv, MarkedIsMailed
<1>5. SentWasMailed'
  BY <1>1, <1>2 DEF MailInv, RowsType, MarkedIsMailed, SentWasMailed
<1> QED
  BY <1>3, <1>4, <1>5 DEF MailInv

LEMMA MarkFailsKeeps ==
    ASSUME MailInv, NEW r \in Runs, MarkFails(r)
    PROVE  MailInv'
<1>1. NextUser(r, run[r].todo) /\ digests' = digests /\ digest' = digest
  BY DEF MarkFails
<1>2. /\ RowsType'
      /\ run'[r].pc # "mark"
      /\ \A q \in Runs \ {r} : run'[q] = run[q]
  BY <1>1, NextUserSafe DEF MailInv, RowsType
<1> QED
  BY <1>1, <1>2, NothingMarked

LEMMA DigestCrashKeeps ==
    ASSUME MailInv, DigestCrash
    PROVE  MailInv'
<1>1. run' = [r \in Runs |-> NoRun] /\ digests' = digests /\ digest' = digest
  BY DEF DigestCrash
<1>2. RowsType' /\ \A r \in Runs : run'[r].pc # "mark"
  BY <1>1 DEF MailInv, RowsType, NoRun
<1> QED
  BY <1>1, <1>2, NothingMarked

LEMMA LedgerStepKeeps ==
    ASSUME MailInv, NEW e \in Endpoints, NEW a \in Alerts,
           Delete(e) \/ Trigger(e, a) \/ Resolve(a) \/ Announce(a)
    PROVE  MailInv'
<1>1. CASE Delete(e)
  BY <1>1 DEF Delete, MailInv, RowsType, MarkedIsMailed, SentWasMailed
<1>2. CASE Trigger(e, a)
  BY <1>2 DEF Trigger, MailInv, RowsType, MarkedIsMailed, SentWasMailed
<1>3. CASE Resolve(a) \/ Announce(a)
  BY <1>3, RowsUnchanged DEF Resolve, Announce, digestVars
<1> QED
  BY <1>1, <1>2, <1>3

LEMMA OtherStepKeeps ==
    ASSUME MailInv,
           \/ \E a \in Alerts : JobNext(a) \/ Stall(a) \/ Forward(a) \/ ForwardRefused(a)
           \/ ApiStops \/ ApiStarts \/ UNCHANGED vars
    PROVE  MailInv'
<1>1. UNCHANGED digestVars
  BY DEF JobNext, Fetch, SendRecovery, SendRecoveryFails, Complete, Stall, Forward,
         ForwardRefused, ApiStops, ApiStarts, vars, digestVars
<1> QED
  BY <1>1, RowsUnchanged

LEMMA MailInvNext == MailInv /\ [Next]_vars => MailInv'
<1> SUFFICES ASSUME MailInv, [Next]_vars
             PROVE  MailInv'
  OBVIOUS
<1>1. CASE \E e \in Endpoints : Delete(e) \/ \E a \in Alerts : Trigger(e, a)
  BY <1>1, LedgerStepKeeps DEF Delete
<1>2. CASE \E r \in Runs : Tick(r) \/ RunNext(r)
  BY <1>2, TickKeeps, SendDigestKeeps, SendDigestFailsKeeps, MarkKeeps, MarkFailsKeeps
  DEF RunNext
<1>3. CASE \E a \in Alerts : Resolve(a) \/ Announce(a)
  BY <1>3, RowsUnchanged DEF Resolve, Announce, digestVars
<1>4. CASE \/ \E a \in Alerts : JobNext(a) \/ Stall(a) \/ Forward(a) \/ ForwardRefused(a)
           \/ ApiStops \/ ApiStarts \/ UNCHANGED vars
  BY <1>4, OtherStepKeeps
<1>5. CASE DigestCrash
  BY <1>5, DigestCrashKeeps
<1> QED
  BY <1>1, <1>2, <1>3, <1>4, <1>5 DEF Next

\* "mark rows SENT only after email succeeded" (digestService.ts:99) holds
\* whatever fails, overlaps or is deleted, for any number of alerts and runs.
THEOREM MarkedAfterMail == Spec => []SentWasMailed
<1>1. MailInv => SentWasMailed
  BY DEF MailInv
<1> QED
  BY <1>1, MailInvInit, MailInvNext, PTL DEF Spec

---------------------------------------------------------------------------
(* Types.  The attempts of a job stay within their limit because a job that *)
(* has used them up is never delivered again; and an alert that was not     *)
(* announced has no job yet.                                                *)

JobStates == [state : {"none", "waiting", "send", "sent", "done", "failed"},
              attempts : 0..MaxAttempts, stalled : BOOLEAN]

JobsBounded ==
    /\ \A a \in Alerts : a \notin announced => job[a] = NoJob
    /\ \A a \in Alerts : job[a].state \in {"waiting", "send", "sent"} => job[a].attempts < MaxAttempts

MailTyped ==
    /\ TypeOK
    /\ alert \in [Alerts -> {"free", "TRIGGERED", "RESOLVED", "deleted"}]
    /\ announced \subseteq Alerts
    /\ JobsBounded

LEMMA OneMoreTyped ==
    ASSUME NEW mails \in [Alerts -> 0..2], NEW A
    PROVE  OneMore(mails, A) \in [Alerts -> 0..2]
BY DEF OneMore

LEMMA OneMoreTo ==
    ASSUME NEW mails \in [Alerts -> 0..2], NEW a \in Alerts
    PROVE  /\ OneMore(mails, {a})[a] > 0
           /\ \A b \in Alerts \ {a} : OneMore(mails, {a})[b] = mails[b]
BY DEF OneMore

LEMMA FaultCounted ==
    ASSUME count \in 0..MaxFaults, NEW kind, Fault(kind)
    PROVE  count' \in 0..MaxFaults
BY BoundsAssumption DEF Fault

LEMMA MailTypedInit == Init => MailTyped
<1> SUFFICES ASSUME Init PROVE MailTyped
  OBVIOUS
<1>1. NoJob \in JobStates /\ NoJob.state = "none"
  BY BoundsAssumption DEF NoJob, JobStates
<1>2. NoRun \in [pc : {"idle", "next", "mark"}, todo : SUBSET Alerts, group : SUBSET Alerts]
  BY DEF NoRun
<1>3. /\ digest \in [Alerts -> {"none", "PENDING", "SENT"}]
      /\ digests \in [Alerts -> 0..2] /\ recoveries \in [Alerts -> 0..2]
      /\ count \in 0..MaxFaults
  BY BoundsAssumption DEF Init
<1>4. /\ run \in [Runs -> [pc : {"idle", "next", "mark"}, todo : SUBSET Alerts, group : SUBSET Alerts]]
      /\ job \in [Alerts -> JobStates]
      /\ JobsBounded
  BY <1>1, <1>2 DEF Init, JobsBounded
<1>5. kept \in Seq(Alerts) /\ Len(kept) <= FailedKept
  BY BoundsAssumption DEF Init
<1>6. /\ events \subseteq Alerts /\ dlq \subseteq Alerts /\ apiUp \in BOOLEAN /\ mode \in Modes
      /\ alert \in [Alerts -> {"free", "TRIGGERED", "RESOLVED", "deleted"}]
      /\ announced \subseteq Alerts
  BY DEF Init, Ledger!Init
<1> QED
  BY <1>3, <1>4, <1>5, <1>6 DEF MailTyped, TypeOK, JobStates

\* What the runs do leaves the ledger and the jobs alone.
LEMMA RunTyped ==
    ASSUME MailTyped,
           \/ \E r \in Runs : Tick(r) \/ RunNext(r)
           \/ DigestCrash
    PROVE  MailTyped'
<1>1. UNCHANGED <<ledger, queueVars, deadVars, mode>>
  BY DEF Tick, RunNext, SendDigest, SendDigestFails, Mark, MarkFails, DigestCrash
<1>2. count' \in 0..MaxFaults
  BY FaultCounted DEF Tick, RunNext, SendDigest, SendDigestFails, Mark, MarkFails, DigestCrash,
     MailTyped, TypeOK
<1>3. digests' \in [Alerts -> 0..2]
  <2>1. digests' = digests \/ \E A \in SUBSET Alerts : digests' = OneMore(digests, A)
    <3>1. \A r \in Runs, u \in Users : RowsOf(r, u) \in SUBSET Alerts
      BY DEF RowsOf, MailTyped, TypeOK
    <3>2. ASSUME NEW r \in Runs, NEW u \in Users, SendDigest(r, u) \/ SendDigestFails(r, u)
          PROVE  digests' = digests \/ \E A \in SUBSET Alerts : digests' = OneMore(digests, A)
      BY <3>1, <3>2 DEF SendDigest, SendDigestFails
    <3>3. \A r \in Runs : Tick(r) \/ Mark(r) \/ MarkFails(r) => digests' = digests
      BY DEF Tick, Mark, MarkFails
    <3>4. DigestCrash => digests' = digests
      BY DEF DigestCrash
    <3> QED
      BY <3>2, <3>3, <3>4 DEF RunNext
  <2>2. digests \in [Alerts -> 0..2]
    BY DEF MailTyped, TypeOK
  <2> QED
    BY <2>1, <2>2, OneMoreTyped
<1>4. digest' \in [Alerts -> {"none", "PENDING", "SENT"}]
  BY DEF Tick, RunNext, SendDigest, SendDigestFails, Mark, MarkFails, DigestCrash, MailTyped, TypeOK
<1>5. run' \in [Runs -> [pc : {"idle", "next", "mark"}, todo : SUBSET Alerts, group : SUBSET Alerts]]
  <2> DEFINE R == [pc : {"idle", "next", "mark"}, todo : SUBSET Alerts, group : SUBSET Alerts]
  <2>1. \A r \in Runs : run[r].todo \in SUBSET Alerts /\ run[r].group \in SUBSET Alerts
    BY DEF MailTyped, TypeOK
  <2>2. NoRun \in R
    BY DEF NoRun
  <2>3. ASSUME NEW r \in Runs, NEW todo \in SUBSET Alerts, NextUser(r, todo)
        PROVE  run' \in [Runs -> R]
    BY <2>2, <2>3 DEF NextUser, MailTyped, TypeOK
  <2>4. \A r \in Runs, u \in Users : SendDigest(r, u) => run' \in [Runs -> R]
    BY <2>1 DEF SendDigest, RowsOf, MailTyped, TypeOK
  <2>5. \A r \in Runs, u \in Users : SendDigestFails(r, u) => run' \in [Runs -> R]
    BY <2>1, <2>3 DEF SendDigestFails
  <2>6. \A r \in Runs : Mark(r) \/ MarkFails(r) => run' \in [Runs -> R]
    BY <2>1, <2>3 DEF Mark, MarkFails
  <2>7. \A r \in Runs : Tick(r) => run' \in [Runs -> R]
    BY DEF Tick, Pending, MailTyped, TypeOK
  <2>8. DigestCrash => run' \in [Runs -> R]
    BY <2>2 DEF DigestCrash
  <2> QED
    BY <2>4, <2>5, <2>6, <2>7, <2>8 DEF RunNext
<1> QED
  BY <1>1, <1>2, <1>3, <1>4, <1>5
  DEF MailTyped, TypeOK, JobsBounded, ledger, queueVars, deadVars

\* What an assignment to the state of a job, and one more attempt, do.
LEMMA StateSet ==
    ASSUME job \in [Alerts -> JobStates], NEW a \in Alerts,
           NEW state \in {"none", "waiting", "send", "sent", "done", "failed"},
           job' = [job EXCEPT ![a].state = state]
    PROVE  /\ job' \in [Alerts -> JobStates]
           /\ job'[a].state = state
           /\ job'[a].attempts = job[a].attempts
           /\ \A b \in Alerts \ {a} : job'[b] = job[b]
<1> DEFINE next == [job[a] EXCEPT !.state = state]
<1>1. /\ next \in JobStates
      /\ next.state = state /\ next.attempts = job[a].attempts
  BY DEF JobStates
<1>2. job' = [job EXCEPT ![a] = next]
  OBVIOUS
<1> HIDE DEF next
<1> QED
  BY <1>1, <1>2

LEMMA RetryEffect ==
    ASSUME job \in [Alerts -> JobStates], NEW a \in Alerts,
           job[a].attempts < MaxAttempts, Retry(a)
    PROVE  /\ job' \in [Alerts -> JobStates]
           /\ \/ /\ job'[a].state = "waiting" /\ job'[a].attempts < MaxAttempts
                 /\ UNCHANGED <<events, kept>>
              \/ /\ job'[a].state = "failed" /\ job'[a].attempts = MaxAttempts
                 /\ FailForGood(a)
           /\ \A b \in Alerts \ {a} : job'[b] = job[b]
<1> DEFINE tries == job[a].attempts + 1
           state == IF tries < MaxAttempts THEN "waiting" ELSE "failed"
           next == [job[a] EXCEPT !.attempts = tries, !.state = state]
<1>1. job[a] \in JobStates /\ tries \in 1..MaxAttempts
  BY BoundsAssumption DEF JobStates
<1>2. /\ next \in JobStates
      /\ next.state = state /\ next.attempts = tries
  <2>1. state \in {"waiting", "failed"} /\ tries \in 0..MaxAttempts
    BY <1>1, BoundsAssumption
  <2> HIDE DEF state, tries
  <2> QED
    BY <1>1, <2>1 DEF JobStates
<1>3. job' = [job EXCEPT ![a] = next]
  BY DEF Retry
<1>4. \/ tries < MaxAttempts /\ UNCHANGED <<events, kept>>
      \/ tries = MaxAttempts /\ FailForGood(a)
  BY <1>1, BoundsAssumption DEF Retry
<1> HIDE DEF next
<1> QED
  BY <1>1, <1>2, <1>3, <1>4

\* What the ping worker and its users do.
LEMMA LedgerTyped ==
    ASSUME MailTyped,
           \/ \E e \in Endpoints : Delete(e) \/ \E a \in Alerts : Trigger(e, a)
           \/ \E a \in Alerts : Resolve(a) \/ Announce(a)
    PROVE  MailTyped'
<1>1. CASE \E e \in Endpoints : Delete(e)
  <2>1. UNCHANGED <<announced, digests, run, queueVars, deadVars, count, mode>>
    BY <1>1 DEF Delete, Ledger!Delete
  <2>2. /\ digest' \in [Alerts -> {"none", "PENDING", "SENT"}]
        /\ alert' \in [Alerts -> {"free", "TRIGGERED", "RESOLVED", "deleted"}]
    BY <1>1 DEF Delete, Ledger!Delete, MailTyped, TypeOK
  <2> QED
    BY <2>1, <2>2 DEF MailTyped, TypeOK, JobsBounded, queueVars, deadVars
<1>2. CASE \E e \in Endpoints, a \in Alerts : Trigger(e, a)
  <2>1. UNCHANGED <<announced, digests, run, queueVars, deadVars, count, mode>>
    BY <1>2 DEF Trigger, Ledger!Trigger
  <2>2. /\ digest' \in [Alerts -> {"none", "PENDING", "SENT"}]
        /\ alert' \in [Alerts -> {"free", "TRIGGERED", "RESOLVED", "deleted"}]
    BY <1>2 DEF Trigger, Ledger!Trigger, MailTyped, TypeOK
  <2> QED
    BY <2>1, <2>2 DEF MailTyped, TypeOK, JobsBounded, queueVars, deadVars
<1>3. CASE \E a \in Alerts : Resolve(a)
  BY <1>3 DEF Resolve, Ledger!Resolve, MailTyped, TypeOK, JobsBounded, digestVars, queueVars, deadVars
<1>4. CASE \E a \in Alerts : Announce(a)
  <2>1. PICK a \in Alerts : Announce(a)
    BY <1>4
  <2>2. /\ a \notin announced /\ job[a] = NoJob
        /\ announced' = announced \cup {a}
        /\ job' = [job EXCEPT ![a].state = "waiting"]
        /\ UNCHANGED <<alert, digestVars, recoveries, deadVars, count, mode>>
    BY <2>1 DEF Announce, Ledger!Announce, MailTyped, JobsBounded
  <2>3. /\ job' \in [Alerts -> JobStates]
        /\ job'[a].attempts = 0
        /\ \A b \in Alerts \ {a} : job'[b] = job[b]
    <3>1. job \in [Alerts -> JobStates]
      BY DEF MailTyped, TypeOK, JobStates
    <3>2. job[a].attempts = 0
      BY <2>2 DEF NoJob
    <3> QED
      BY <2>2, <3>1, <3>2, StateSet
  <2>4. JobsBounded'
    BY <2>2, <2>3, BoundsAssumption DEF MailTyped, JobsBounded
  <2> QED
    BY <2>2, <2>3, <2>4 DEF MailTyped, TypeOK, JobStates, digestVars, deadVars
<1> QED
  BY <1>1, <1>2, <1>3, <1>4

\* What the queue keeps of its failed jobs.
KeptOK == kept \in Seq(Alerts) /\ Len(kept) <= FailedKept

LEMMA KeptEffect ==
    ASSUME KeptOK, NEW a \in Alerts, FailForGood(a)
    PROVE  KeptOK' /\ a \in Range(kept)' /\ Range(kept)' \subseteq Range(kept) \cup {a}
<1> DEFINE rest == IF Len(kept) < FailedKept THEN kept ELSE Tail(kept)
<1>1. /\ rest \in Seq(Alerts) /\ Len(rest) < FailedKept
      /\ \A i \in 1..Len(rest) : rest[i] \in Range(kept)
  <2>1. CASE Len(kept) < FailedKept
    BY <2>1 DEF KeptOK, Range
  <2>2. CASE ~(Len(kept) < FailedKept)
    <3>1. Len(kept) = FailedKept /\ Len(kept) \in Nat \ {0}
      BY <2>2, BoundsAssumption DEF KeptOK
    <3>2. Tail(kept) \in Seq(Alerts) /\ Len(Tail(kept)) = Len(kept) - 1
      BY <3>1 DEF KeptOK
    <3>3. \A i \in 1..Len(Tail(kept)) : Tail(kept)[i] = kept[i + 1] /\ i + 1 \in 1..Len(kept)
      BY <3>1 DEF KeptOK
    <3>4. DOMAIN kept = 1..Len(kept)
      BY DEF KeptOK
    <3> QED
      BY <2>2, <3>1, <3>2, <3>3, <3>4 DEF Range
  <2> QED
    BY <2>1, <2>2
<1>2. kept' = Append(rest, a)
  BY DEF FailForGood
<1> HIDE DEF rest
<1>3. /\ kept' \in Seq(Alerts) /\ Len(kept') = Len(rest) + 1
      /\ kept'[Len(rest) + 1] = a
      /\ \A i \in 1..Len(rest) : kept'[i] = rest[i]
  BY <1>1, <1>2
<1>4. KeptOK'
  BY <1>1, <1>3, BoundsAssumption DEF KeptOK
<1>5. DOMAIN kept' = 1..(Len(rest) + 1) /\ Len(rest) \in Nat
  BY <1>1, <1>3
<1>6. a \in Range(kept')
  BY <1>3, <1>5 DEF Range
<1>7. Range(kept') \subseteq Range(kept) \cup {a}
  <2> SUFFICES ASSUME NEW i \in 1..(Len(rest) + 1) PROVE kept'[i] \in Range(kept) \cup {a}
    BY <1>5 DEF Range
  <2> QED
    BY <1>1, <1>3, <1>5
<1> QED
  BY <1>4, <1>6, <1>7 DEF Range

\* A step of one job: the others stay as they are.
LEMMA JobStepBounded ==
    ASSUME MailTyped, NEW a \in Alerts, job[a].state # "none",
           job' \in [Alerts -> JobStates],
           job'[a].state \in {"waiting", "send", "sent"} => job'[a].attempts < MaxAttempts,
           \A b \in Alerts \ {a} : job'[b] = job[b],
           recoveries' \in [Alerts -> 0..2], events' \subseteq Alerts, KeptOK',
           count' \in 0..MaxFaults,
           UNCHANGED <<ledger, digestVars, dlq, apiUp, mode>>
    PROVE  MailTyped'
<1>1. a \in announced
  BY DEF MailTyped, JobsBounded, NoJob
<1>2. JobsBounded'
  BY <1>1 DEF MailTyped, JobsBounded, ledger
<1> QED
  BY <1>2 DEF MailTyped, TypeOK, JobStates, KeptOK, ledger, digestVars

LEMMA JobTyped ==
    ASSUME MailTyped, NEW a \in Alerts, JobNext(a) \/ Stall(a)
    PROVE  MailTyped'
<1>1. /\ job \in [Alerts -> JobStates]
      /\ recoveries \in [Alerts -> 0..2]
      /\ events \subseteq Alerts /\ KeptOK
      /\ UNCHANGED deadVars => KeptOK'
      /\ count \in 0..MaxFaults
      /\ job[a].state \in {"waiting", "send", "sent"} => job[a].attempts < MaxAttempts
  BY DEF MailTyped, TypeOK, JobStates, JobsBounded, KeptOK, deadVars
<1>2. CASE Fetch(a)
  <2>1. /\ job[a].state = "waiting"
        /\ job' = [job EXCEPT ![a].state = "send"] \/ job' = [job EXCEPT ![a].state = "done"]
        /\ UNCHANGED <<ledger, digestVars, recoveries, deadVars, count, mode>>
    BY <1>2 DEF Fetch, SetJob
  <2> QED
    BY <1>1, <2>1, StateSet, JobStepBounded DEF deadVars
<1>3. CASE SendRecovery(a)
  <2>1. /\ job[a].state = "send"
        /\ job' = [job EXCEPT ![a].state = "sent"]
        /\ recoveries' = OneMore(recoveries, {a})
        /\ UNCHANGED <<ledger, digestVars, deadVars, count, mode>>
    BY <1>3 DEF SendRecovery, SetJob
  <2> QED
    BY <1>1, <2>1, StateSet, JobStepBounded, OneMoreTyped DEF deadVars
<1>4. CASE Complete(a)
  <2> DEFINE next == [NoJob EXCEPT !.state = "done"]
  <2>1. NoJob \in JobStates
    BY BoundsAssumption DEF NoJob, JobStates
  <2>2. next \in JobStates /\ next.state = "done"
    BY <2>1 DEF JobStates
  <2>3. /\ job[a].state = "sent"
        /\ job' = [job EXCEPT ![a] = next]
        /\ UNCHANGED <<ledger, digestVars, recoveries, deadVars, count, mode>>
    BY <1>4 DEF Complete
  <2> HIDE DEF next
  <2> QED
    BY <1>1, <2>2, <2>3, JobStepBounded DEF deadVars
<1>5. CASE SendRecoveryFails(a)
  <2>1. /\ job[a].state = "send"
        /\ Retry(a)
        /\ recoveries' = recoveries \/ recoveries' = OneMore(recoveries, {a})
        /\ UNCHANGED <<ledger, digestVars, dlq, apiUp, mode>>
    BY <1>5 DEF SendRecoveryFails
  <2>2. count' \in 0..MaxFaults
    BY <1>1, <1>5, FaultCounted DEF SendRecoveryFails
  <2>3. events' \subseteq Alerts /\ KeptOK'
    BY <1>1, <2>1, KeptEffect DEF Retry, FailForGood, KeptOK
  <2> QED
    BY <1>1, <2>1, <2>2, <2>3, RetryEffect, JobStepBounded, OneMoreTyped
<1>6. CASE Stall(a)
  <2>1. /\ job[a].state \in {"send", "sent"}
        /\ UNCHANGED <<ledger, digestVars, recoveries, dlq, apiUp, mode>>
    BY <1>6 DEF Stall
  <2>2. count' \in 0..MaxFaults
    BY <1>1, <1>6, FaultCounted DEF Stall
  <2>3. events' \subseteq Alerts /\ KeptOK'
    BY <1>1, <1>6, KeptEffect DEF Stall, FailForGood, KeptOK
  <2>4. CASE job' = [job EXCEPT ![a].state = "waiting", ![a].stalled = TRUE]
    <3> DEFINE next == [job[a] EXCEPT !.state = "waiting", !.stalled = TRUE]
    <3>1. next \in JobStates /\ next.attempts = job[a].attempts
      BY <1>1 DEF JobStates
    <3>2. job' = [job EXCEPT ![a] = next]
      BY <2>4
    <3> HIDE DEF next
    <3> QED
      BY <1>1, <2>1, <2>2, <2>3, <3>1, <3>2, JobStepBounded
  <2>5. CASE job' = [job EXCEPT ![a].state = "failed"]
    BY <1>1, <2>1, <2>2, <2>3, <2>5, StateSet, JobStepBounded
  <2> QED
    BY <1>6, <2>4, <2>5 DEF Stall, SetJob
<1> QED
  BY <1>2, <1>3, <1>4, <1>5, <1>6 DEF JobNext

\* Steps of the API.
LEMMA ApiTyped ==
    ASSUME MailTyped,
           \/ \E a \in Alerts : Forward(a) \/ ForwardRefused(a)
           \/ ApiStops \/ ApiStarts
    PROVE  MailTyped'
<1>1. UNCHANGED <<ledger, digestVars, queueVars, count, mode>>
  BY DEF Forward, ForwardRefused, ApiStops, ApiStarts
<1>2. events' \subseteq Alerts /\ kept' = kept /\ dlq' \subseteq Alerts /\ apiUp' \in BOOLEAN
  BY DEF Forward, ForwardRefused, ApiStops, ApiStarts, MailTyped, TypeOK
<1> QED
  BY <1>1, <1>2 DEF MailTyped, TypeOK, JobsBounded, ledger, digestVars, queueVars

LEMMA MailTypedNext == MailTyped /\ [Next]_vars => MailTyped'
<1> SUFFICES ASSUME MailTyped, [Next]_vars
             PROVE  MailTyped'
  OBVIOUS
<1>1. CASE UNCHANGED vars
  BY <1>1 DEF vars, ledger, digestVars, queueVars, deadVars, MailTyped, TypeOK, JobsBounded
<1>2. CASE Next
  BY <1>2, RunTyped, LedgerTyped, JobTyped, ApiTyped DEF Next
<1> QED
  BY <1>1, <1>2

\* Types, and the limits on attempts, mails and faults, hold for any alerts and
\* runs: BullMQ never delivers a recovery job more often than it may.
THEOREM MailTypesHold == Spec => []TypeOK
<1>1. MailTyped => TypeOK
  BY DEF MailTyped
<1> QED
  BY <1>1, MailTypedInit, MailTypedNext, PTL DEF Spec

---------------------------------------------------------------------------
(* Recoveries.  While no worker dies, the API listens and ping-dlq takes     *)
(* what it is given, every recovery is accounted for at each moment of its  *)
(* job: a job past its mail has mailed, one that failed and is still in its *)
(* queue is heard of, and what is heard has used up its attempts, so the    *)
(* listener does not take it for a job that will be tried again.            *)

Heard == Spared({"crash", "refused", "apiDown"})

Accounted(a) ==
    /\ job[a].state = "sent" => recoveries[a] > 0
    /\ job[a].state = "done" => recoveries[a] > 0 \/ Gone(a)
    /\ job[a].state = "failed" => a \in events \cup dlq \/ a \notin Range(kept)
    /\ a \in events => job[a].attempts >= MaxAttempts

TellInv == Heard => apiUp /\ \A a \in Alerts : Accounted(a)

LEMMA TellInit == Init => TellInv
<1> SUFFICES ASSUME Init PROVE TellInv
  OBVIOUS
<1>1. \A a \in Alerts : job[a].state = "none" /\ a \notin events
  BY DEF Init, NoJob
<1> QED
  BY <1>1 DEF Init, TellInv, Accounted

\* Steps that do not touch the jobs: a deleted endpoint stays deleted.
LEMMA TellKept ==
    ASSUME TellInv, UNCHANGED <<queueVars, deadVars, mode>>,
           \A a \in Alerts : Gone(a) => Gone(a)'
    PROVE  TellInv'
BY DEF TellInv, Accounted, Heard, Spared, queueVars, deadVars

LEMMA LedgerTells ==
    ASSUME MailTyped, TellInv,
           \/ \E e \in Endpoints : Delete(e) \/ \E a \in Alerts : Trigger(e, a)
           \/ \E a \in Alerts : Resolve(a)
    PROVE  TellInv'
<1>1. UNCHANGED <<queueVars, deadVars, mode>>
  BY DEF Delete, Trigger, Resolve
<1>2. \A a \in Alerts : Gone(a) => Gone(a)'
  <2>1. ASSUME NEW e \in Endpoints, Delete(e) PROVE \A a \in Alerts : Gone(a) => Gone(a)'
    BY <2>1 DEF Delete, Ledger!Delete, Gone
  <2>2. ASSUME NEW e \in Endpoints, NEW b \in Alerts, Trigger(e, b)
        PROVE  \A a \in Alerts : Gone(a) => Gone(a)'
    BY <2>2 DEF Trigger, Ledger!Trigger, Gone, MailTyped
  <2>3. ASSUME NEW b \in Alerts, Resolve(b) PROVE \A a \in Alerts : Gone(a) => Gone(a)'
    BY <2>3 DEF Resolve, Ledger!Resolve, Gone, MailTyped
  <2> QED
    BY <2>1, <2>2, <2>3
<1> QED
  BY <1>1, <1>2, TellKept

LEMMA AnnounceTells ==
    ASSUME MailTyped, TellInv, NEW a \in Alerts, Announce(a)
    PROVE  TellInv'
<1>1. /\ job[a] = NoJob
      /\ job' = [job EXCEPT ![a].state = "waiting"]
      /\ UNCHANGED <<alert, recoveries, deadVars, mode>>
  BY DEF Announce, Ledger!Announce, MailTyped, JobsBounded
<1>2. job \in [Alerts -> JobStates]
  BY DEF MailTyped, TypeOK, JobStates
<1>3. job'[a].state = "waiting" /\ job'[a].attempts = job[a].attempts
  BY <1>1, <1>2, StateSet
<1>4. \A b \in Alerts \ {a} : job'[b] = job[b]
  BY <1>1, <1>2, StateSet
<1> QED
  BY <1>1, <1>3, <1>4 DEF TellInv, Accounted, Heard, Spared, Gone, deadVars

\* A step of one job that leaves nobody else's mail or event behind.
LEMMA JobStepTells ==
    ASSUME TellInv, NEW a \in Alerts,
           \A b \in Alerts \ {a} : job'[b] = job[b] /\ recoveries'[b] = recoveries[b],
           \A b \in Alerts \ {a} : b \in events' <=> b \in events,
           Range(kept)' \subseteq Range(kept) \cup {a},
           UNCHANGED <<ledger, dlq, apiUp, mode>>,
           Heard => Accounted(a)'
    PROVE  TellInv'
<1>1. SUFFICES ASSUME Heard PROVE apiUp' /\ \A b \in Alerts : Accounted(b)'
  BY DEF TellInv, Heard, Spared
<1>2. ASSUME NEW b \in Alerts \ {a} PROVE Accounted(b)'
  <2>1. Accounted(b)
    BY <1>1 DEF TellInv
  <2> QED
    BY <2>1 DEF Accounted, Gone, ledger
<1> QED
  BY <1>1, <1>2 DEF TellInv

LEMMA JobTells ==
    ASSUME MailTyped, TellInv, NEW a \in Alerts, JobNext(a) \/ Stall(a)
    PROVE  TellInv'
<1>1. /\ job \in [Alerts -> JobStates]
      /\ recoveries \in [Alerts -> 0..2]
      /\ job[a].state \in {"waiting", "send", "sent"} => job[a].attempts < MaxAttempts
      /\ job[a].attempts \in 0..MaxAttempts /\ MaxAttempts \in Nat
  BY BoundsAssumption DEF MailTyped, TypeOK, JobStates, JobsBounded
<1>2. Heard => apiUp /\ Accounted(a)
  BY DEF TellInv
<1>3. CASE Fetch(a)
  <2>1. /\ job[a].state = "waiting"
        /\ \/ job' = [job EXCEPT ![a].state = "send"]
           \/ Gone(a) /\ job' = [job EXCEPT ![a].state = "done"]
        /\ UNCHANGED <<ledger, recoveries, deadVars, mode>>
    BY <1>3 DEF Fetch, SetJob
  <2>2. /\ job'[a].state = "send" \/ (Gone(a) /\ job'[a].state = "done")
        /\ job'[a].attempts = job[a].attempts
        /\ \A b \in Alerts \ {a} : job'[b] = job[b]
    BY <1>1, <2>1, StateSet
  <2>3. Heard => Accounted(a)'
    BY <1>1, <1>2, <2>1, <2>2 DEF Accounted, Gone, ledger, deadVars
  <2> QED
    BY <2>1, <2>2, <2>3, JobStepTells DEF deadVars
<1>4. CASE SendRecovery(a)
  <2>1. /\ job[a].state = "send"
        /\ job' = [job EXCEPT ![a].state = "sent"]
        /\ recoveries' = OneMore(recoveries, {a})
        /\ UNCHANGED <<ledger, deadVars, mode>>
    BY <1>4 DEF SendRecovery, SetJob
  <2>2. /\ job'[a].state = "sent"
        /\ job'[a].attempts = job[a].attempts
        /\ \A b \in Alerts \ {a} : job'[b] = job[b]
    BY <1>1, <2>1, StateSet
  <2>3. recoveries'[a] > 0 /\ \A b \in Alerts \ {a} : recoveries'[b] = recoveries[b]
    BY <1>1, <2>1, OneMoreTo
  <2>4. Heard => Accounted(a)'
    BY <1>1, <1>2, <2>1, <2>2, <2>3 DEF Accounted, deadVars
  <2> QED
    BY <2>1, <2>2, <2>3, <2>4, JobStepTells DEF deadVars
<1>5. CASE Complete(a)
  <2> DEFINE next == [NoJob EXCEPT !.state = "done"]
  <2>1. NoJob \in JobStates
    BY BoundsAssumption DEF NoJob, JobStates
  <2>2. next.state = "done"
    BY <2>1 DEF JobStates
  <2>3. /\ job[a].state = "sent"
        /\ job' = [job EXCEPT ![a] = next]
        /\ UNCHANGED <<ledger, recoveries, deadVars, mode>>
    BY <1>5 DEF Complete
  <2> HIDE DEF next
  <2>4. /\ job'[a].state = "done"
        /\ \A b \in Alerts \ {a} : job'[b] = job[b]
    BY <1>1, <2>2, <2>3
  <2>5. Heard => Accounted(a)'
    BY <1>1, <1>2, <2>3, <2>4 DEF Accounted, deadVars
  <2> QED
    BY <2>3, <2>4, <2>5, JobStepTells DEF deadVars
<1>6. CASE SendRecoveryFails(a)
  <2>1. /\ job[a].state = "send"
        /\ Retry(a)
        /\ recoveries' = recoveries \/ recoveries' = OneMore(recoveries, {a})
        /\ UNCHANGED <<ledger, dlq, apiUp, mode>>
    BY <1>6 DEF SendRecoveryFails
  <2>2. /\ \/ job'[a].state = "waiting" /\ UNCHANGED <<events, kept>>
           \/ /\ job'[a].state = "failed" /\ job'[a].attempts = MaxAttempts
              /\ FailForGood(a)
        /\ \A b \in Alerts \ {a} : job'[b] = job[b]
    BY <1>1, <2>1, RetryEffect
  <2>3. \A b \in Alerts \ {a} : recoveries'[b] = recoveries[b]
    BY <1>1, <2>1, OneMoreTo
  <2>4. /\ \A b \in Alerts \ {a} : b \in events' <=> b \in events
        /\ Range(kept)' \subseteq Range(kept) \cup {a}
    <3>1. KeptOK
      BY DEF MailTyped, TypeOK, KeptOK
    <3> QED
      BY <2>2, <3>1, KeptEffect DEF FailForGood, Range
  <2>5. Heard => Accounted(a)'
    <3>1. CASE job'[a].state = "waiting" /\ UNCHANGED <<events, kept>>
      BY <1>1, <1>2, <2>1, <3>1 DEF Accounted
    <3>2. CASE /\ job'[a].state = "failed" /\ job'[a].attempts = MaxAttempts
               /\ FailForGood(a)
      BY <1>1, <1>2, <3>2 DEF Accounted, FailForGood
    <3> QED
      BY <2>2, <3>1, <3>2
  <2> QED
    BY <2>1, <2>2, <2>3, <2>4, <2>5, JobStepTells
<1>7. CASE Stall(a)
  <2>1. ~Heard /\ mode' = mode
    BY <1>7 DEF Stall, Fault, Heard, Spared
  <2> QED
    BY <2>1 DEF TellInv, Heard, Spared
<1> QED
  BY <1>3, <1>4, <1>5, <1>6, <1>7 DEF JobNext

LEMMA ApiTells ==
    ASSUME MailTyped, TellInv,
           \/ \E a \in Alerts : Forward(a) \/ ForwardRefused(a)
           \/ ApiStops \/ ApiStarts
    PROVE  TellInv'
<1>1. CASE \E a \in Alerts : Forward(a)
  <2>1. PICK a \in Alerts : Forward(a)
    BY <1>1
  <2>2. /\ a \in events
        /\ events' = events \ {a}
        /\ dlq' = IF a \in Range(kept) /\ job[a].attempts >= MaxAttempts THEN dlq \cup {a} ELSE dlq
        /\ UNCHANGED <<ledger, queueVars, kept, apiUp, mode>>
    BY <2>1 DEF Forward
  <2>3. Heard => job[a].attempts >= MaxAttempts
    BY <2>2 DEF TellInv, Accounted
  <2>4. job[a].attempts \in Nat /\ MaxAttempts \in Nat
    BY BoundsAssumption DEF MailTyped, TypeOK
  <2>5. Heard => dlq \subseteq dlq' /\ (a \in dlq' \/ a \notin Range(kept))
    BY <2>2, <2>3, <2>4
  <2> QED
    BY <2>2, <2>5 DEF TellInv, Accounted, Heard, Spared, Gone, ledger, queueVars
<1>2. CASE (\E a \in Alerts : ForwardRefused(a)) \/ ApiStops
  <2>1. ~Heard /\ mode' = mode
    BY <1>2 DEF ForwardRefused, ApiStops, Heard, Spared
  <2> QED
    BY <2>1 DEF TellInv, Heard, Spared
<1>3. CASE ApiStarts
  BY <1>3 DEF ApiStarts, TellInv, Accounted, Heard, Spared, Gone, ledger, queueVars
<1> QED
  BY <1>1, <1>2, <1>3

LEMMA TellNext == MailTyped /\ TellInv /\ [Next]_vars => TellInv'
<1> SUFFICES ASSUME MailTyped, TellInv, [Next]_vars
             PROVE  TellInv'
  OBVIOUS
<1>1. CASE UNCHANGED vars
  <2>1. UNCHANGED <<queueVars, deadVars, mode>> /\ \A a \in Alerts : Gone(a) => Gone(a)'
    BY <1>1 DEF vars, ledger, Gone
  <2> QED
    BY <2>1, TellKept
<1>2. CASE (\E r \in Runs : Tick(r) \/ RunNext(r)) \/ DigestCrash
  <2>1. UNCHANGED <<queueVars, deadVars, mode>> /\ \A a \in Alerts : Gone(a) => Gone(a)'
    BY <1>2 DEF Tick, RunNext, SendDigest, SendDigestFails, Mark, MarkFails, DigestCrash, ledger, Gone
  <2> QED
    BY <2>1, TellKept
<1>3. CASE ~((\E r \in Runs : Tick(r) \/ RunNext(r)) \/ DigestCrash) /\ Next
  BY <1>3, LedgerTells, AnnounceTells, JobTells, ApiTells DEF Next
<1> QED
  BY <1>1, <1>2, <1>3

\* For any number of alerts, attempts and failed jobs kept: a recovery job that is
\* over has mailed, had nobody to tell, is in ping-dlq or on its way there, or was
\* dropped from its queue by later failures before the listener came to it.
THEOREM RecoveriesAccounted == Spec => []NoRecoveryUnaccounted
<1>1. TellInv => NoRecoveryUnaccounted
  BY DEF TellInv, Heard, Accounted, NoRecoveryUnaccounted
<1> QED
  BY <1>1, MailTypedInit, MailTypedNext, TellInit, TellNext, PTL DEF Spec

---------------------------------------------------------------------------
(* Digests.  Runs that do not overlap, whose calls all succeed, go through   *)
(* their rows one user after the other.  A row still to do is PENDING and   *)
(* no mail has named it; one that was mailed is PENDING only while the run  *)
(* is about to mark it, and only then: the next run cannot read it again.   *)

Calm == ~mode.overlap /\ Spared({"error", "crash", "delete"})

\* A row that has been mailed and not marked.
Mailing(a) == \E r \in Runs : run[r].pc = "mark" /\ a \in run[r].group

FreeIsBlank == \A a \in Alerts : alert[a] = "free" => digest[a] = "none" /\ digests[a] = 0
OneRun == \A r, q \in Runs : run[r] # NoRun /\ run[q] # NoRun => r = q
TodoUnmailed == \A r \in Runs : \A a \in run[r].todo : digest[a] = "PENDING" /\ digests[a] = 0
GroupPending == \A r \in Runs : run[r].pc = "mark" => \A a \in run[r].group : digest[a] = "PENDING"
MailedOnce ==
    \A a \in Alerts : digests[a] <= 1 /\ (digest[a] = "PENDING" /\ digests[a] > 0 => Mailing(a))

OnceInv == Calm => FreeIsBlank /\ OneRun /\ TodoUnmailed /\ GroupPending /\ MailedOnce

LEMMA OnceInit == Init => OnceInv
<1> SUFFICES ASSUME Init PROVE OnceInv
  OBVIOUS
<1>1. \A r \in Runs : run[r] = NoRun /\ run[r].pc = "idle" /\ run[r].todo = {}
  BY DEF Init, NoRun
<1>2. \A a \in Alerts : digest[a] = "none" /\ digests[a] = 0
  BY DEF Init
<1> QED
  BY <1>1, <1>2 DEF OnceInv, FreeIsBlank, OneRun, TodoUnmailed, GroupPending, MailedOnce

\* A run that goes on to the next user has these rows left.
LEMMA NextUserTodo ==
    ASSUME MailTyped, NEW r \in Runs, NEW todo \in SUBSET Alerts, NextUser(r, todo)
    PROVE  /\ run'[r].todo = todo /\ run'[r].pc # "mark"
           /\ \A q \in Runs \ {r} : run'[q] = run[q]
BY DEF MailTyped, TypeOK, NextUser, NoRun

\* Only one run is ever not idle.
LEMMA OthersIdle ==
    ASSUME OnceInv, Calm, NEW r \in Runs, run[r].pc # "idle"
    PROVE  \A q \in Runs \ {r} : run[q] = NoRun
BY DEF OnceInv, OneRun, NoRun

LEMMA IdleRun == NoRun.pc = "idle" /\ NoRun.todo = {} /\ NoRun.group = {}
BY DEF NoRun

LEMMA OnceKept ==
    ASSUME OnceInv, UNCHANGED <<digestVars, mode>>,
           \A a \in Alerts : alert'[a] = "free" => alert[a] = "free"
    PROVE  OnceInv'
BY DEF OnceInv, Calm, Spared, FreeIsBlank, OneRun, TodoUnmailed, GroupPending, MailedOnce, Mailing,
       digestVars

LEMMA TriggerOnce ==
    ASSUME MailTyped, OnceInv, NEW e \in Endpoints, NEW a \in Alerts, Trigger(e, a)
    PROVE  OnceInv'
<1>1. /\ alert[a] = "free"
      /\ alert' = [alert EXCEPT ![a] = "TRIGGERED"]
      /\ digest' = [digest EXCEPT ![a] = "PENDING"]
      /\ UNCHANGED <<digests, run, mode>>
  BY DEF Trigger, Ledger!Trigger
<1>2. /\ digest'[a] = "PENDING" /\ alert'[a] = "TRIGGERED"
      /\ \A b \in Alerts \ {a} : digest'[b] = digest[b] /\ alert'[b] = alert[b]
  BY <1>1 DEF MailTyped, TypeOK
<1> SUFFICES ASSUME Calm PROVE (FreeIsBlank /\ OneRun /\ TodoUnmailed /\ GroupPending /\ MailedOnce)'
  BY <1>1 DEF OnceInv, Calm, Spared
<1>3. FreeIsBlank /\ OneRun /\ TodoUnmailed /\ GroupPending /\ MailedOnce
  BY DEF OnceInv
<1>4. digests[a] = 0
  BY <1>1, <1>3 DEF FreeIsBlank
<1>5. \A r \in Runs : run[r].todo \subseteq Alerts /\ run[r].group \subseteq Alerts
  BY DEF MailTyped, TypeOK
<1>6. FreeIsBlank' /\ OneRun'
  BY <1>1, <1>2, <1>3 DEF FreeIsBlank, OneRun
<1>7. TodoUnmailed' /\ GroupPending'
  BY <1>1, <1>2, <1>3, <1>5 DEF TodoUnmailed, GroupPending
<1>8. MailedOnce'
  BY <1>1, <1>2, <1>3, <1>4 DEF MailedOnce, Mailing
<1> QED
  BY <1>6, <1>7, <1>8

LEMMA TickOnce ==
    ASSUME MailTyped, OnceInv, NEW r \in Runs, Tick(r)
    PROVE  OnceInv'
<1> DEFINE next == [pc |-> "next", todo |-> Pending, group |-> {}]
<1>1. /\ mode.overlap \/ \A q \in Runs : run[q] = NoRun
      /\ run' = [run EXCEPT ![r] = next]
      /\ UNCHANGED <<ledger, digest, digests, mode>>
  BY DEF Tick
<1>2. next.pc = "next" /\ next.todo = Pending
  OBVIOUS
<1> HIDE DEF next
<1> SUFFICES ASSUME Calm PROVE (FreeIsBlank /\ OneRun /\ TodoUnmailed /\ GroupPending /\ MailedOnce)'
  BY <1>1 DEF OnceInv, Calm, Spared
<1>3. FreeIsBlank /\ OneRun /\ TodoUnmailed /\ GroupPending /\ MailedOnce
  BY DEF OnceInv
<1>4. \A q \in Runs : run[q] = NoRun /\ run[q].pc = "idle"
  BY <1>1, IdleRun DEF Calm
<1>5. run'[r] = next /\ \A q \in Runs \ {r} : run'[q] = NoRun
  BY <1>1, <1>4 DEF MailTyped, TypeOK
<1>6. \A a \in Alerts : digest[a] = "PENDING" => digests[a] = 0
  <2>1. digests \in [Alerts -> 0..2]
    BY DEF MailTyped, TypeOK
  <2> QED
    BY <1>3, <1>4, <2>1 DEF MailedOnce, Mailing
<1>7. FreeIsBlank'
  BY <1>1, <1>3 DEF FreeIsBlank, ledger
<1>8. OneRun'
  BY <1>5 DEF OneRun
<1>9. TodoUnmailed'
  BY <1>1, <1>2, <1>5, <1>6, IdleRun DEF TodoUnmailed, Pending
<1>10. GroupPending'
  BY <1>2, <1>5, IdleRun DEF GroupPending
<1>11. MailedOnce'
  BY <1>1, <1>3, <1>6 DEF MailedOnce, MailTyped, TypeOK
<1> QED
  BY <1>7, <1>8, <1>9, <1>10, <1>11

LEMMA SendDigestOnce ==
    ASSUME MailTyped, OnceInv, NEW r \in Runs, NEW u \in Users, SendDigest(r, u)
    PROVE  OnceInv'
<1> DEFINE group == RowsOf(r, u)
           todo == run[r].todo
           next == [pc |-> "mark", todo |-> todo \ group, group |-> group]
<1>1. /\ run[r].pc = "next"
      /\ digests' = OneMore(digests, group)
      /\ run' = [run EXCEPT ![r] = next]
      /\ UNCHANGED <<ledger, digest, mode>>
  BY DEF SendDigest
<1>2. /\ next.pc = "mark" /\ next.todo = todo \ group /\ next.group = group
      /\ group \subseteq todo /\ todo \subseteq Alerts
  BY DEF RowsOf, MailTyped, TypeOK
<1> HIDE DEF next, group
<1> SUFFICES ASSUME Calm PROVE (FreeIsBlank /\ OneRun /\ TodoUnmailed /\ GroupPending /\ MailedOnce)'
  BY <1>1 DEF OnceInv, Calm, Spared
<1>3. FreeIsBlank /\ OneRun /\ TodoUnmailed /\ GroupPending /\ MailedOnce
  BY DEF OnceInv
<1>4. \A q \in Runs \ {r} : run[q] = NoRun
  BY <1>1, OthersIdle
<1>5. run'[r] = next /\ \A q \in Runs \ {r} : run'[q] = NoRun
  BY <1>1, <1>4 DEF MailTyped, TypeOK
<1>6. \A a \in Alerts : ~Mailing(a)
  BY <1>1, <1>4, IdleRun DEF Mailing
<1>7. \A a \in todo : digest[a] = "PENDING" /\ digests[a] = 0
  BY <1>3 DEF TodoUnmailed
<1>8. /\ \A a \in Alerts : a \notin group => digests'[a] = digests[a]
      /\ \A a \in group : digests'[a] = 1
  <2>1. digests \in [Alerts -> 0..2]
    BY DEF MailTyped, TypeOK
  <2> QED
    BY <1>1, <1>2, <1>7, <2>1 DEF OneMore
<1>9. FreeIsBlank'
  BY <1>1, <1>2, <1>3, <1>7, <1>8 DEF FreeIsBlank, ledger
<1>10. OneRun'
  BY <1>5 DEF OneRun
<1>11. TodoUnmailed'
  BY <1>1, <1>2, <1>5, <1>7, <1>8, IdleRun DEF TodoUnmailed
<1>12. GroupPending'
  BY <1>1, <1>2, <1>5, <1>7, IdleRun DEF GroupPending
<1>13. MailedOnce'
  <2> SUFFICES ASSUME NEW a \in Alerts
               PROVE  digests'[a] <= 1 /\ (digest'[a] = "PENDING" /\ digests'[a] > 0 => Mailing(a)')
    BY DEF MailedOnce
  <2>1. CASE a \in group
    BY <1>2, <1>5, <1>8, <2>1 DEF Mailing
  <2>2. CASE a \notin group
    BY <1>1, <1>3, <1>6, <1>8, <2>2 DEF MailedOnce
  <2> QED
    BY <2>1, <2>2
<1> QED
  BY <1>9, <1>10, <1>11, <1>12, <1>13

LEMMA SendDigestFailsOnce ==
    ASSUME MailTyped, OnceInv, NEW r \in Runs, NEW u \in Users, SendDigestFails(r, u)
    PROVE  OnceInv'
<1> DEFINE todo == run[r].todo \ RowsOf(r, u)
<1>1. /\ run[r].pc = "next"
      /\ NextUser(r, todo)
      /\ UNCHANGED <<ledger, digest, mode>>
      /\ UNCHANGED digests \/ Fault("error")
  BY DEF SendDigestFails
<1>2. todo \subseteq run[r].todo /\ todo \subseteq Alerts
  BY DEF MailTyped, TypeOK
<1> HIDE DEF todo
<1> SUFFICES ASSUME Calm PROVE (FreeIsBlank /\ OneRun /\ TodoUnmailed /\ GroupPending /\ MailedOnce)'
  BY <1>1 DEF OnceInv, Calm, Spared
<1>3. FreeIsBlank /\ OneRun /\ TodoUnmailed /\ GroupPending /\ MailedOnce
  BY DEF OnceInv
<1>4. \A q \in Runs \ {r} : run[q] = NoRun
  BY <1>1, OthersIdle
<1>5. /\ run'[r].todo = todo /\ run'[r].pc # "mark"
      /\ \A q \in Runs \ {r} : run'[q] = NoRun
  BY <1>1, <1>2, <1>4, NextUserTodo
<1>6. \A a \in Alerts : ~Mailing(a)
  BY <1>1, <1>4, IdleRun DEF Mailing
<1>7. digests' = digests
  BY <1>1 DEF Fault, Calm, Spared
<1>8. FreeIsBlank' /\ OneRun'
  BY <1>1, <1>3, <1>5, <1>7 DEF FreeIsBlank, OneRun, ledger
<1>9. TodoUnmailed' /\ GroupPending'
  BY <1>1, <1>2, <1>3, <1>5, <1>7, IdleRun DEF TodoUnmailed, GroupPending
<1>10. MailedOnce'
  BY <1>1, <1>3, <1>6, <1>7 DEF MailedOnce
<1> QED
  BY <1>8, <1>9, <1>10

LEMMA MarkOnce ==
    ASSUME MailTyped, MailInv, OnceInv, NEW r \in Runs, Mark(r)
    PROVE  OnceInv'
<1> DEFINE rows == run[r].group
           todo == run[r].todo
<1>1. /\ run[r].pc = "mark"
      /\ \/ /\ \A a \in rows : digest[a] # "none"
            /\ digest' = [a \in Alerts |-> IF a \in rows THEN "SENT" ELSE digest[a]]
         \/ \E a \in rows : digest[a] = "none"
      /\ NextUser(r, todo)
      /\ UNCHANGED <<ledger, digests, mode>>
  BY DEF Mark
<1>2. todo \subseteq Alerts /\ rows \subseteq Alerts
  BY DEF MailTyped, TypeOK
<1> SUFFICES ASSUME Calm PROVE (FreeIsBlank /\ OneRun /\ TodoUnmailed /\ GroupPending /\ MailedOnce)'
  BY <1>1 DEF OnceInv, Calm, Spared
<1>3. FreeIsBlank /\ OneRun /\ TodoUnmailed /\ GroupPending /\ MailedOnce
  BY DEF OnceInv
<1>4. \A q \in Runs \ {r} : run[q] = NoRun
  BY <1>1, OthersIdle
<1>5. /\ run'[r].todo = todo /\ run'[r].pc # "mark"
      /\ \A q \in Runs \ {r} : run'[q] = NoRun
  BY <1>1, <1>2, <1>4, NextUserTodo
<1>6. /\ \A a \in rows : digest[a] = "PENDING" /\ digests[a] > 0
      /\ \A a \in todo : digest[a] = "PENDING" /\ digests[a] = 0
  BY <1>1, <1>3 DEF GroupPending, TodoUnmailed, MailInv, MarkedIsMailed
<1>7. \A a \in Alerts : digest'[a] = IF a \in rows THEN "SENT" ELSE digest[a]
  BY <1>1, <1>6
<1>8. \A a \in Alerts : Mailing(a) => a \in rows
  BY <1>4, IdleRun DEF Mailing
<1>9. FreeIsBlank' /\ OneRun'
  BY <1>1, <1>2, <1>3, <1>5, <1>6, <1>7 DEF FreeIsBlank, OneRun, ledger
<1>10. TodoUnmailed'
  BY <1>1, <1>2, <1>5, <1>6, <1>7, IdleRun DEF TodoUnmailed
<1>11. GroupPending'
  BY <1>5, IdleRun DEF GroupPending
<1>12. MailedOnce'
  BY <1>1, <1>3, <1>7, <1>8 DEF MailedOnce
<1> QED
  BY <1>9, <1>10, <1>11, <1>12

\* The steps that Calm rules out.
LEMMA NotCalm ==
    ASSUME ~Calm, mode' = mode
    PROVE  OnceInv'
BY DEF OnceInv, Calm, Spared

LEMMA OnceNext == MailTyped /\ MailInv /\ OnceInv /\ [Next]_vars => OnceInv'
<1> SUFFICES ASSUME MailTyped, MailInv, OnceInv, [Next]_vars
             PROVE  OnceInv'
  OBVIOUS
<1>1. CASE UNCHANGED vars
  BY <1>1, OnceKept DEF vars, ledger
<1>2. CASE \E e \in Endpoints, a \in Alerts : Trigger(e, a)
  BY <1>2, TriggerOnce
<1>3. CASE \E a \in Alerts : \/ Resolve(a) \/ Announce(a) \/ JobNext(a) \/ Stall(a)
                             \/ Forward(a) \/ ForwardRefused(a)
  <2>1. UNCHANGED <<digestVars, mode>>
    BY <1>3 DEF Resolve, Announce, JobNext, Fetch, SendRecovery, SendRecoveryFails, Complete, Stall,
                Forward, ForwardRefused
  <2>2. alert' = alert \/ \E a \in Alerts : alert' = [alert EXCEPT ![a] = "RESOLVED"]
    BY <1>3 DEF Resolve, Ledger!Resolve, Announce, Ledger!Announce, JobNext, Fetch, SendRecovery,
                SendRecoveryFails, Complete, Stall, Forward, ForwardRefused, ledger
  <2>3. \A a \in Alerts : alert'[a] = "free" => alert[a] = "free"
    BY <2>2 DEF MailTyped
  <2> QED
    BY <2>1, <2>3, OnceKept
<1>4. CASE ApiStops \/ ApiStarts
  BY <1>4, OnceKept DEF ApiStops, ApiStarts, ledger
<1>5. CASE DigestCrash \/ (\E e \in Endpoints : Delete(e)) \/ (\E r \in Runs : MarkFails(r))
  <2>1. ~Calm /\ mode' = mode
    BY <1>5 DEF DigestCrash, Delete, MarkFails, Fault, Calm, Spared
  <2> QED
    BY <2>1, NotCalm
<1>6. CASE \E r \in Runs : Tick(r) \/ Mark(r) \/ \E u \in Users : SendDigest(r, u) \/ SendDigestFails(r, u)
  BY <1>6, TickOnce, MarkOnce, SendDigestOnce, SendDigestFailsOnce
<1> QED
  BY <1>1, <1>2, <1>3, <1>4, <1>5, <1>6 DEF Next, RunNext

\* An alert is in one digest mail only, for any alerts, owners and runs, unless
\* runs overlap, a call fails, the worker dies or an endpoint is deleted.
THEOREM OneDigestPerAlert == Spec => []DigestAtMostOnce
<1>1. OnceInv => DigestAtMostOnce
  BY DEF OnceInv, Calm, MailedOnce, DigestAtMostOnce
<1> QED
  BY <1>1, MailTypedInit, MailTypedNext, MailInvInit, MailInvNext, OnceInit, OnceNext, PTL DEF Spec
=============================================================================
