----------------------------- MODULE AlertMail -----------------------------
(***************************************************************************)
(* What becomes of an alert once the ledger has it: the digest worker       *)
(* (workers/digest), the recovery mail worker (workers/alert) and the dead  *)
(* letter forwarder of the API (api/src/queues/pingQueue.ts), composed with *)
(* AlertLedger, the abstract form of the ping worker.                       *)
(*                                                                         *)
(* Every alert comes with a PENDING digest row; a run of the digest worker  *)
(* mails each user's rows and marks them SENT afterwards.  Every announced  *)
(* recovery is a job of the recovery queue.                                 *)
(***************************************************************************)
EXTENDS Naturals, Sequences, Functions

CONSTANTS
    Endpoints, Alerts,
    Users,
    Runs,           \* digest runs that can be under way at once
    MaxAttempts,    \* BullMQ attempts of a recovery job
    FailedKept,     \* failed recovery jobs the queue keeps, removeOnFail
    MaxFaults,      \* errors and crashes of a behaviour (a bound)
    Modes           \* the modes to run under

FaultKinds == {"error",     \* the mail server or the database rejects a call
               "crash",     \* a worker dies, or its job stalls; SIGTERM ends
                            \* the digest worker the same way
               "delete",    \* an endpoint is deleted
               "refused",   \* ping-dlq refuses a job
               "apiDown"}   \* the API process is down for a while

ASSUME BoundsAssumption ==
    MaxAttempts \in Nat \ {0} /\ FailedKept \in Nat \ {0} /\ MaxFaults \in Nat
ASSUME ModesAssumption ==
    Modes \subseteq [userOf : [Endpoints -> Users], overlap : BOOLEAN, lasting : BOOLEAN,
                     faults : SUBSET FaultKinds, bounced : SUBSET Users]

VARIABLES
    alert, alertOf, announced,  \* the ledger
    digest,     \* digest[a]: the AlertDigest row of a, "none", "PENDING", "SENT"
    digests,    \* digests[a]: digest mails that named a, 2 for more than one
    run,        \* run[r]: a call of runDigest
    job,        \* job[a]: the recovery job of a
    recoveries, \* recoveries[a]: recovery mails about a, 2 for more than one
    events,     \* recovery jobs whose 'failed' event the API has yet to hear
    kept,       \* the failed recovery jobs still in the queue, oldest first
    dlq,        \* recovery jobs in ping-dlq
    apiUp,
    count,      \* errors and crashes so far
    mode        \* owners, overlap of runs, outages that last, faults, and the
                \* users whose mailbox refuses every mail; fixed at the start

ledger == <<alert, alertOf, announced>>
digestVars == <<digest, digests, run>>
queueVars == <<job, recoveries>>
deadVars == <<events, kept, dlq, apiUp>>
vars == <<ledger, digestVars, queueVars, deadVars, count, mode>>

Ledger == INSTANCE AlertLedger

NoRun == [pc |-> "idle", todo |-> {}, group |-> {}]
NoJob == [state |-> "none", attempts |-> 0, stalled |-> FALSE]

Init ==
    /\ Ledger!Init
    /\ alertOf = [a \in Alerts |-> CHOOSE e \in Endpoints : TRUE]   \* set by Trigger
    /\ digest = [a \in Alerts |-> "none"]
    /\ digests = [a \in Alerts |-> 0]
    /\ run = [r \in Runs |-> NoRun]
    /\ job = [a \in Alerts |-> NoJob]
    /\ recoveries = [a \in Alerts |-> 0]
    /\ events = {}
    /\ kept = <<>>
    /\ dlq = {}
    /\ apiUp = TRUE
    /\ count = 0
    /\ mode \in Modes

---------------------------------------------------------------------------
Owner(a) == mode.userOf[alertOf[a]]
Gone(a) == alert[a] = "deleted"
Pending == {a \in Alerts : digest[a] = "PENDING"}

OneMore(mails, A) ==
    [a \in Alerts |-> IF a \in A /\ mails[a] < 2 THEN mails[a] + 1 ELSE mails[a]]

\* One of the faults of the mode happens.
Fault(kind) ==
    /\ kind \in mode.faults
    /\ count < MaxFaults
    /\ count' = count + 1

---------------------------------------------------------------------------
\* The ping worker's side.  An alert and its digest row are one transaction.
Trigger(e, a) ==
    /\ \A b \in Alerts : alertOf[b] = e => ~Gone(b)
    /\ Ledger!Trigger(e, a)
    /\ digest' = [digest EXCEPT ![a] = "PENDING"]
    /\ UNCHANGED <<digests, run, queueVars, deadVars, count, mode>>

Resolve(a) ==
    /\ ~mode.lasting
    /\ Ledger!Resolve(a)
    /\ UNCHANGED <<digestVars, queueVars, deadVars, count, mode>>

Announce(a) ==
    /\ ~mode.lasting /\ a \notin announced
    /\ Ledger!Announce(a)
    /\ job' = [job EXCEPT ![a].state = "waiting"]
    /\ UNCHANGED <<digestVars, recoveries, deadVars, count, mode>>

\* ON DELETE CASCADE takes the digest rows; queued jobs stay.
Delete(e) ==
    /\ "delete" \in mode.faults
    /\ \E a \in Alerts : alertOf[a] = e /\ alert[a] \in {"TRIGGERED", "RESOLVED"}
    /\ Ledger!Delete(e)
    /\ digest' = [a \in Alerts |-> IF alertOf[a] = e THEN "none" ELSE digest[a]]
    /\ UNCHANGED <<digests, run, queueVars, deadVars, count, mode>>

---------------------------------------------------------------------------
\* Faulty: the run is about every row.
TickAll(r) ==
    /\ run[r] = NoRun
    /\ mode.overlap \/ \A q \in Runs : run[q] = NoRun
    /\ Pending # {}
    /\ run' = [run EXCEPT ![r] = [pc |-> "next", todo |-> {a \in Alerts : digest[a] # "none"}, group |-> {}]]
    /\ UNCHANGED <<ledger, digest, digests, queueVars, deadVars, count, mode>>

\* A tick, at startup or every five minutes: the PENDING rows are read.  It is
\* not held back by a run that is still going.
Tick(r) ==
    /\ run[r] = NoRun
    /\ mode.overlap \/ \A q \in Runs : run[q] = NoRun
    /\ Pending # {}
    /\ run' = [run EXCEPT ![r] = [pc |-> "next", todo |-> Pending, group |-> {}]]
    /\ UNCHANGED <<ledger, digest, digests, queueVars, deadVars, count, mode>>

\* The loop goes on with the users left, if any; their order is left open.
NextUser(r, todo) ==
    run' = [run EXCEPT ![r] =
               IF todo = {} THEN NoRun ELSE [pc |-> "next", todo |-> todo, group |-> {}]]

RowsOf(r, u) == {a \in run[r].todo : Owner(a) = u}

\* sendDigestEmail to user u: one mail about all its rows.
SendDigest(r, u) ==
    LET group == RowsOf(r, u) IN
    /\ run[r].pc = "next"
    /\ group # {}
    /\ u \notin mode.bounced
    /\ digests' = OneMore(digests, group)
    /\ run' = [run EXCEPT ![r] = [pc |-> "mark", todo |-> run[r].todo \ group, group |-> group]]
    /\ UNCHANGED <<ledger, digest, queueVars, deadVars, count, mode>>

\* Faulty: a mail that fails ends the run.
SendDigestStops(r, u) ==
    /\ run[r].pc = "next"
    /\ RowsOf(r, u) # {}
    /\ \/ u \in mode.bounced /\ UNCHANGED <<digests, count>>
       \/ Fault("error") /\ UNCHANGED digests
    /\ NextUser(r, {})
    /\ UNCHANGED <<ledger, digest, queueVars, deadVars, mode>>

\* It throws, before or after the mail server took the mail: the transaction
\* is skipped and the next user's turn comes.
SendDigestFails(r, u) ==
    LET group == RowsOf(r, u) IN
    /\ run[r].pc = "next"
    /\ group # {}
    /\ \/ u \in mode.bounced /\ UNCHANGED <<digests, count>>
       \/ Fault("error") /\ (UNCHANGED digests \/ digests' = OneMore(digests, group))
    /\ NextUser(r, run[r].todo \ group)
    /\ UNCHANGED <<ledger, digest, queueVars, deadVars, mode>>

\* Faulty: marks what the run has read, mailed or not.
MarkEverything(r) ==
    LET rows == run[r].group \cup run[r].todo IN
    /\ run[r].pc = "mark"
    /\ digest' = [a \in Alerts |-> IF a \in rows /\ digest[a] # "none" THEN "SENT" ELSE digest[a]]
    /\ NextUser(r, run[r].todo)
    /\ UNCHANGED <<ledger, digests, queueVars, deadVars, count, mode>>

\* The transaction marks the rows just mailed, all of them or, when one was
\* deleted meanwhile, none.
Mark(r) ==
    LET rows == run[r].group IN
    /\ run[r].pc = "mark"
    /\ \/ /\ \A a \in rows : digest[a] # "none"
          /\ digest' = [a \in Alerts |-> IF a \in rows THEN "SENT" ELSE digest[a]]
       \/ /\ \E a \in rows : digest[a] = "none"
          /\ UNCHANGED digest
    /\ NextUser(r, run[r].todo)
    /\ UNCHANGED <<ledger, digests, queueVars, deadVars, count, mode>>

MarkFails(r) ==
    /\ run[r].pc = "mark"
    /\ Fault("error")
    /\ NextUser(r, run[r].todo)
    /\ UNCHANGED <<ledger, digest, digests, queueVars, deadVars, mode>>

\* The digest worker dies: process.exit(0) on SIGTERM waits for no run.
DigestCrash ==
    /\ \E r \in Runs : run[r] # NoRun
    /\ Fault("crash")
    /\ run' = [r \in Runs |-> NoRun]
    /\ UNCHANGED <<ledger, digest, digests, queueVars, deadVars, mode>>

---------------------------------------------------------------------------
SetJob(a, state) == job' = [job EXCEPT ![a].state = state]

\* The alert worker takes job a and fetches user and endpoint; one that is
\* gone, and not cached any more, has nothing to mail.
Fetch(a) ==
    /\ job[a].state = "waiting"
    /\ SetJob(a, "send") \/ (Gone(a) /\ SetJob(a, "done"))
    /\ UNCHANGED <<ledger, digestVars, recoveries, deadVars, count, mode>>

SendRecovery(a) ==
    /\ job[a].state = "send"
    /\ Owner(a) \notin mode.bounced
    /\ recoveries' = OneMore(recoveries, {a})
    /\ SetJob(a, "sent")
    /\ UNCHANGED <<ledger, digestVars, deadVars, count, mode>>

Complete(a) ==
    /\ job[a].state = "sent"
    /\ job' = [job EXCEPT ![a] = [NoJob EXCEPT !.state = "done"]]
    /\ UNCHANGED <<ledger, digestVars, recoveries, deadVars, count, mode>>

\* The job fails for good.  The queue keeps it, and drops the oldest beyond its
\* limit; the event reaches the API only while it listens.
FailForGood(a) ==
    /\ events' = IF apiUp THEN events \cup {a} ELSE events
    /\ kept' = Append(IF Len(kept) < FailedKept THEN kept ELSE Tail(kept), a)

\* Faulty: no limit on the attempts.
RetryForever(a) ==
    /\ job' = [job EXCEPT ![a].attempts = job[a].attempts + 1, ![a].state = "waiting"]
    /\ UNCHANGED <<events, kept>>

\* Faulty: a queue without the option "attempts" gives a job one.
RetryNever(a) ==
    /\ job' = [job EXCEPT ![a].attempts = job[a].attempts + 1, ![a].state = "failed"]
    /\ FailForGood(a)

\* It throws: another attempt after a delay, up to MaxAttempts.
Retry(a) ==
    LET tries == job[a].attempts + 1 IN
    /\ job' = [job EXCEPT ![a].attempts = tries,
                          ![a].state = IF tries < MaxAttempts THEN "waiting" ELSE "failed"]
    /\ \/ tries < MaxAttempts /\ UNCHANGED <<events, kept>>
       \/ tries >= MaxAttempts /\ FailForGood(a)

SendRecoveryFails(a) ==
    /\ job[a].state = "send"
    /\ \/ Owner(a) \in mode.bounced /\ UNCHANGED <<recoveries, count>>
       \/ Fault("error") /\ (UNCHANGED recoveries \/ recoveries' = OneMore(recoveries, {a}))
    /\ Retry(a)
    /\ UNCHANGED <<ledger, digestVars, dlq, apiUp, mode>>

\* The worker dies with the job: BullMQ delivers it once more, and fails it
\* when it stalls again, whatever attempts it has left.
Stall(a) ==
    /\ job[a].state \in {"send", "sent"}
    /\ Fault("crash")
    /\ \/ /\ ~job[a].stalled
          /\ job' = [job EXCEPT ![a].state = "waiting", ![a].stalled = TRUE]
          /\ UNCHANGED <<events, kept>>
       \/ /\ job[a].stalled
          /\ SetJob(a, "failed")
          /\ FailForGood(a)
    /\ UNCHANGED <<ledger, digestVars, recoveries, dlq, apiUp, mode>>

---------------------------------------------------------------------------
\* Faulty: takes the last attempt for one too few.
ForwardBeyond(a) ==
    /\ a \in events
    /\ events' = events \ {a}
    /\ dlq' = IF a \in Range(kept) /\ job[a].attempts > MaxAttempts THEN dlq \cup {a} ELSE dlq
    /\ UNCHANGED <<ledger, digestVars, queueVars, kept, apiUp, count, mode>>

\* The listener of the API: a job that the queue has dropped, or that has
\* attempts left, is not forwarded.
Forward(a) ==
    /\ a \in events
    /\ events' = events \ {a}
    /\ dlq' = IF a \in Range(kept) /\ job[a].attempts >= MaxAttempts THEN dlq \cup {a} ELSE dlq
    /\ UNCHANGED <<ledger, digestVars, queueVars, kept, apiUp, count, mode>>

\* deadLetterQueue.add throws: logged, and that is all.
ForwardRefused(a) ==
    /\ "refused" \in mode.faults
    /\ a \in events
    /\ a \in Range(kept) /\ job[a].attempts >= MaxAttempts
    /\ events' = events \ {a}
    /\ UNCHANGED <<ledger, digestVars, queueVars, kept, dlq, apiUp, count, mode>>

ApiStops ==
    /\ "apiDown" \in mode.faults
    /\ apiUp
    /\ apiUp' = FALSE
    /\ events' = {}
    /\ UNCHANGED <<ledger, digestVars, queueVars, kept, dlq, count, mode>>

\* startDeadLetterForwarder: listens from now on.
ApiStarts ==
    /\ ~apiUp
    /\ apiUp' = TRUE
    /\ UNCHANGED <<ledger, digestVars, queueVars, events, kept, dlq, count, mode>>

---------------------------------------------------------------------------
RunNext(r) ==
    \/ \E u \in Users : SendDigest(r, u) \/ SendDigestFails(r, u)
    \/ Mark(r) \/ MarkFails(r)

JobNext(a) == Fetch(a) \/ SendRecovery(a) \/ SendRecoveryFails(a) \/ Complete(a)

Next ==
    \/ \E e \in Endpoints : Delete(e) \/ \E a \in Alerts : Trigger(e, a)
    \/ \E r \in Runs : Tick(r) \/ RunNext(r)
    \/ \E a \in Alerts : \/ Resolve(a) \/ Announce(a) \/ JobNext(a) \/ Stall(a)
                         \/ Forward(a) \/ ForwardRefused(a)
    \/ DigestCrash \/ ApiStops \/ ApiStarts

Spec == Init /\ [][Next]_vars

\* The interval fires, every call is answered, BullMQ delivers what waits.
Fairness ==
    /\ WF_vars(\E r \in Runs : Tick(r))
    /\ \A r \in Runs : WF_vars(RunNext(r))
    /\ \A a \in Alerts : WF_vars(JobNext(a))

FairSpec == Spec /\ Fairness
---------------------------------------------------------------------------
\* Every variable has its type.
TypeOK ==
    /\ digest \in [Alerts -> {"none", "PENDING", "SENT"}]
    /\ digests \in [Alerts -> 0..2] /\ recoveries \in [Alerts -> 0..2]
    /\ run \in [Runs -> [pc : {"idle", "next", "mark"}, todo : SUBSET Alerts, group : SUBSET Alerts]]
    /\ job \in [Alerts -> [state : {"none", "waiting", "send", "sent", "done", "failed"},
                           attempts : 0..MaxAttempts, stalled : BOOLEAN]]
    /\ events \subseteq Alerts /\ dlq \subseteq Alerts
    /\ kept \in Seq(Alerts) /\ Len(kept) <= FailedKept
    /\ apiUp \in BOOLEAN /\ count \in 0..MaxFaults /\ mode \in Modes

Spared(kinds) == mode.faults \cap kinds = {}

\* "mark rows SENT only after email succeeded" (digestService.ts:99): no fault,
\* overlap or deletion makes a row SENT that no mail has named.
SentWasMailed == \A a \in Alerts : digest[a] = "SENT" => digests[a] > 0

\* An alert is in one digest only, unless runs overlap, a call fails, the
\* worker dies between mail and transaction, or the deletion of one row rolls
\* the transaction of the others back.
DigestAtMostOnce ==
    ~mode.overlap /\ Spared({"error", "crash", "delete"}) => \A a \in Alerts : digests[a] <= 1

\* A recovery job that BullMQ is done with has mailed the owner, or had nobody
\* to tell, or is in ping-dlq or on its way there, provided no worker dies, the
\* API listens and the queue takes it; what is missing from there was dropped by
\* its own queue, FailedKept later failures having come before the listener.
NoRecoveryUnaccounted ==
    Spared({"crash", "refused", "apiDown"}) =>
        \A a \in Alerts :
            job[a].state \in {"done", "failed"} =>
                \/ recoveries[a] > 0 \/ Gone(a)
                \/ a \in events \cup dlq
                \/ job[a].state = "failed" /\ a \notin Range(kept)

\* Every alert is mailed to its owner in the end, or deleted: failed mails and
\* transactions are "retried on the next cron tick" (digestService.ts:85), and
\* a user whose mailbox refuses everything holds up nobody else's.
AlertIsMailed ==
    \A a \in Alerts :
        digest[a] = "PENDING" /\ Owner(a) \notin mode.bounced ~> digest[a] # "PENDING"

\* A recovery reaches its owner in the end when fewer mails fail than a job
\* has attempts and no worker dies.
RecoveryIsMailed ==
    \A a \in Alerts :
        job[a].state = "waiting" /\ Owner(a) \notin mode.bounced /\ Spared({"crash"})
            ~> recoveries[a] > 0 \/ Gone(a)
=============================================================================
