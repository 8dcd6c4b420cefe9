--------------------------- MODULE MetricWriter ---------------------------
(***************************************************************************)
(* The dbWrite worker, workers/dbWrite/index.ts: metricWrite jobs are       *)
(* collected in memory and flushed in batches, by the job that fills the    *)
(* batch, by a timer, or by shutdown.  A job counts as done once its row is *)
(* in memory, so everything here is about the rows that are not stored yet. *)
(*                                                                         *)
(* A flush takes rows out of the batch, awaits the INSERT, and puts them    *)
(* back in front when it is rejected.  setInterval does not await the flush *)
(* it starts: several can be in flight at once.                             *)
(***************************************************************************)
EXTENDS Naturals, Sequences, FiniteSets, Functions

CONSTANTS
    Rows,           \* metricWrite jobs, each with its one row
    Endpoints,
    EndpointOf,     \* EndpointOf[r]: the endpoint row r is about
    Cap,            \* BATCH_SIZE_CAP
    Timers,         \* flushes of the timer that can be in flight at once
    MaxAttempts,    \* BullMQ attempts of a metricWrite job
    MaxErrors,      \* database rejections in one behaviour (a bound)
    FaultSets       \* the combinations of faults to run under

FaultKinds == {"error",     \* the database rejects an INSERT, applied or not
               "delete",    \* an endpoint is deleted
               "crash",     \* the process dies
               "signal"}    \* SIGTERM: shutdown()

Flushes == Timers \cup {"worker", "shutdown"}

ASSUME RowsAssumption   == EndpointOf \in [Rows -> Endpoints]
ASSUME CapAssumption    == Cap \in Nat \ {0}
ASSUME TimersAssumption == "worker" \notin Timers /\ "shutdown" \notin Timers
ASSUME BoundsAssumption == MaxAttempts \in Nat \ {0} /\ MaxErrors \in Nat
ASSUME FaultsAssumption == FaultSets \subseteq SUBSET FaultKinds

VARIABLES
    job,        \* job[r]: "new", "waiting", "active", "done" or "failed"
    attempts,   \* attempts[r]: attempts job r has used up
    batch,      \* the rows collected, a sequence
    flight,     \* flight[f]: the rows flush f has taken, <<>> if it is idle
    stored,     \* the jobs whose row is in endpoint_metrics
    endpoints,  \* rows of the Endpoint table
    phase,      \* of the process, see Phases
    errors,     \* database rejections so far
    faults      \* what can go wrong in this behaviour, fixed at the start

queueVars == <<job, attempts>>
memory == <<batch, flight>>
vars == <<queueVars, memory, stored, endpoints, phase, errors, faults>>

\* "closing": shutdown awaits worker.close(); "flushing": its flushBatch();
\* "ending": pool.end(), which waits for the queries in flight.
Phases == {"running", "closing", "flushing", "ending", "down"}

Init ==
    /\ job = [r \in Rows |-> "new"]
    /\ attempts = [r \in Rows |-> 0]
    /\ batch = <<>>
    /\ flight = [f \in Flushes |-> <<>>]
    /\ stored = {}
    /\ endpoints = Endpoints
    /\ phase = "running"
    /\ errors = 0
    /\ faults \in FaultSets

---------------------------------------------------------------------------
InFlight == UNION {Range(flight[f]) : f \in Flushes}

\* splice(0, Cap) of rows by flush f: the first Cap leave, the rest stay.
Splice(f, rows) ==
    LET n == IF Len(rows) < Cap THEN Len(rows) ELSE Cap
    IN  /\ flight' = [flight EXCEPT ![f] = SubSeq(rows, 1, n)]
        /\ batch' = SubSeq(rows, n + 1, Len(rows))

\* INSERT ... ON CONFLICT (endpoint_id, timestamp) DO NOTHING: a row that is
\* there already stays, with the timestamp of its job as its key.
Insert(rows) == stored \cup rows

\* The foreign key: one row of a deleted endpoint rejects the statement.
Insertable(rows) == \A r \in rows : EndpointOf[r] \in endpoints

\* Faulty: no limit on the attempts.
RetryJobForever(r) ==
    /\ attempts' = [attempts EXCEPT ![r] = attempts[r] + 1]
    /\ job' = [job EXCEPT ![r] = "waiting"]

\* Job r threw: BullMQ delays it for another attempt or fails it for good.
RetryJob(r) ==
    /\ attempts' = [attempts EXCEPT ![r] = attempts[r] + 1]
    /\ job' = [job EXCEPT ![r] = IF attempts[r] + 1 < MaxAttempts THEN "waiting" ELSE "failed"]

---------------------------------------------------------------------------
\* dbWriteQueue.add by a ping of an endpoint that exists, or did when pinged.
Add(r) ==
    /\ job[r] = "new"
    /\ job' = [job EXCEPT ![r] = "waiting"]
    /\ UNCHANGED <<attempts, memory, stored, endpoints, phase, errors, faults>>

\* Faulty: flushes only a batch that has outgrown the cap.
CollectPastCap(r) ==
    LET rows == Append(batch, r) IN
    /\ phase = "running"
    /\ job[r] = "waiting"
    /\ \A q \in Rows : job[q] # "active"
    /\ \/ /\ Len(rows) > Cap
          /\ Splice("worker", rows)
          /\ job' = [job EXCEPT ![r] = "active"]
       \/ /\ Len(rows) <= Cap
          /\ batch' = rows
          /\ job' = [job EXCEPT ![r] = "done"]
          /\ UNCHANGED flight
    /\ UNCHANGED <<attempts, stored, endpoints, phase, errors, faults>>

\* The processor of the queue, one job at a time.  The job is done when its
\* row is pushed, unless that fills the batch: then it awaits the flush.
Collect(r) ==
    LET rows == Append(batch, r) IN
    /\ phase = "running"
    /\ job[r] = "waiting"
    /\ \A q \in Rows : job[q] # "active"
    /\ \/ /\ Len(rows) >= Cap
          /\ Splice("worker", rows)
          /\ job' = [job EXCEPT ![r] = "active"]
       \/ /\ Len(rows) < Cap
          /\ batch' = rows
          /\ job' = [job EXCEPT ![r] = "done"]
          /\ UNCHANGED flight
    /\ UNCHANGED <<attempts, stored, endpoints, phase, errors, faults>>

\* Faulty: the timer waits for a full batch.
TimerFlushFull(f) ==
    /\ phase = "running"
    /\ f \in Timers
    /\ flight[f] = <<>>
    /\ Len(batch) >= Cap
    /\ Splice(f, batch)
    /\ UNCHANGED <<queueVars, stored, endpoints, phase, errors, faults>>

\* The timer fires; an empty batch is left alone.
TimerFlush(f) ==
    /\ phase = "running"
    /\ f \in Timers
    /\ flight[f] = <<>>
    /\ batch # <<>>
    /\ Splice(f, batch)
    /\ UNCHANGED <<queueVars, stored, endpoints, phase, errors, faults>>

\* The INSERT of flush f returns.
FlushSucceeds(f) ==
    /\ flight[f] # <<>>
    /\ Insertable(Range(flight[f]))
    /\ stored' = Insert(Range(flight[f]))
    /\ flight' = [flight EXCEPT ![f] = <<>>]
    /\ job' = IF f = "worker"
              THEN [r \in Rows |-> IF job[r] = "active" THEN "done" ELSE job[r]]
              ELSE job
    /\ phase' = IF f = "shutdown" THEN "ending" ELSE phase
    /\ UNCHANGED <<attempts, batch, endpoints, errors, faults>>

\* Faulty: the rows of a rejected INSERT are dropped.
PutNothingBack(f) ==
    /\ f # "shutdown"
    /\ flight' = [flight EXCEPT ![f] = <<>>]
    /\ \/ f = "worker" /\ \E r \in Rows : job[r] = "active" /\ RetryJob(r)
       \/ f # "worker" /\ UNCHANGED queueVars
    /\ UNCHANGED <<batch, phase>>

\* It is rejected: the rows go back in front of the batch, and the worker's
\* job fails with it.  The timer's callback swallows the error.
PutBack(f) ==
    /\ f # "shutdown"
    /\ batch' = flight[f] \o batch
    /\ flight' = [flight EXCEPT ![f] = <<>>]
    /\ \/ f = "worker" /\ \E r \in Rows : job[r] = "active" /\ RetryJob(r)
       \/ f # "worker" /\ UNCHANGED queueVars
    /\ UNCHANGED phase

\* Death empties the memory; BullMQ delivers the active job once more, or
\* fails it when it has stalled before.
Die ==
    /\ phase' = "down"
    /\ batch' = <<>>
    /\ flight' = [f \in Flushes |-> <<>>]
    /\ \E s \in {"waiting", "failed"} :
          job' = [r \in Rows |-> IF job[r] = "active" THEN s ELSE job[r]]
    /\ UNCHANGED attempts

\* A rejection of the INSERT of f; that of shutdown is an unhandled rejection
\* and ends the process.
FlushRejected(f) ==
    /\ flight[f] # <<>>
    /\ PutBack(f) \/ (f = "shutdown" /\ Die)

ForeignKeyFails(f) ==
    /\ ~Insertable(Range(flight[f]))
    /\ FlushRejected(f)
    /\ UNCHANGED <<stored, endpoints, errors, faults>>

DatabaseFails(f) ==
    /\ "error" \in faults
    /\ errors < MaxErrors
    /\ errors' = errors + 1
    /\ FlushRejected(f)
    /\ \/ UNCHANGED stored
       \/ Insertable(Range(flight[f])) /\ stored' = Insert(Range(flight[f]))
    /\ UNCHANGED <<endpoints, faults>>

---------------------------------------------------------------------------
\* shutdown(): clearInterval, then worker.close(), which lets the active job
\* finish ...
Signal ==
    /\ "signal" \in faults
    /\ phase = "running"
    /\ phase' = "closing"
    /\ UNCHANGED <<queueVars, memory, stored, endpoints, errors, faults>>

\* ... then one flushBatch() ...
ShutdownFlush ==
    /\ phase = "closing"
    /\ \A r \in Rows : job[r] # "active"
    /\ \/ /\ batch = <<>>
          /\ phase' = "ending"
          /\ UNCHANGED memory
       \/ /\ batch # <<>>
          /\ phase' = "flushing"
          /\ Splice("shutdown", batch)
    /\ UNCHANGED <<queueVars, stored, endpoints, errors, faults>>

\* Faulty: process.exit without awaiting pool.end().
ExitAtOnce ==
    /\ phase = "ending"
    /\ Die
    /\ UNCHANGED <<stored, endpoints, errors, faults>>

\* ... then pool.end() and exit.
Exit ==
    /\ phase = "ending"
    /\ InFlight = {}
    /\ Die
    /\ UNCHANGED <<stored, endpoints, errors, faults>>

\* Any of the INSERTs in flight may still be applied by the database.
Crash ==
    /\ "crash" \in faults
    /\ phase # "down"
    /\ \E F \in SUBSET {f \in Flushes : Insertable(Range(flight[f]))} :
          stored' = Insert(UNION {Range(flight[f]) : f \in F})
    /\ Die
    /\ UNCHANGED <<endpoints, errors, faults>>

Restart ==
    /\ phase = "down"
    /\ phase' = "running"
    /\ UNCHANGED <<queueVars, memory, stored, endpoints, errors, faults>>

\* deleteEndpoint; ON DELETE CASCADE takes the rows stored.
DeleteEndpoint(e) ==
    /\ "delete" \in faults
    /\ e \in endpoints
    /\ endpoints' = endpoints \ {e}
    /\ stored' = {r \in stored : EndpointOf[r] # e}
    /\ UNCHANGED <<queueVars, memory, phase, errors, faults>>

---------------------------------------------------------------------------
FlushNext(f) == FlushSucceeds(f) \/ ForeignKeyFails(f) \/ DatabaseFails(f)

ProcessNext == Signal \/ ShutdownFlush \/ Exit \/ Crash \/ Restart

Next ==
    \/ \E r \in Rows : Add(r) \/ Collect(r)
    \/ \E f \in Flushes : TimerFlush(f) \/ FlushNext(f)
    \/ \E e \in Endpoints : DeleteEndpoint(e)
    \/ ProcessNext

Spec == Init /\ [][Next]_vars

\* BullMQ delivers what waits, the interval fires, every INSERT is answered,
\* and a container that exited is started again (restart: unless-stopped).
Fairness ==
    /\ \A r \in Rows : SF_vars(Collect(r))
    /\ \A f \in Flushes : WF_vars(TimerFlush(f)) /\ WF_vars(FlushNext(f))
    /\ WF_vars(ShutdownFlush) /\ WF_vars(Exit) /\ WF_vars(Restart)

FairSpec == Spec /\ Fairness
---------------------------------------------------------------------------
TypeOK ==
    /\ job \in [Rows -> {"new", "waiting", "active", "done", "failed"}]
    /\ attempts \in [Rows -> 0..MaxAttempts]
    /\ batch \in Seq(Rows)
    /\ flight \in [Flushes -> Seq(Rows)]
    /\ stored \subseteq Rows
    /\ endpoints \subseteq Endpoints
    /\ phase \in Phases
    /\ errors \in 0..MaxErrors
    /\ faults \in FaultSets

Held(r) == r \in Range(batch) \cup InFlight

Kept(r) == r \in stored \/ Held(r) \/ EndpointOf[r] \notin endpoints

Spared(kinds) == faults \cap kinds = {}

\* While the process lives, the row of every job that BullMQ has put behind
\* it, completed or failed for good, is stored or still in memory: no flush,
\* however it ends and whatever runs beside it, drops a row.
NoSilentLoss ==
    Spared({"crash", "signal"}) =>
        \A r \in Rows : job[r] \in {"done", "failed"} => Kept(r)

\* The rows among these that a crash would lose: BullMQ is done with their jobs
\* and will not deliver them again.
AtRisk(rows) == {r \in Range(rows) : job[r] = "done" /\ r \notin stored}

\* What a crash may lose is limited, although a job completes when its row is in
\* memory (dbWrite/index.ts:88-91): less than one batch of rows collected, and
\* less than one for each flush in flight.  The row that fills a batch is not
\* among them, since its job is only completed with the INSERT.
CrashLosesLessThanABatch ==
    Spared({"error", "delete"}) =>
        \A rows \in {batch} \cup {flight[f] : f \in Flushes} : Cardinality(AtRisk(rows)) < Cap

\* A shutdown that gets through "flushing remaining batch" to "shutdown
\* complete" (dbWrite/index.ts:122-127) leaves nothing behind: the row of every
\* completed job is in the table.
CleanExit ==
    phase = "ending" /\ phase' = "down" =>
        \A r \in Rows : job[r] = "done" => r \in stored \/ EndpointOf[r] \notin endpoints

ShutdownLosesNothing == [][CleanExit]_vars

\* It does as long as no INSERT is rejected.
ShutdownPersists == [][Spared({"crash", "error", "delete"}) => CleanExit]_vars

\* A row that was queued is stored in the end, unless its endpoint is deleted:
\* "At least 1 metric row" of an endpoint that was pinged (test/e2e.ts:354).
Settled(r) == r \in stored \/ EndpointOf[r] \notin endpoints

EveryRowIsStored == \A r \in Rows : job[r] # "new" ~> Settled(r)

\* It is when no endpoint is deleted and no process crashes, however often the
\* database rejects it first, or however often the process is shut down.
EventuallyStored ==
    Spared({"crash", "delete"}) /\ ~({"error", "signal"} \subseteq faults) =>
        \A r \in Rows : job[r] # "new" ~> Settled(r)
=============================================================================
