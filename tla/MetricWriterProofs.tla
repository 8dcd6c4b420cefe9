------------------------- MODULE MetricWriterProofs -------------------------
(***************************************************************************)
(* Proofs that the dbWrite worker, while it lives, loses no row, and that a *)
(* crash loses less than a batch from each place rows are in: for any number *)
(* of jobs, endpoints and timer flushes in flight, any batch size and any   *)
(* number of rejected INSERTs.                                              *)
(***************************************************************************)
EXTENDS MetricWriter, SequenceTheorems, FiniteSetTheorems, FunctionTheorems, TLAPS

---------------------------------------------------------------------------
(* That no row is dropped rests on who may have rows in flight.  A flush    *)
(* overwrites flight[f]: it must find it empty.  For the timers that is a   *)
(* guard; for the worker and for shutdown it follows from FlushOwners.      *)

\* A job that can still run has an attempt left.
AttemptsLeft == \A r \in Rows : job[r] \in {"new", "waiting", "active"} => attempts[r] < MaxAttempts

FlushOwners ==
    /\ flight["worker"] # <<>> => \E r \in Rows : job[r] = "active"
    /\ flight["shutdown"] # <<>> => phase = "flushing"
    /\ Spared({"crash", "signal"}) => phase = "running"

\* Where memory is not wiped before its rows are stored.
Guarded == Spared({"crash", "signal"}) \/ Spared({"crash", "error", "delete"})

RowsKept == Guarded => \A r \in Rows : job[r] \in {"active", "done", "failed"} => Kept(r)

\* Where nothing is put back, every flush empties the batch.  Only the worker's
\* takes as much as Cap rows, and the last of them is that of the active job.
BelowCap ==
    Spared({"error", "delete"}) =>
        /\ endpoints = Endpoints
        /\ Len(batch) < Cap
        /\ \A f \in Flushes : f # "worker" => Len(flight[f]) < Cap
        /\ Len(flight["worker"]) <= Cap
        /\ flight["worker"] # <<>> => \E r \in Range(flight["worker"]) : job[r] = "active"

\* So the one at the end takes all there is.
OneBatchLeft ==
    Spared({"crash", "error", "delete"}) =>
        (phase \notin {"running", "closing"} => batch = <<>>)

WriterInv ==
    TypeOK /\ AttemptsLeft /\ FlushOwners /\ RowsKept /\ BelowCap /\ OneBatchLeft

---------------------------------------------------------------------------
(* The operators.                                                          *)

LEMMA FlushesAre ==
    /\ "worker" \in Flushes /\ "shutdown" \in Flushes
    /\ Timers \subseteq Flushes
    /\ \A f \in Timers : f # "worker" /\ f # "shutdown"
BY TimersAssumption DEF Flushes

LEMMA EmptyRange == Range(<<>>) = {}
BY DEF Range

LEMMA HeldIs ==
    ASSUME NEW r \in Rows
    PROVE  Held(r) <=> r \in Range(batch) \/ \E f \in Flushes : r \in Range(flight[f])
BY DEF Held, InFlight

\* A splice divides the rows between the flush and what is left.
LEMMA SpliceDivides ==
    ASSUME flight \in [Flushes -> Seq(Rows)], NEW rows \in Seq(Rows), NEW f \in Flushes,
           Splice(f, rows)
    PROVE  /\ flight' \in [Flushes -> Seq(Rows)] /\ batch' \in Seq(Rows)
           /\ Range(flight'[f]) \cup Range(batch') = Range(rows)
           /\ \A g \in Flushes \ {f} : flight'[g] = flight[g]
           /\ Len(rows) <= Cap => batch' = <<>> /\ flight'[f] = rows
<1> DEFINE n == IF Len(rows) < Cap THEN Len(rows) ELSE Cap
           taken == SubSeq(rows, 1, n)
           left == SubSeq(rows, n + 1, Len(rows))
<1>1. Len(rows) \in Nat /\ n \in 0..Len(rows) /\ n \in Nat
  BY CapAssumption, LenProperties
<1>2. \A i \in 1..Len(rows) : rows[i] \in Rows
  BY ElementOfSeq
<1>3. taken \in Seq(Rows)
  BY <1>1, <1>2, SubSeqProperties
<1>4. left \in Seq(Rows)
  BY <1>1, <1>2, SubSeqProperties
<1>5. taken \o left = rows
  <2>1. taken \o left = SubSeq(rows, 1, Len(rows))
    BY <1>1, ConcatAdjacentSubSeq
  <2> QED
    BY <2>1, SubSeqFull
<1>6. Range(taken) \cup Range(left) = Range(rows)
  BY <1>3, <1>4, <1>5, RangeConcatenation
<1>7. Len(rows) <= Cap => left = <<>> /\ taken = rows
  <2>1. Len(rows) <= Cap => n = Len(rows)
    BY <1>1, CapAssumption
  <2> QED
    BY <1>1, <2>1, SubSeqEmpty, SubSeqFull
<1>8. flight' = [flight EXCEPT ![f] = taken] /\ batch' = left
  BY DEF Splice
<1> HIDE DEF n, taken, left
<1> QED
  BY <1>3, <1>4, <1>6, <1>7, <1>8

\* Rows given to a flush that has none are not lost, and no others are.
LEMMA SpliceHolds ==
    ASSUME TypeOK, NEW rows \in Seq(Rows), NEW f \in Flushes, flight[f] = <<>>,
           Splice(f, rows), Range(batch) \subseteq Range(rows), NEW r \in Rows,
           Held(r) \/ r \in Range(rows)
    PROVE  Held(r)'
<1>1. /\ Range(flight'[f]) \cup Range(batch') = Range(rows)
      /\ \A g \in Flushes \ {f} : flight'[g] = flight[g]
  BY SpliceDivides DEF TypeOK
<1>2. CASE r \in Range(rows)
  BY <1>1, <1>2, HeldIs, EmptyRange DEF Held, InFlight
<1>3. CASE r \notin Range(rows)
  <2>1. PICK g \in Flushes : r \in Range(flight[g])
    BY <1>3, HeldIs
  <2>2. g # f
    BY <2>1, EmptyRange
  <2> QED
    BY <1>1, <2>1, <2>2 DEF Held, InFlight
<1> QED
  BY <1>2, <1>3

LEMMA InsertStores ==
    ASSUME stored \subseteq Rows, NEW rows, rows \subseteq Rows
    PROVE  Insert(rows) \subseteq Rows /\ stored \subseteq Insert(rows) /\ rows \subseteq Insert(rows)
BY DEF Insert

LEMMA FlightRows ==
    ASSUME TypeOK, NEW f \in Flushes
    PROVE  Range(flight[f]) \subseteq Rows
BY RangeOfSeq DEF TypeOK

\* A sequence has no more members than places.
LEMMA RangeBound ==
    ASSUME NEW s \in Seq(Rows)
    PROVE  IsFiniteSet(Range(s)) /\ Cardinality(Range(s)) <= Len(s)
<1>1. Len(s) \in Nat /\ DOMAIN s = 1..Len(s)
  BY LenProperties
<1>2. IsFiniteSet(1..Len(s)) /\ Cardinality(1..Len(s)) = Len(s)
  BY <1>1, FS_Interval
<1>3. s \in Surjection(1..Len(s), Range(s))
  <2>1. s \in [1..Len(s) -> Range(s)]
    BY <1>1 DEF Range
  <2> QED
    BY <1>1, <2>1 DEF Range, Surjection
<1> QED
  BY <1>2, <1>3, FS_Surjection

\* Nothing that is stored or held is lost by a step that stores what it lets go.
LEMMA KeptOn ==
    ASSUME TypeOK, TypeOK', NEW r \in Rows, Kept(r), endpoints' = endpoints,
           stored \subseteq stored', Held(r) => Held(r)' \/ r \in stored'
    PROVE  Kept(r)'
BY DEF TypeOK, Kept

---------------------------------------------------------------------------
LEMMA WriterInvInit == Init => WriterInv
<1> SUFFICES ASSUME Init PROVE WriterInv
  OBVIOUS
<1>1. TypeOK
  BY BoundsAssumption, EmptySeq DEF Init, TypeOK, Phases
<1>2. /\ flight["worker"] = <<>> /\ flight["shutdown"] = <<>> /\ Len(batch) = 0
      /\ \A f \in Flushes : Len(flight[f]) = 0
  BY FlushesAre, EmptySeq DEF Init
<1> QED
  BY <1>1, <1>2, BoundsAssumption, CapAssumption
  DEF Init, WriterInv, AttemptsLeft, FlushOwners, RowsKept, BelowCap, OneBatchLeft, Spared

LEMMA AddKeeps ==
    ASSUME WriterInv, NEW r \in Rows, Add(r)
    PROVE  WriterInv'
<1>1. /\ job' = [job EXCEPT ![r] = "waiting"] /\ job[r] = "new"
      /\ UNCHANGED <<attempts, batch, flight, stored, endpoints, phase, errors, faults>>
  BY DEF Add, memory
<1>2. \A q \in Rows : q # r => job'[q] = job[q]
  BY <1>1 DEF WriterInv, TypeOK
<1>3. TypeOK' /\ job'[r] = "waiting"
  BY <1>1 DEF WriterInv, TypeOK
<1>4. AttemptsLeft' /\ FlushOwners'
  BY <1>1, <1>2, <1>3 DEF WriterInv, AttemptsLeft, FlushOwners, Spared
<1>5. RowsKept'
  BY <1>1, <1>2, <1>3
  DEF WriterInv, RowsKept, Guarded, Kept, Held, InFlight, Spared
<1>6. BelowCap' /\ OneBatchLeft'
  BY <1>1, <1>2 DEF WriterInv, BelowCap, OneBatchLeft, Spared
<1> QED
  BY <1>1, <1>3, <1>4, <1>5, <1>6 DEF WriterInv

LEMMA AppendRange ==
    ASSUME NEW s \in Seq(Rows), NEW r \in Rows
    PROVE  /\ Append(s, r) \in Seq(Rows) /\ Len(Append(s, r)) = Len(s) + 1
           /\ Range(Append(s, r)) = Range(s) \cup {r}
<1>1. <<r>> \in Seq(Rows) /\ Range(<<r>>) = {r}
  BY DEF Range
<1>2. Append(s, r) \in Seq(Rows) /\ Len(Append(s, r)) = Len(s) + 1
  BY AppendProperties
<1>3. Range(Append(s, r)) = Range(s) \cup {r}
  <2>1. Append(s, r) = s \o <<r>>
    BY AppendIsConcat
  <2>2. Range(s \o <<r>>) = Range(s) \cup Range(<<r>>)
    BY <1>1, RangeConcatenation
  <2> QED
    BY <1>1, <2>1, <2>2
<1> QED
  BY <1>2, <1>3

LEMMA CollectKeeps ==
    ASSUME WriterInv, NEW r \in Rows, Collect(r)
    PROVE  WriterInv'
<1> DEFINE rows == Append(batch, r)
<1>1. /\ phase = "running" /\ job[r] = "waiting" /\ \A q \in Rows : job[q] # "active"
      /\ UNCHANGED <<attempts, stored, endpoints, phase, errors, faults>>
  BY DEF Collect
<1>2. batch \in Seq(Rows) /\ Len(batch) \in Nat /\ "worker" \in Flushes
  BY LenProperties, FlushesAre DEF WriterInv, TypeOK
<1>3. /\ rows \in Seq(Rows) /\ Len(rows) = Len(batch) + 1
      /\ Range(rows) = Range(batch) \cup {r}
  BY <1>2, AppendRange
<1>4. flight["worker"] = <<>>
  BY <1>1 DEF WriterInv, FlushOwners
<1>5. PICK s \in {"active", "done"} :
        /\ job' = [job EXCEPT ![r] = s]
        /\ \/ s = "active" /\ Splice("worker", rows)
           \/ s = "done" /\ Len(rows) < Cap /\ batch' = rows /\ UNCHANGED flight
  BY DEF Collect
<1> HIDE DEF rows
<1>6. /\ flight' \in [Flushes -> Seq(Rows)] /\ batch' \in Seq(Rows)
      /\ s = "done" => flight'["worker"] = <<>>
      /\ flight'["shutdown"] = flight["shutdown"]
      /\ \A f \in Flushes : f # "worker" => flight'[f] = flight[f]
      /\ Len(batch) < Cap => /\ Len(batch') < Cap
                             /\ s = "active" => Len(flight'["worker"]) <= Cap
                                                /\ r \in Range(flight'["worker"])
  <2>1. CASE s = "active"
    <3>1. Len(<<>>) = 0 /\ "shutdown" \in Flushes
      BY FlushesAre
    <3>2. Splice("worker", rows)
      BY <1>5, <2>1
    <3>3. /\ flight' \in [Flushes -> Seq(Rows)] /\ batch' \in Seq(Rows)
          /\ \A g \in Flushes \ {"worker"} : flight'[g] = flight[g]
          /\ Len(rows) <= Cap => batch' = <<>> /\ flight'["worker"] = rows
      BY <1>2, <1>3, <3>2, SpliceDivides DEF WriterInv, TypeOK
    <3>4. Len(batch) < Cap =>
            batch' = <<>> /\ Len(flight'["worker"]) <= Cap /\ r \in Range(flight'["worker"])
      BY <1>2, <1>3, <3>3, CapAssumption
    <3> QED
      BY <1>2, <2>1, <3>1, <3>3, <3>4, CapAssumption
  <2>2. CASE s = "done"
    BY <1>3, <1>4, <1>5, <2>2 DEF WriterInv, TypeOK
  <2> QED
    BY <2>1, <2>2
<1>7. \A q \in Rows : job'[q] = IF q = r THEN s ELSE job[q]
  BY <1>5 DEF WriterInv, TypeOK
<1>8. TypeOK'
  BY <1>1, <1>5, <1>6 DEF WriterInv, TypeOK
<1>9. AttemptsLeft' /\ FlushOwners'
  BY <1>1, <1>6, <1>7 DEF WriterInv, AttemptsLeft, FlushOwners, Spared
<1>10. \A q \in Rows : Held(q) \/ q = r => Held(q)'
  <2>1. CASE s = "active"
    BY <1>2, <1>3, <1>4, <1>5, <2>1, SpliceHolds DEF WriterInv
  <2>2. CASE s = "done"
    BY <1>3, <1>5, <2>2 DEF Held, InFlight
  <2> QED
    BY <2>1, <2>2
<1>11. RowsKept'
  BY <1>1, <1>7, <1>10 DEF WriterInv, RowsKept, Guarded, Kept, Spared
<1>12. BelowCap'
  <2> SUFFICES ASSUME Spared({"error", "delete"})' PROVE BelowCap'
    BY DEF BelowCap
  <2>1. Spared({"error", "delete"}) /\ BelowCap
    BY <1>1 DEF Spared, WriterInv
  <2>2. /\ endpoints' = Endpoints /\ Len(batch') < Cap
        /\ \A f \in Flushes : f # "worker" => Len(flight'[f]) < Cap
    BY <1>1, <1>6, <2>1 DEF BelowCap
  <2>3. CASE s = "active"
    BY <1>6, <1>7, <2>1, <2>2, <2>3 DEF BelowCap
  <2>4. CASE s = "done"
    <3>1. flight'["worker"] = <<>> /\ Len(<<>>) = 0 /\ 0 <= Cap
      BY <1>6, <2>4, CapAssumption
    <3> QED
      BY <2>2, <3>1 DEF BelowCap
  <2> QED
    BY <2>3, <2>4
<1>13. OneBatchLeft'
  BY <1>1 DEF OneBatchLeft
<1> QED
  BY <1>8, <1>9, <1>11, <1>12, <1>13 DEF WriterInv

\* The flush of the timer, and the one of shutdown.
LEMMA FlushBeginsKeeps ==
    ASSUME WriterInv, NEW f \in Flushes, flight[f] = <<>>, Splice(f, batch), f # "worker",
           phase' \in Phases, UNCHANGED <<queueVars, stored, endpoints, errors, faults>>,
           IF f = "shutdown" THEN phase = "closing" /\ phase' = "flushing"
                             ELSE phase = "running" /\ phase' = "running"
    PROVE  WriterInv'
<1>1. /\ flight' \in [Flushes -> Seq(Rows)] /\ batch' \in Seq(Rows)
      /\ \A g \in Flushes \ {f} : flight'[g] = flight[g]
      /\ Len(batch) <= Cap => batch' = <<>> /\ flight'[f] = batch
      /\ Len(batch) \in Nat /\ Len(<<>>) = 0
  BY SpliceDivides, LenProperties DEF WriterInv, TypeOK
<1>2. TypeOK'
  BY <1>1 DEF WriterInv, TypeOK, queueVars
<1>3. AttemptsLeft' /\ FlushOwners'
  BY <1>1, FlushesAre DEF WriterInv, AttemptsLeft, FlushOwners, Spared, queueVars
<1>4. \A r \in Rows : Held(r) => Held(r)'
  BY SpliceHolds DEF WriterInv, TypeOK
<1>5. RowsKept'
  BY <1>4 DEF WriterInv, RowsKept, Guarded, Kept, Spared, queueVars
<1>6. Spared({"error", "delete"}) =>
        Len(batch) < Cap /\ batch' = <<>> /\ flight'[f] = batch
  BY <1>1, CapAssumption DEF WriterInv, BelowCap
<1>7. BelowCap'
  BY <1>1, <1>6, FlushesAre, CapAssumption DEF WriterInv, BelowCap, Spared, queueVars
<1>8. OneBatchLeft'
  BY <1>6 DEF OneBatchLeft, Spared
<1> QED
  BY <1>2, <1>3, <1>5, <1>7, <1>8 DEF WriterInv

LEMMA TimerFlushKeeps ==
    ASSUME WriterInv, NEW f \in Flushes, TimerFlush(f)
    PROVE  WriterInv'
BY FlushBeginsKeeps, FlushesAre DEF TimerFlush, Phases

LEMMA ShutdownFlushKeeps ==
    ASSUME WriterInv, ShutdownFlush
    PROVE  WriterInv'
<1>1. CASE batch # <<>>
  <2>1. flight["shutdown"] = <<>>
    BY DEF ShutdownFlush, WriterInv, FlushOwners
  <2> QED
    BY <1>1, <2>1, FlushBeginsKeeps, FlushesAre DEF ShutdownFlush, Phases
<1>2. CASE batch = <<>>
  <2>1. /\ phase = "closing" /\ phase' = "ending"
        /\ UNCHANGED <<queueVars, memory, stored, endpoints, errors, faults>>
    BY <1>2 DEF ShutdownFlush
  <2> QED
    BY <1>2, <2>1
    DEF WriterInv, TypeOK, Phases, AttemptsLeft, FlushOwners, RowsKept, Guarded, Kept, Held,
        InFlight, BelowCap, OneBatchLeft, Spared, queueVars, memory
<1> QED
  BY <1>1, <1>2

---------------------------------------------------------------------------
\* What flush f has taken is let go: into the table, or back into the batch.
LEMMA LetGoHolds ==
    ASSUME TypeOK, NEW f \in Flushes, flight' = [flight EXCEPT ![f] = <<>>],
           NEW r \in Rows, Held(r), r \notin Range(flight[f]),
           Range(batch) \subseteq Range(batch')
    PROVE  Held(r)'
<1>1. \A g \in Flushes \ {f} : flight'[g] = flight[g]
  BY DEF TypeOK
<1> QED
  BY <1>1, HeldIs DEF Held, InFlight

LEMMA FlushSucceedsKeeps ==
    ASSUME WriterInv, NEW f \in Flushes, FlushSucceeds(f)
    PROVE  WriterInv'
<1>1. /\ stored' = Insert(Range(flight[f])) /\ flight' = [flight EXCEPT ![f] = <<>>]
      /\ UNCHANGED <<attempts, batch, endpoints, errors, faults>>
      /\ flight[f] # <<>>
  BY DEF FlushSucceeds
<1>2. /\ flight' \in [Flushes -> Seq(Rows)] /\ flight'[f] = <<>>
      /\ \A g \in Flushes \ {f} : flight'[g] = flight[g]
  BY <1>1, EmptySeq DEF WriterInv, TypeOK
<1>3. stored' \subseteq Rows /\ stored \subseteq stored' /\ Range(flight[f]) \subseteq stored'
  BY <1>1, FlightRows, InsertStores DEF WriterInv, TypeOK
<1>4. job' \in [Rows -> {"new", "waiting", "active", "done", "failed"}]
  BY DEF FlushSucceeds, WriterInv, TypeOK
<1>5. \A r \in Rows : job'[r] = job[r] \/ (f = "worker" /\ job[r] = "active" /\ job'[r] = "done")
  BY DEF FlushSucceeds, WriterInv, TypeOK
<1>6. /\ f = "shutdown" => phase = "flushing" /\ phase' = "ending"
      /\ f # "shutdown" => phase' = phase
  BY <1>1 DEF FlushSucceeds, WriterInv, FlushOwners
<1>7. TypeOK'
  BY <1>1, <1>2, <1>3, <1>4, <1>6 DEF WriterInv, TypeOK, Phases
<1>8. AttemptsLeft'
  BY <1>1, <1>5 DEF WriterInv, AttemptsLeft
<1>9. FlushOwners'
  BY <1>1, <1>2, <1>5, <1>6, FlushesAre DEF WriterInv, FlushOwners, Spared
<1>10. \A r \in Rows : Held(r) => Held(r)' \/ r \in stored'
  BY <1>1, <1>3, LetGoHolds DEF WriterInv
<1>11. RowsKept'
  <2> SUFFICES ASSUME Guarded', NEW r \in Rows, job'[r] \in {"active", "done", "failed"}
               PROVE  Kept(r)'
    BY DEF RowsKept
  <2>1. Kept(r)
    BY <1>1, <1>5 DEF WriterInv, RowsKept, Guarded, Spared
  <2> QED
    BY <1>1, <1>3, <1>7, <1>10, <2>1, KeptOn DEF WriterInv
<1>12. BelowCap'
  <2>1. Len(<<>>) = 0 /\ "worker" \in Flushes
    BY FlushesAre
  <2>2. f # "worker" => job' = job
    BY DEF FlushSucceeds
  <2> QED
    BY <1>1, <1>2, <2>1, <2>2, CapAssumption DEF WriterInv, BelowCap, Spared
<1>13. OneBatchLeft'
  BY <1>1, <1>6 DEF WriterInv, OneBatchLeft, Spared
<1> QED
  BY <1>7, <1>8, <1>9, <1>11, <1>12, <1>13 DEF WriterInv

\* Where no endpoint is deleted the foreign key holds.
LEMMA AlwaysInsertable ==
    ASSUME TypeOK, endpoints = Endpoints, NEW f \in Flushes
    PROVE  Insertable(Range(flight[f]))
<1>1. Range(flight[f]) \in SUBSET Rows
  BY RangeOfSeq DEF TypeOK
<1> QED
  BY <1>1, RowsAssumption DEF Insertable

LEMMA PutBackKeeps ==
    ASSUME WriterInv, NEW f \in Flushes, flight[f] # <<>>, PutBack(f),
           UNCHANGED <<endpoints, faults>>, errors' \in 0..MaxErrors,
           stored' \subseteq Rows, stored \subseteq stored',
           ~Spared({"error", "delete"})
    PROVE  WriterInv'
<1>1. /\ f # "shutdown" /\ batch' = flight[f] \o batch
      /\ flight' = [flight EXCEPT ![f] = <<>>] /\ phase' = phase
  BY DEF PutBack
<1>2. /\ flight' \in [Flushes -> Seq(Rows)] /\ flight'[f] = <<>>
      /\ \A g \in Flushes \ {f} : flight'[g] = flight[g]
  BY <1>1, EmptySeq DEF WriterInv, TypeOK
<1>3. batch' \in Seq(Rows) /\ Range(batch') = Range(flight[f]) \cup Range(batch)
  BY <1>1, ConcatProperties, RangeConcatenation DEF WriterInv, TypeOK
<1>4. /\ job' \in [Rows -> {"new", "waiting", "active", "done", "failed"}]
      /\ attempts' \in [Rows -> 0..MaxAttempts]
      /\ AttemptsLeft'
      /\ \A r \in Rows : job'[r] \in {"active", "done", "failed"} =>
                            job[r] \in {"active", "done", "failed"}
      /\ f # "worker" => job' = job
  <2>1. CASE f = "worker"
    <3>1. PICK r \in Rows : job[r] = "active" /\ RetryJob(r)
      BY <2>1 DEF PutBack
    <3>2. attempts[r] \in 0..MaxAttempts /\ attempts[r] < MaxAttempts
      BY <3>1 DEF WriterInv, TypeOK, AttemptsLeft
    <3> QED
      BY <2>1, <3>1, <3>2, BoundsAssumption DEF RetryJob, WriterInv, TypeOK, AttemptsLeft
  <2>2. CASE f # "worker"
    BY <2>2 DEF PutBack, queueVars, WriterInv, TypeOK, AttemptsLeft
  <2> QED
    BY <2>1, <2>2
<1>5. TypeOK'
  BY <1>1, <1>2, <1>3, <1>4 DEF WriterInv, TypeOK
<1>6. FlushOwners'
  BY <1>1, <1>2, <1>4, FlushesAre DEF WriterInv, FlushOwners, Spared
<1>7. \A r \in Rows : Held(r) => Held(r)'
  <2> SUFFICES ASSUME NEW r \in Rows, Held(r) PROVE Held(r)'
    OBVIOUS
  <2>1. CASE r \in Range(flight[f])
    BY <1>3, <2>1 DEF Held
  <2>2. CASE r \notin Range(flight[f])
    BY <1>1, <1>3, <2>2, LetGoHolds DEF WriterInv
  <2> QED
    BY <2>1, <2>2
<1>8. RowsKept'
  <2> SUFFICES ASSUME Guarded', NEW r \in Rows, job'[r] \in {"active", "done", "failed"}
               PROVE  Kept(r)'
    BY DEF RowsKept
  <2>1. Kept(r)
    BY <1>4 DEF WriterInv, RowsKept, Guarded, Spared
  <2> QED
    BY <1>5, <1>7, <2>1, KeptOn DEF WriterInv
<1>9. BelowCap' /\ OneBatchLeft'
  BY DEF BelowCap, OneBatchLeft, Spared
<1> QED
  BY <1>4, <1>5, <1>6, <1>8, <1>9 DEF WriterInv

\* A death: what is in memory must not be missed.
LEMMA DieKeeps ==
    ASSUME WriterInv, Die, UNCHANGED <<endpoints, faults>>, errors' \in 0..MaxErrors,
           stored' \subseteq Rows, stored \subseteq stored',
           ~Spared({"crash", "signal"}),
           Guarded => \A r \in Rows : ~Held(r)
    PROVE  WriterInv'
<1>1. /\ phase' = "down" /\ batch' = <<>> /\ flight' = [f \in Flushes |-> <<>>]
      /\ attempts' = attempts
  BY DEF Die
<1>2. PICK s \in {"waiting", "failed"} :
        job' = [r \in Rows |-> IF job[r] = "active" THEN s ELSE job[r]]
  BY DEF Die
<1>3. TypeOK'
  BY <1>1, <1>2, EmptySeq DEF WriterInv, TypeOK, Phases
<1>4. AttemptsLeft'
  BY <1>1, <1>2 DEF WriterInv, AttemptsLeft
<1>5. FlushOwners'
  BY <1>1, FlushesAre DEF FlushOwners, Spared
<1>6. RowsKept'
  BY <1>2 DEF WriterInv, TypeOK, RowsKept, Guarded, Kept, Spared
<1>7. BelowCap' /\ OneBatchLeft'
  <2>1. Len(<<>>) = 0 /\ 0 < Cap /\ 0 <= Cap /\ "worker" \in Flushes
    BY FlushesAre, CapAssumption
  <2> QED
    BY <1>1, <2>1 DEF WriterInv, BelowCap, OneBatchLeft, Spared
<1> QED
  BY <1>3, <1>4, <1>5, <1>6, <1>7 DEF WriterInv

LEMMA RejectedKeeps ==
    ASSUME WriterInv, NEW f \in Flushes, FlushRejected(f),
           UNCHANGED <<endpoints, faults>>, errors' \in 0..MaxErrors,
           stored' \subseteq Rows, stored \subseteq stored',
           ~Spared({"error", "delete"})
    PROVE  WriterInv'
<1>1. CASE PutBack(f)
  BY <1>1, PutBackKeeps DEF FlushRejected
<1>2. CASE f = "shutdown" /\ Die
  <2>1. ~Spared({"crash", "signal"})
    BY <1>2 DEF FlushRejected, WriterInv, FlushOwners
  <2>2. ~Guarded
    BY <2>1 DEF Guarded, Spared
  <2> QED
    BY <1>2, <2>1, <2>2, DieKeeps
<1> QED
  BY <1>1, <1>2 DEF FlushRejected

LEMMA ForeignKeyFailsKeeps ==
    ASSUME WriterInv, NEW f \in Flushes, ForeignKeyFails(f)
    PROVE  WriterInv'
<1>1. ~Spared({"error", "delete"})
  BY AlwaysInsertable DEF ForeignKeyFails, WriterInv, BelowCap
<1>2. FlushRejected(f) /\ UNCHANGED <<stored, endpoints, errors, faults>>
  BY DEF ForeignKeyFails
<1>3. stored' \subseteq Rows /\ stored \subseteq stored' /\ errors' \in 0..MaxErrors
  BY <1>2 DEF WriterInv, TypeOK
<1> QED
  BY <1>1, <1>2, <1>3, RejectedKeeps

LEMMA DatabaseFailsKeeps ==
    ASSUME WriterInv, NEW f \in Flushes, DatabaseFails(f)
    PROVE  WriterInv'
<1>1. ~Spared({"error", "delete"})
  BY DEF DatabaseFails, Spared
<1>2. errors' \in 0..MaxErrors
  BY BoundsAssumption DEF DatabaseFails, WriterInv, TypeOK
<1>3. stored' \subseteq Rows /\ stored \subseteq stored'
  BY FlightRows, InsertStores DEF DatabaseFails, WriterInv, TypeOK
<1> QED
  BY <1>1, <1>2, <1>3, RejectedKeeps DEF DatabaseFails

---------------------------------------------------------------------------
LEMMA ExitKeeps ==
    ASSUME WriterInv, Exit
    PROVE  WriterInv' /\ (Guarded => \A r \in Rows : ~Held(r))
<1>1. /\ phase = "ending" /\ InFlight = {} /\ Die
      /\ UNCHANGED <<stored, endpoints, errors, faults>>
  BY DEF Exit
<1>2. ~Spared({"crash", "signal"})
  BY <1>1 DEF WriterInv, FlushOwners
<1>3. Guarded => \A r \in Rows : ~Held(r)
  BY <1>1, <1>2, EmptyRange DEF WriterInv, OneBatchLeft, Guarded, Held
<1>4. stored' \subseteq Rows /\ stored \subseteq stored' /\ errors' \in 0..MaxErrors
  BY <1>1 DEF WriterInv, TypeOK
<1> QED
  BY <1>1, <1>2, <1>3, <1>4, DieKeeps

LEMMA CrashKeeps ==
    ASSUME WriterInv, Crash
    PROVE  WriterInv'
<1>1. PICK rows : stored' = Insert(rows) /\ rows \subseteq Rows
  BY FlightRows DEF Crash, WriterInv
<1>2. stored' \subseteq Rows /\ stored \subseteq stored'
  BY <1>1, InsertStores DEF WriterInv, TypeOK
<1>3. ~Spared({"crash", "signal"}) /\ ~Guarded
  BY DEF Crash, Spared, Guarded
<1>4. errors' \in 0..MaxErrors /\ Die /\ UNCHANGED <<endpoints, faults>>
  BY DEF Crash, WriterInv, TypeOK
<1> QED
  BY <1>2, <1>3, <1>4, DieKeeps

LEMMA SignalOrRestartKeeps ==
    ASSUME WriterInv, Signal \/ Restart
    PROVE  WriterInv'
<1>1. UNCHANGED <<queueVars, memory, stored, endpoints, errors, faults>>
  BY DEF Signal, Restart
<1>2. /\ phase \in {"running", "down"} /\ phase' \in {"running", "closing"}
      /\ phase = "down" => phase' = "running"
      /\ phase = "running" => ~Spared({"crash", "signal"})
  BY DEF Signal, Restart, Spared
<1>3. FlushOwners'
  BY <1>1, <1>2 DEF WriterInv, FlushOwners, Spared, queueVars, memory
<1> QED
  BY <1>1, <1>2, <1>3
  DEF WriterInv, TypeOK, Phases, AttemptsLeft, RowsKept, Guarded, Kept, Held,
      InFlight, BelowCap, OneBatchLeft, Spared, queueVars, memory

LEMMA DeleteEndpointKeeps ==
    ASSUME WriterInv, NEW e \in Endpoints, DeleteEndpoint(e)
    PROVE  WriterInv'
<1>1. /\ "delete" \in faults /\ endpoints' = endpoints \ {e}
      /\ stored' = {r \in stored : EndpointOf[r] # e}
      /\ UNCHANGED <<queueVars, memory, phase, errors, faults>>
  BY DEF DeleteEndpoint
<1>2. TypeOK'
  BY <1>1 DEF WriterInv, TypeOK, queueVars, memory
<1>3. \A r \in Rows : Kept(r) => Kept(r)'
  BY <1>1 DEF Kept, Held, InFlight, memory
<1>4. RowsKept'
  BY <1>1, <1>3 DEF WriterInv, RowsKept, Guarded, Spared, queueVars
<1> QED
  BY <1>1, <1>2, <1>4
  DEF WriterInv, AttemptsLeft, FlushOwners, BelowCap, OneBatchLeft, Spared, queueVars, memory

LEMMA WriterInvNext == WriterInv /\ [Next]_vars => WriterInv'
<1> SUFFICES ASSUME WriterInv, [Next]_vars PROVE WriterInv'
  OBVIOUS
<1>1. CASE \E r \in Rows : Add(r) \/ Collect(r)
  BY <1>1, AddKeeps, CollectKeeps
<1>2. CASE \E f \in Flushes : TimerFlush(f) \/ FlushNext(f)
  BY <1>2, TimerFlushKeeps, FlushSucceedsKeeps, ForeignKeyFailsKeeps, DatabaseFailsKeeps
  DEF FlushNext
<1>3. CASE \E e \in Endpoints : DeleteEndpoint(e)
  BY <1>3, DeleteEndpointKeeps
<1>4. CASE ProcessNext
  BY <1>4, SignalOrRestartKeeps, ShutdownFlushKeeps, ExitKeeps, CrashKeeps DEF ProcessNext
<1>5. CASE UNCHANGED vars
  BY <1>5
  DEF WriterInv, TypeOK, AttemptsLeft, FlushOwners, RowsKept, Guarded, Kept, Held,
      InFlight, BelowCap, OneBatchLeft, Spared, vars, queueVars, memory
<1> QED
  BY <1>1, <1>2, <1>3, <1>4, <1>5 DEF Next

---------------------------------------------------------------------------
\* Every variable keeps its type: in particular no job is tried more often
\* than BullMQ allows, and what is in flight are rows of jobs.
THEOREM WriterTyped == Spec => []TypeOK
<1>1. WriterInv => TypeOK
  BY DEF WriterInv
<1> QED
  BY <1>1, WriterInvInit, WriterInvNext, PTL DEF Spec

\* As long as the process lives, no overlap of timer flushes with one another
\* or with the worker's, no rejection, deletion or retry loses a row that BullMQ
\* has behind it (dbWrite/index.ts:52-72).
THEOREM NoRowLost == Spec => []NoSilentLoss
<1>1. WriterInv => NoSilentLoss
  BY DEF WriterInv, NoSilentLoss, RowsKept, Guarded
<1> QED
  BY <1>1, WriterInvInit, WriterInvNext, PTL DEF Spec

\* A crash loses less than one batch of completed jobs' rows from the batch and
\* less than one from each flush in flight, through restarts and shutdowns, as
\* long as no INSERT is rejected (dbWrite/index.ts:88-91).
THEOREM CrashLossIsBounded == Spec => []CrashLosesLessThanABatch
<1>1. WriterInv => CrashLosesLessThanABatch
  <2> SUFFICES ASSUME WriterInv, Spared({"error", "delete"}),
                      NEW rows \in {batch} \cup {flight[f] : f \in Flushes}
               PROVE  Cardinality(AtRisk(rows)) < Cap
    BY DEF CrashLosesLessThanABatch
  <2>1. rows \in Seq(Rows) /\ Len(rows) \in Nat
    BY LenProperties DEF WriterInv, TypeOK
  <2>2. /\ IsFiniteSet(Range(rows)) /\ Cardinality(Range(rows)) <= Len(rows)
        /\ Cardinality(Range(rows)) \in Nat
    BY <2>1, RangeBound, FS_CardinalityType
  <2>3. CASE Len(rows) < Cap
    <3>1. AtRisk(rows) \in SUBSET Range(rows)
      BY DEF AtRisk
    <3>2. /\ IsFiniteSet(AtRisk(rows))
          /\ Cardinality(AtRisk(rows)) <= Cardinality(Range(rows))
      BY <2>2, <3>1, FS_Subset
    <3>3. Cardinality(AtRisk(rows)) \in Nat
      BY <3>2, FS_CardinalityType
    <3> QED
      BY <2>1, <2>2, <2>3, <3>2, <3>3, CapAssumption
  <2>4. CASE ~(Len(rows) < Cap)
    <3>1. rows = flight["worker"] /\ Len(rows) <= Cap
      BY <2>4 DEF WriterInv, BelowCap
    <3>2. rows # <<>>
      BY <2>4, CapAssumption
    <3>3. PICK r \in Range(rows) : job[r] = "active"
      BY <3>1, <3>2 DEF WriterInv, BelowCap
    <3>4. AtRisk(rows) \in SUBSET (Range(rows) \ {r})
      BY <3>3 DEF AtRisk
    <3>5. /\ IsFiniteSet(Range(rows) \ {r})
          /\ Cardinality(Range(rows) \ {r}) = Cardinality(Range(rows)) - 1
      BY <2>2, <3>3, FS_RemoveElement
    <3>6. /\ IsFiniteSet(AtRisk(rows))
          /\ Cardinality(AtRisk(rows)) <= Cardinality(Range(rows) \ {r})
      BY <3>4, <3>5, FS_Subset
    <3>7. Cardinality(AtRisk(rows)) \in Nat
      BY <3>6, FS_CardinalityType
    <3> QED
      BY <2>1, <2>2, <3>1, <3>5, <3>6, <3>7, CapAssumption
  <2> QED
    BY <2>3, <2>4
<1> QED
  BY <1>1, WriterInvInit, WriterInvNext, PTL DEF Spec

\* Without a rejection, the one flush of shutdown is enough: when the process
\* exits, every completed job has its row in the table (dbWrite/index.ts:117-128).
THEOREM ShutdownIsClean == Spec => ShutdownPersists
<1>1. WriterInv /\ [Next]_vars => [Spared({"crash", "error", "delete"}) => CleanExit]_vars
  <2> SUFFICES ASSUME WriterInv, Next, Spared({"crash", "error", "delete"}),
                      phase = "ending", phase' = "down",
                      NEW r \in Rows, job[r] = "done"
               PROVE  r \in stored \/ EndpointOf[r] \notin endpoints
    BY DEF CleanExit
  <2>1. Exit
    <3>1. "crash" \notin faults
      BY DEF Spared
    <3>2. ASSUME NEW f \in Flushes, FlushRejected(f) PROVE FALSE
      BY <3>2 DEF FlushRejected, PutBack, WriterInv, FlushOwners
    <3> QED
      BY <3>1, <3>2
      DEF Next, Add, Collect, TimerFlush, FlushNext, FlushSucceeds, ForeignKeyFails,
          DatabaseFails, ProcessNext, Signal, ShutdownFlush, Crash, Restart, DeleteEndpoint
  <2>2. Kept(r) /\ ~Held(r)
    BY <2>1, ExitKeeps DEF WriterInv, RowsKept, Guarded
  <2> QED
    BY <2>2 DEF Kept
<1> QED
  BY <1>1, WriterInvInit, WriterInvNext, PTL DEF Spec, ShutdownPersists
=============================================================================
