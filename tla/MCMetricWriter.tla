-------------------------- MODULE MCMetricWriter --------------------------
(***************************************************************************)
(* Instances of MetricWriter for TLC.                                      *)
(***************************************************************************)
EXTENDS MetricWriter, TLC

CONSTANTS r1, r2, r3, e1, e2, t1, t2

\* r1 is about e1, every other row about e2.
FirstRowApart == [r \in Rows |-> IF r = r1 THEN e1 ELSE e2]

\* For each property, the faults it can stand at once: rejections with deletions
\* and crashes, or with a shutdown; crashes with shutdowns for what a crash may
\* lose; for liveness, one kind of fault at a time.
MetricFaults ==
    {{"error", "delete", "crash"}, {"error", "signal"}, {"error", "delete"},
     {"crash", "signal"}, {"error"}, {"signal"}}

OnlyDeletes == {{"delete"}}
ErrorsAndSignals == {{"error", "signal"}}
=============================================================================
