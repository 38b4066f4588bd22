-------------------------------- MODULE Gate --------------------------------
(***************************************************************************)
(* The two places that turn a reading of FetchMetricBaseline into a        *)
(* deviation: the pre-LLM threshold gate of the watch daemon and the       *)
(* get_metric_trends tool.  An average is a fraction [sum, count] with     *)
(* count > 0 and deviations are compared by cross-multiplication, so       *)
(* nothing is rounded; thresholds are whole percents.                      *)
(***************************************************************************)
EXTENDS Integers

Abs(n) == IF n < 0 THEN -n ELSE n

\* A reading is [error |-> TRUE] or [error |-> FALSE, current, baseline].
QueryError == [error |-> TRUE]

\* (current - baseline) / baseline as a fraction, for a baseline that is
\* not zero; its denominator may be negative.
Change(reading) ==
  [num |-> reading.current.sum * reading.baseline.count
             - reading.baseline.sum * reading.current.count,
   den |-> reading.baseline.sum * reading.current.count]

\* |change| * 100 < percent
ChangeBelow(change, percent) == Abs(change.num) * 100 < percent * Abs(change.den)

\* Mutant of Skips: a deviation equal to the threshold is skipped too.
SkipsAtThreshold(reading, threshold) ==
  /\ ~reading.error
  /\ \/ /\ reading.baseline.sum # 0
        /\ Abs(Change(reading).num) * 100 <= threshold * Abs(Change(reading).den)
     \/ /\ reading.baseline.sum = 0
        /\ reading.current.sum <= 0
        /\ 0 <= threshold

(***************************************************************************)
(* runAnalysis skips the cycle when the deviation is below the threshold.  *)
(* A failed query is never a reason to skip, nor is a positive current     *)
(* average on a zero baseline (deviation MaxFloat64).                      *)
(***************************************************************************)
Skips(reading, threshold) ==
  /\ ~reading.error
  /\ \/ /\ reading.baseline.sum # 0
        /\ ChangeBelow(Change(reading), threshold)
     \/ /\ reading.baseline.sum = 0
        /\ reading.current.sum <= 0
        /\ 0 < threshold

\* get_metric_trends answers that there is no data.
ReportsNoData(reading) == reading.baseline.sum = 0 /\ reading.current.sum = 0

\* The deviation get_metric_trends reports for the same reading: none is
\* computed ("No data found", or +0.00%) when the baseline is zero.
ReportedChange(reading) ==
  IF reading.baseline.sum # 0 THEN Change(reading) ELSE [num |-> 0, den |-> 1]
=============================================================================
