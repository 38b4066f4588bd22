---------------------------- MODULE MetricsSink ----------------------------
(***************************************************************************)
(* The pgwatch sink as the gate and the trends tool see it: collectors of  *)
(* several clusters insert rows into one metric table while time passes.   *)
(* The program only reads; whatever the table holds, the gate and the tool *)
(* may be called.                                                          *)
(***************************************************************************)
EXTENDS Baseline, Sequences

CONSTANTS
  DbNames, SysIds,  \* tenants are pairs of a database name and a system id
  Values,           \* the values collectors store
  Thresholds,       \* values of --critical-threshold, in percent
  MaxRows, MaxTime  \* bounds of the table and of the clock

ASSUME SinkAssumption ==
  /\ Values \ {Absent, Text} \subseteq Int
  /\ Thresholds \subseteq Int

VARIABLES
  rows,   \* the metric table
  now     \* NOW()

vars == <<rows, now>>

Init == rows = <<>> /\ now = 0

\* A collector stores a measurement of its tenant.
Collect(dbname, sys_id, value) ==
  /\ Len(rows) < MaxRows
  /\ rows' = Append(rows, [dbname |-> dbname, sys_id |-> sys_id,
                           time |-> now, value |-> value])
  /\ UNCHANGED now

\* An hour passes, with or without measurements.
HourPasses ==
  /\ now < MaxTime
  /\ now' = now + 1
  /\ UNCHANGED rows

Next ==
  \/ \E d \in DbNames, s \in SysIds, v \in Values : Collect(d, s, v)
  \/ HourPasses

Spec == Init /\ [][Next]_vars

-----------------------------------------------------------------------------
Reading(d, s) == FetchMetricBaseline(rows, now, d, s)

Measured(d, s, v) ==
  \E i \in DOMAIN rows : rows[i].dbname = d /\ rows[i].sys_id = s /\ rows[i].value = v

NonNegative(d, s) ==
  \A v \in Values \ {Absent, Text} : v < 0 => ~Measured(d, s, v)

\* The step stores nothing of a tenant.
NoneStored(d, s) ==
  \A i \in DOMAIN rows' \ DOMAIN rows : rows'[i].dbname # d \/ rows'[i].sys_id # s

(***************************************************************************)
(* What one tenant stores, good or bad, changes no reading of another one, *)
(* of the same name in another cluster or of the same cluster under        *)
(* another name (query.go:34-42 and 155-163).                              *)
(***************************************************************************)
TenantsIsolated ==
  [][\A d \in DbNames, s \in SysIds :
       NoneStored(d, s) /\ now' = now
         => Reading(d, s)' = Reading(d, s)]_vars

(***************************************************************************)
(* The gate and the tool agree: for measurements that are not negative, a  *)
(* cycle is skipped exactly when the deviation the model would be told is  *)
(* below the threshold.  They treat a zero baseline differently            *)
(* (watch.go:192-199, trends.go:91-102), but the baseline window contains  *)
(* the current one, so the difference never shows.                         *)
(***************************************************************************)
GateMatchesTool ==
  \A d \in DbNames, s \in SysIds : \A t \in Thresholds :
    LET reading == Reading(d, s)
    IN  NonNegative(d, s) /\ ~reading.error
          => (Skips(reading, t) <=> ChangeBelow(ReportedChange(reading), t))

(***************************************************************************)
(* What the gate makes of a collector that falls silent, with nothing      *)
(* numeric in the last hour: the empty window averages 0 (query.go:157),   *)
(* so silence is a drop by exactly 100%, however large the day's average.  *)
(* But where the day averages 0 too, or has no measurements left, silence  *)
(* is no deviation: every positive threshold skips it (watch.go:192-213).  *)
(***************************************************************************)
SilenceReadsAsZero ==
  \A d \in DbNames, s \in SysIds : \A t \in Thresholds :
    LET reading == Reading(d, s)
        recent  == Scope(rows, d, s, now - CurrentWindow)
    IN  ~reading.error /\ (\A i \in recent : ~Numeric(rows[i]))
          => (Skips(reading, t) <=> IF reading.baseline.sum = 0 THEN 0 < t ELSE 100 < t)

\* What get_metric_trends says when it reports no data: "No data found in the
\* last 24 hours" (trends.go:93), so nothing numeric was measured in them.
NoDataMeansNone ==
  \A d \in DbNames, s \in SysIds :
    LET reading == Reading(d, s)
        day     == Scope(rows, d, s, now - BaselineWindow)
    IN  ~reading.error /\ ReportsNoData(reading) => \A i \in day : ~Numeric(rows[i])
=============================================================================
