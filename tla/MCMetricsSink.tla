--------------------------- MODULE MCMetricsSink ---------------------------
(* Two databases in two clusters, measurements that are zero, positive,    *)
(* negative, missing or no numbers, and the window lengths scaled down so  *)
(* that rows leave the current window first and the baseline window later. *)
EXTENDS MetricsSink

CONSTANTS d1, d2, s1, s2

MCDbNames    == {d1, d2}
MCSysIds     == {s1, s2}
MCValues     == {0, 3, -1, Absent, Text}
MCThresholds == {0, 50, 100, 200, 400}
=============================================================================
