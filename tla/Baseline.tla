------------------------------ MODULE Baseline ------------------------------
(***************************************************************************)
(* FetchMetricBaseline of internal/db/query.go: two averages of a metric   *)
(* field of one tenant, over the last hour and over the last day.          *)
(*                                                                         *)
(* A metric row is [dbname, sys_id, time, value]; times are hours.  A      *)
(* value is an integer, Absent (the JSONB field is missing: NULL) or Text  *)
(* (it is there and is no number).                                         *)
(***************************************************************************)
EXTENDS Gate, FiniteSetsExt

CONSTANTS
  Absent, Text,     \* the values that are not numbers
  CurrentWindow,    \* hours of the current average (1 in the code)
  BaselineWindow    \* hours of the baseline average (24 in the code)

ASSUME GateAssumption ==
  /\ CurrentWindow \in Nat
  /\ BaselineWindow \in Nat
  /\ CurrentWindow < BaselineWindow

Numeric(row) == row.value \notin {Absent, Text}

\* COALESCE(AVG(...), 0) over the rows with the given indices.
Average(rows, indices) ==
  LET numeric == {i \in indices : Numeric(rows[i])}
  IN  IF numeric = {} THEN [sum |-> 0, count |-> 1]
      ELSE [sum   |-> MapThenSumSet(LAMBDA i : rows[i].value, numeric),
            count |-> Cardinality(numeric)]

\* Mutant of Scope: the sys_id predicate is missing.
ScopeByNameOnly(rows, dbname, sys_id, since) ==
  {i \in DOMAIN rows : rows[i].dbname = dbname /\ rows[i].time >= since}

\* The rows of one tenant since a time (the WHERE clause).
Scope(rows, dbname, sys_id, since) ==
  {i \in DOMAIN rows :
     /\ rows[i].dbname = dbname
     /\ rows[i].sys_id = sys_id
     /\ rows[i].time >= since}

\* Mutant of FetchMetricBaseline: NULL of an empty current window is
\* coalesced to the baseline.
FetchCarryingBaseline(rows, now, dbname, sys_id) ==
  LET day     == Scope(rows, dbname, sys_id, now - BaselineWindow)
      hour    == {i \in day : rows[i].time >= now - CurrentWindow}
      current == IF \E i \in hour : Numeric(rows[i]) THEN hour ELSE day
  IN  IF \E i \in day : rows[i].value = Text THEN QueryError
      ELSE [error    |-> FALSE,
            current  |-> Average(rows, current),
            baseline |-> Average(rows, day)]

(***************************************************************************)
(* Both averages come from the rows of the baseline window; the current    *)
(* one filters them further.  A value that is no number fails the cast,    *)
(* and with it the query.                                                  *)
(***************************************************************************)
FetchMetricBaseline(rows, now, dbname, sys_id) ==
  LET day  == Scope(rows, dbname, sys_id, now - BaselineWindow)
      hour == {i \in day : rows[i].time >= now - CurrentWindow}
  IN  IF \E i \in day : rows[i].value = Text THEN QueryError
      ELSE [error    |-> FALSE,
            current  |-> Average(rows, hour),
            baseline |-> Average(rows, day)]
=============================================================================
