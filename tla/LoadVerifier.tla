----------------------------- MODULE LoadVerifier -----------------------------
(***************************************************************************)
(* verify_load: after a load test it looks at the scrapes pgwatch stored   *)
(* for one database in the last minutes and prints a verdict.  The value   *)
(* it judges, xact_commit, is a counter: it only grows, until the server's *)
(* statistics are reset.                                                   *)
(*                                                                         *)
(* Load, scrapes, resets and time are the environment; the program may be  *)
(* called at any moment.  Rows are those of the database it asks for.      *)
(***************************************************************************)
EXTENDS Integers, Sequences, FiniteSetsExt

CONSTANTS
  Absent,      \* xact_commit is not among the measured fields (NULL)
  Window,      \* the minutes looked at (5 in the code)
  Threshold,   \* the commits that make a spike (1000 in the code)
  LoadSizes,   \* commits of one load test
  MaxCommits, MaxRows, MaxTime  \* bounds of the counter, the table, the clock

VARIABLES
  commits,  \* the server's counter
  rows,     \* the scrapes: [time, xact_commit]
  now,      \* NOW(), in minutes
  load      \* history: whether a scrape counted the last load test, and when
            \* the first one did

vars == <<commits, rows, now, load>>

Init ==
  /\ commits = 0
  /\ rows = <<>>
  /\ now = 0
  /\ load = [counted |-> "no", scrapedAt |-> 0]

GenerateLoad(size) ==
  /\ commits + size <= MaxCommits
  /\ commits' = commits + size
  /\ load' = [counted |-> "no", scrapedAt |-> 0]
  /\ UNCHANGED <<rows, now>>

\* pgwatch stores what it measured, perhaps without this field.
Scrape ==
  /\ Len(rows) < MaxRows
  /\ \/ /\ rows' = Append(rows, [time |-> now, xact_commit |-> commits])
        /\ load' = IF load.counted = "no"
                   THEN [counted |-> "yes", scrapedAt |-> now]
                   ELSE load
     \/ /\ rows' = Append(rows, [time |-> now, xact_commit |-> Absent])
        /\ UNCHANGED load
  /\ UNCHANGED <<commits, now>>

\* The counter starts again; a load that was not scraped before never is.
ResetStatistics ==
  /\ commits # 0
  /\ commits' = 0
  /\ load' = [load EXCEPT !.counted = IF @ = "no" THEN "lost" ELSE @]
  /\ UNCHANGED <<rows, now>>

MinutePasses ==
  /\ now < MaxTime
  /\ now' = now + 1
  /\ UNCHANGED <<commits, rows, load>>

Next ==
  \/ \E size \in LoadSizes : GenerateLoad(size)
  \/ Scrape
  \/ ResetStatistics
  \/ MinutePasses

Spec == Init /\ [][Next]_vars

-----------------------------------------------------------------------------
\* The rows of the WHERE clause, and the values that MAX and MIN see.
Recent == {i \in DOMAIN rows : rows[i].time >= now - Window}
Counters == {rows[i].xact_commit : i \in Recent} \ {Absent}

Verdict ==
  CASE Counters # {} /\ Max(Counters) > Threshold -> "spike confirmed"
    [] Recent # {} /\ (Counters # {} => Max(Counters) <= Threshold) -> "modest"
    [] Recent = {} -> "no data"

(***************************************************************************)
(* "SPIKE CONFIRMED - pgwatch captured the load generation event."         *)
(* (verify_load/main.go:82) for a "Time window: last 5 minutes" (line 58): *)
(* if the last load was counted by a scrape, one of the window was the     *)
(* first to count it; there was no load since otherwise.                   *)
(***************************************************************************)
SpikeMeansLoad ==
  Verdict = "spike confirmed" /\ load.counted = "yes" => load.scrapedAt >= now - Window
=============================================================================
