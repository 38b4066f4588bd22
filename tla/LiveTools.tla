------------------------------ MODULE LiveTools ------------------------------
(***************************************************************************)
(* The three tools that look at a live database: get_active_queries,       *)
(* get_active_locks (internal/tool/diagnostics) and                        *)
(* evaluate_hypothetical_index (internal/tool/metrics/hypopg.go).  Each    *)
(* call resolves a connection string through the shared pool of the config *)
(* database, opens a pool of its own to the monitored database, works on   *)
(* one connection of it and undoes all that with deferred calls.           *)
(*                                                                         *)
(* The handlers of the MCP server run concurrently, so several calls share *)
(* the config pool and the connection slots of a monitored server.  The    *)
(* servers are environments: any statement may fail, a backend may die, a  *)
(* source may be disabled or enabled.  Rows and plans are abstracted to    *)
(* whether the planner saw the hypothetical index, an index statement to   *)
(* whether it is a CREATE INDEX.                                           *)
(***************************************************************************)
EXTENDS Integers, FiniteSets

CONSTANTS
  Handlers,        \* goroutines that execute tool calls
  Databases,       \* names a caller may pass as db_name
  MaxConfigConns,  \* MaxConns of the config pool
  MaxBackends      \* connections a monitored server accepts from us

ASSUME LiveToolsAssumption ==
  /\ MaxConfigConns \in Nat \ {0}
  /\ MaxBackends \in Nat
  /\ Databases # {}

\* get_active_queries and get_active_locks differ only in what they read.
ListingTools == {"get_active_queries", "get_active_locks"}
ToolNames == ListingTools \cup {"evaluate_hypothetical_index"}

\* What tells index statements apart: hypopg makes an index of a CREATE INDEX,
\* and of any other statement that parses none: it warns and returns no row.
Statements(t) == IF t \in ListingTools THEN {"none"} ELSE {"CREATE INDEX", "another"}

VARIABLES
  pc,           \* where each call is (see TypeOK)
  tool, db,     \* its tool and its db_name argument
  statement,    \* its index_statement argument, "none" for a listing tool
  cancelled,    \* its context is done
  result,       \* what it returns: an error, a failure as text, or a report
  costs,        \* the plans behind costBefore and costAfter
  enabled,      \* the sources with is_enabled = true
  configConns,  \* the calls that hold a connection of the config pool
  backend,      \* the connection of a call's own pool
  index,        \* whether that backend has a hypothetical index
  reachable     \* history: the source was enabled at some time of the call

callVars == <<pc, tool, db, statement, cancelled, result, costs>>
serverVars == <<enabled, configConns, backend, index, reachable>>
vars == <<callVars, serverVars>>

NoCosts == [before |-> "none", after |-> "none"]

Init ==
  /\ pc = [h \in Handlers |-> "idle"]
  /\ tool = [h \in Handlers |-> "get_active_queries"]
  /\ db = [h \in Handlers |-> CHOOSE d \in Databases : TRUE]
  /\ statement = [h \in Handlers |-> "none"]
  /\ cancelled = [h \in Handlers |-> FALSE]
  /\ result = [h \in Handlers |-> "none"]
  /\ costs = [h \in Handlers |-> NoCosts]
  /\ enabled \in SUBSET Databases
  /\ configConns = {}
  /\ backend = [h \in Handlers |-> "none"]
  /\ index = [h \in Handlers |-> FALSE]
  /\ reachable = [h \in Handlers |-> FALSE]

Goto(h, label) == pc' = [pc EXCEPT ![h] = label]

\* The call goes on at label and will return r.
GotoWith(h, label, r) == Goto(h, label) /\ result' = [result EXCEPT ![h] = r]

\* What the planner sees on the backend of h.
Plan(h) == IF index[h] THEN "withIndex" ELSE "plain"

\* Connections a server holds for us.
Backends(d) == {h \in Handlers : db[h] = d /\ backend[h] \in {"held", "returned"}}

-----------------------------------------------------------------------------
\* The environment.

\* An administrator edits pgwatch.source.
Toggle(d) ==
  /\ enabled' = IF d \in enabled THEN enabled \ {d} ELSE enabled \cup {d}
  /\ reachable' = [h \in Handlers |->
       reachable[h] \/ (pc[h] # "idle" /\ db[h] = d /\ d \in enabled')]
  /\ UNCHANGED <<callVars, configConns, backend, index>>

\* The process is told to stop; nothing else cancels the context of a call.
Cancel(h) ==
  /\ pc[h] # "idle"
  /\ ~cancelled[h]
  /\ cancelled' = [cancelled EXCEPT ![h] = TRUE]
  /\ UNCHANGED <<pc, tool, db, statement, result, costs, serverVars>>

\* A backend is terminated; what it had in memory goes with it.
BackendDies(h) ==
  /\ backend[h] = "held"
  /\ backend' = [backend EXCEPT ![h] = "dead"]
  /\ index' = [index EXCEPT ![h] = FALSE]
  /\ UNCHANGED <<callVars, enabled, configConns, reachable>>

-----------------------------------------------------------------------------
\* The common beginning of the three tools.

\* Execute is called; arguments that do not parse or are empty end it.
Execute(h, t, d) ==
  /\ pc[h] = "idle"
  /\ GotoWith(h, "lookup", "none")
  /\ tool' = [tool EXCEPT ![h] = t]
  /\ db' = [db EXCEPT ![h] = d]
  /\ \E s \in Statements(t) : statement' = [statement EXCEPT ![h] = s]
  /\ cancelled' = [cancelled EXCEPT ![h] = FALSE]
  /\ costs' = [costs EXCEPT ![h] = NoCosts]
  /\ reachable' = [reachable EXCEPT ![h] = d \in enabled]
  /\ UNCHANGED <<enabled, configConns, backend, index>>

InvalidArguments(h) ==
  /\ pc[h] = "idle"
  /\ GotoWith(h, "idle", "error")
  /\ UNCHANGED <<tool, db, statement, cancelled, costs, serverVars>>

\* Mutant of LookupStarts: nothing limits the pool.
LookupStartsUnlimited(h) ==
  /\ pc[h] = "lookup"
  /\ ~cancelled[h]
  /\ configConns' = configConns \cup {h}
  /\ Goto(h, "lookingUp")
  /\ UNCHANGED <<tool, db, statement, cancelled, result, costs,
                 enabled, backend, index, reachable>>

\* GetMonitoredDBConnStr acquires a connection of the config pool ...
LookupStarts(h) ==
  /\ pc[h] = "lookup"
  /\ ~cancelled[h]
  /\ Cardinality(configConns) < MaxConfigConns
  /\ configConns' = configConns \cup {h}
  /\ Goto(h, "lookingUp")
  /\ UNCHANGED <<tool, db, statement, cancelled, result, costs,
                 enabled, backend, index, reachable>>

\* ... or fails to, while it waits for one ...
LookupNotStarted(h) ==
  /\ pc[h] = "lookup"
  /\ GotoWith(h, "idle", "failed")
  /\ UNCHANGED <<tool, db, statement, cancelled, costs, serverVars>>

\* Mutant of LookupReturns: is_enabled is not looked at.
LookupReturnsAny(h) ==
  /\ pc[h] = "lookingUp"
  /\ configConns' = configConns \ {h}
  /\ Goto(h, "connect")
  /\ UNCHANGED <<tool, db, statement, cancelled, result, costs,
                 enabled, backend, index, reachable>>

\* Mutant of LookupReturns: the connection is kept until the call ends.
LookupReturnsKeeping(h) ==
  /\ pc[h] = "lookingUp"
  /\ db[h] \in enabled
  /\ Goto(h, "connect")
  /\ UNCHANGED <<tool, db, statement, cancelled, result, costs, serverVars>>

\* ... and gives it back once the row is scanned.
LookupReturns(h) ==
  /\ pc[h] = "lookingUp"
  /\ db[h] \in enabled
  /\ configConns' = configConns \ {h}
  /\ Goto(h, "connect")
  /\ UNCHANGED <<tool, db, statement, cancelled, result, costs,
                 enabled, backend, index, reachable>>

\* No such enabled source, or the query failed.
LookupFails(h) ==
  /\ pc[h] = "lookingUp"
  /\ configConns' = configConns \ {h}
  /\ GotoWith(h, "idle", "failed")
  /\ UNCHANGED <<tool, db, statement, cancelled, costs, enabled, backend, index, reachable>>

\* pgxpool.New does not connect; it fails only on a bad connection string.
OpenPool(h) ==
  /\ pc[h] = "connect"
  /\ \/ Goto(h, "acquire") /\ UNCHANGED result
     \/ GotoWith(h, "idle", "failed")
  /\ UNCHANGED <<tool, db, statement, cancelled, costs, serverVars>>

\* The first connection of the pool is made by Query or Acquire.
Acquire(h) ==
  /\ pc[h] = "acquire"
  /\ ~cancelled[h]
  /\ Cardinality(Backends(db[h])) < MaxBackends
  /\ backend' = [backend EXCEPT ![h] = "held"]
  /\ Goto(h, IF tool[h] \in ListingTools THEN "rows" ELSE "before")
  /\ UNCHANGED <<tool, db, statement, cancelled, result, costs,
                 enabled, configConns, index, reachable>>

\* It cannot be made: no slot, no server, or cancelled.
AcquireFails(h) ==
  /\ pc[h] = "acquire"
  /\ GotoWith(h, "closePool", "failed")
  /\ UNCHANGED <<tool, db, statement, cancelled, costs, serverVars>>

-----------------------------------------------------------------------------
\* A statement succeeds on a live connection of a call that is not cancelled.
Succeeds(h) == backend[h] = "held" /\ ~cancelled[h]

\* The listing tools read rows until they end, or one cannot be read.
RowsEnd(h) ==
  /\ pc[h] = "rows"
  /\ Succeeds(h)
  /\ GotoWith(h, "release", "report")
  /\ UNCHANGED <<tool, db, statement, cancelled, costs, serverVars>>

RowsFail(h) ==
  /\ pc[h] = "rows"
  /\ GotoWith(h, "release", "failed")
  /\ UNCHANGED <<tool, db, statement, cancelled, costs, serverVars>>

\* evaluate_hypothetical_index: EXPLAIN, create the index, EXPLAIN, reset.
ExplainBefore(h) ==
  /\ pc[h] = "before"
  /\ Succeeds(h)
  /\ costs' = [costs EXCEPT ![h].before = Plan(h)]
  /\ Goto(h, "create")
  /\ UNCHANGED <<tool, db, statement, cancelled, result, serverVars>>

\* The rows of hypopg_create_index, the indexes it made, are not looked at.
CreateIndex(h) ==
  /\ pc[h] = "create"
  /\ Succeeds(h)
  /\ index' = [index EXCEPT ![h] = statement[h] = "CREATE INDEX"]
  /\ Goto(h, "after")
  /\ UNCHANGED <<tool, db, statement, cancelled, result, costs,
                 enabled, configConns, backend, reachable>>

\* Mutant of ExplainAfter: it runs on the pool, which reconnects.
ExplainAfterOnPool(h) ==
  /\ pc[h] = "after"
  /\ ~cancelled[h]
  /\ costs' = [costs EXCEPT ![h].after = Plan(h)]
  /\ GotoWith(h, "reset", "evaluated")
  /\ UNCHANGED <<tool, db, statement, cancelled, serverVars>>

ExplainAfter(h) ==
  /\ pc[h] = "after"
  /\ Succeeds(h)
  /\ costs' = [costs EXCEPT ![h].after = Plan(h)]
  /\ GotoWith(h, "reset", "evaluated")
  /\ UNCHANGED <<tool, db, statement, cancelled, serverVars>>

\* A failure before the index exists skips the reset, one after it does not.
StatementFails(h) ==
  /\ \/ pc[h] \in {"before", "create"} /\ GotoWith(h, "release", "failed")
     \/ pc[h] = "after" /\ GotoWith(h, "reset", "failed")
  /\ UNCHANGED <<tool, db, statement, cancelled, costs, serverVars>>

\* The outcome of hypopg_reset is ignored.
Reset(h) ==
  /\ pc[h] = "reset"
  /\ \/ Succeeds(h) /\ index' = [index EXCEPT ![h] = FALSE]
     \/ UNCHANGED index
  /\ Goto(h, "release")
  /\ UNCHANGED <<tool, db, statement, cancelled, result, costs,
                 enabled, configConns, backend, reachable>>

-----------------------------------------------------------------------------
\* The deferred calls, last one first: rows.Close or conn.Release, then
\* pool.Close, which waits for every connection to be given back.

\* Mutant of Release: pool.Close is deferred last and so runs first.
ReleaseLate(h) ==
  /\ pc[h] = "release"
  /\ Goto(h, "closePool")
  /\ UNCHANGED <<tool, db, statement, cancelled, result, costs, serverVars>>

\* A connection given back alive stays in the pool, a broken one does not.
Release(h) ==
  /\ pc[h] = "release"
  /\ backend' = [backend EXCEPT ![h] = IF @ = "held" THEN "returned" ELSE "none"]
  /\ Goto(h, "closePool")
  /\ UNCHANGED <<tool, db, statement, cancelled, result, costs,
                 enabled, configConns, index, reachable>>

\* Mutant of ClosePool: the pool is kept when the call failed.
ClosePoolUnlessFailed(h) ==
  /\ pc[h] = "closePool"
  /\ backend[h] # "held"
  /\ IF result[h] = "failed"
     THEN UNCHANGED <<backend, index>>
     ELSE /\ backend' = [backend EXCEPT ![h] = "none"]
          /\ index' = [index EXCEPT ![h] = FALSE]
  /\ Goto(h, "idle")
  /\ UNCHANGED <<tool, db, statement, cancelled, result, costs,
                 enabled, configConns, reachable>>

\* The pool's connections are closed and their backends end.
ClosePool(h) ==
  /\ pc[h] = "closePool"
  /\ backend[h] # "held"
  /\ backend' = [backend EXCEPT ![h] = "none"]
  /\ index' = [index EXCEPT ![h] = FALSE]
  /\ Goto(h, "idle")
  /\ UNCHANGED <<tool, db, statement, cancelled, result, costs,
                 enabled, configConns, reachable>>

Environment ==
  \/ \E d \in Databases : Toggle(d)
  \/ \E h \in Handlers : Cancel(h) \/ BackendDies(h)
  \/ \E h \in Handlers, t \in ToolNames, d \in Databases : Execute(h, t, d)
  \/ \E h \in Handlers : InvalidArguments(h)

\* What a call does before it is told by a server how to go on ...
Proceeds(h) ==
  \/ LookupStarts(h)
  \/ OpenPool(h)
  \/ Acquire(h)

Served(h) ==
  \/ LookupReturns(h)
  \/ RowsEnd(h)
  \/ ExplainBefore(h)
  \/ CreateIndex(h)
  \/ ExplainAfter(h)

Fails(h) ==
  \/ LookupNotStarted(h)
  \/ LookupFails(h)
  \/ AcquireFails(h)
  \/ RowsFail(h)
  \/ StatementFails(h)

Cleanup(h) == Reset(h) \/ Release(h) \/ ClosePool(h)

Next ==
  \/ Environment
  \/ \E h \in Handlers : Proceeds(h) \/ Served(h) \/ Fails(h) \/ Cleanup(h)

Spec == Init /\ [][Next]_vars

(***************************************************************************)
(* Fairness: goroutines run, and a call of the driver whose context is     *)
(* done returns.  A server may keep a statement waiting forever, on a lock *)
(* say: the code sets no timeout.                                          *)
(***************************************************************************)
Fairness ==
  \A h \in Handlers :
    /\ WF_vars(OpenPool(h))
    /\ WF_vars(cancelled[h] /\ Fails(h))
    /\ WF_vars((pc[h] = "reset" => cancelled[h]) /\ Cleanup(h))

FairSpec == Spec /\ Fairness

-----------------------------------------------------------------------------
\* Every variable has its type; the config pool stays within its limit and
\* a monitored server is not asked for more connections than it accepts.
TypeOK ==
  /\ pc \in [Handlers -> {"idle", "lookup", "lookingUp", "connect", "acquire", "rows",
                          "before", "create", "after", "reset", "release", "closePool"}]
  /\ tool \in [Handlers -> ToolNames]
  /\ db \in [Handlers -> Databases]
  /\ statement \in [Handlers -> {"none", "CREATE INDEX", "another"}]
  /\ cancelled \in [Handlers -> BOOLEAN]
  /\ result \in [Handlers -> {"none", "error", "failed", "report", "evaluated"}]
  /\ costs \in [Handlers -> [before : {"none", "plain", "withIndex"},
                             after  : {"none", "plain", "withIndex"}]]
  /\ enabled \subseteq Databases
  /\ configConns \subseteq Handlers
  /\ Cardinality(configConns) <= MaxConfigConns
  /\ backend \in [Handlers -> {"none", "held", "returned", "dead"}]
  /\ \A d \in Databases : Cardinality(Backends(d)) <= MaxBackends
  /\ index \in [Handlers -> BOOLEAN]
  /\ reachable \in [Handlers -> BOOLEAN]

(***************************************************************************)
(* However a call ends, it leaves nothing behind: no connection of either  *)
(* database and no hypothetical index, also when the reset failed or the   *)
(* call was cancelled before it (hypopg.go:83-119, active_queries.go:83-93)*)
(***************************************************************************)
NothingLeftBehind ==
  \A h \in Handlers :
    /\ pc[h] = "idle" => backend[h] = "none" /\ ~index[h] /\ h \notin configConns
    /\ index[h] =>
         /\ backend[h] \in {"held", "returned"}
         /\ pc[h] \in {"after", "reset", "release", "closePool"}

(***************************************************************************)
(* An evaluation compares plans of the same query on one connection, also  *)
(* when its backend dies or other evaluations run: costBefore never saw a  *)
(* hypothetical index, and costAfter saw the one of the statement, if the  *)
(* statement made one (hypopg.go:89-111).                                  *)
(***************************************************************************)
CostsComparable ==
  \A h \in Handlers :
    /\ costs[h].before # "withIndex"
    /\ result[h] = "evaluated" =>
         costs[h] = [before |-> "plain",
                     after  |-> IF statement[h] = "CREATE INDEX" THEN "withIndex" ELSE "plain"]

(***************************************************************************)
(* A source disabled since before the call is not connected to: whatever   *)
(* is connected was enabled at some time of the call (metadata.go:35-48). *)
(* It may have been disabled since.                                        *)
(***************************************************************************)
DisabledNotContacted ==
  \A h \in Handlers : backend[h] # "none" => reachable[h]

(***************************************************************************)
(* No call waits while it keeps others waiting: one that holds or awaits a *)
(* config connection has none to a monitored server, and pool.Close never  *)
(* waits for the connection of its own call (active_queries.go:87, 93).    *)
(***************************************************************************)
NoHoldAndWait ==
  \A h \in Handlers :
    /\ h \in configConns => pc[h] = "lookingUp"
    /\ pc[h] \in {"lookup", "lookingUp", "acquire"} => backend[h] = "none"
    /\ pc[h] = "closePool" => backend[h] # "held"

\* A cancelled call ends, with all its deferred calls, even if the servers
\* never answer (the ctx passed to every driver call).
CancelledCallEnds ==
  \A h \in Handlers : cancelled[h] ~> pc[h] = "idle"
=============================================================================
