------------------------------ MODULE McpServer ------------------------------
(***************************************************************************)
(* The mcp command with its handlers: the main goroutine of Commands and   *)
(* the tool calls of LiveTools in one process, over the same pools.  A     *)
(* handler has a connection of the config pool during its lookup, and one  *)
(* of the metrics pool while get_metric_trends queries it; all else that a *)
(* call waits for is on a pool of its own, which main knows nothing about. *)
(*                                                                         *)
(* ServeStdio (of mcp-go v0.46.0, go.mod:8) reads requests until its input *)
(* ends or a signal cancels its context, which the contexts of the calls   *)
(* derive from, and then waits for the calls it has begun.  When the       *)
(* process exits, its goroutines stop where they are.                      *)
(***************************************************************************)
EXTENDS LiveTools, Sequences

CONSTANT Requests  \* bound: the tools of LiveTools each handler is asked for

ASSUME McpServerAssumption == Requests \in [Handlers -> SUBSET ToolNames]

VARIABLES
  mainPc, deferred, open, signalled, mainResult,  \* Commands' pc, ...
  input,  \* "ended" once no more calls begin
  trends  \* the calls of get_metric_trends that hold a metrics connection

mainVars == <<mainPc, deferred, open, signalled, mainResult>>
serverProcess == <<vars, mainVars, input, trends>>

\* What the main goroutine sees of the handlers.
Using == [h \in Handlers |-> CASE h \in configConns -> "config"
                               [] h \in trends      -> "metrics"
                               [] OTHER             -> "none"]

Main == INSTANCE Commands WITH
  cmd <- "mcp", pc <- mainPc, result <- mainResult, using <- Using

ServerInit ==
  /\ Init
  /\ input = "open"
  /\ trends = {}
  /\ Main!Init

Serving == mainPc = "work"

-----------------------------------------------------------------------------
\* The main goroutine, except for the end of ServeStdio, and the signal.
MainStep ==
  /\ UNCHANGED <<vars, input, trends>>
  /\ (~Serving /\ Main!Main) \/ Main!SignalArrives

\* The client closes the input, or a signal ends the reading.
InputEnds ==
  /\ Serving
  /\ input = "open"
  /\ input' = "ended"
  /\ UNCHANGED <<vars, mainVars, trends>>

\* ServeStdio returns once every call has ended.
ServeStdioReturns ==
  /\ Serving
  /\ input = "ended"
  /\ \A h \in Handlers : pc[h] = "idle" /\ h \notin trends
  /\ Main!Unwind("ok") \/ Main!Unwind("error")
  /\ UNCHANGED <<vars, input, trends, deferred, open, signalled>>

\* Servers, administrators and the signal.
Outside ==
  /\ \/ \E d \in Databases : Toggle(d)
     \/ Serving /\ \E h \in Handlers : BackendDies(h) \/ (signalled /\ Cancel(h))
  /\ UNCHANGED <<mainVars, input, trends>>

\* A request reaches a handler.
Request(h) ==
  /\ Serving
  /\ input = "open"
  /\ h \notin trends
  /\ \/ \E t \in Requests[h], d \in Databases : Execute(h, t, d)
     \/ InvalidArguments(h)
  /\ UNCHANGED <<mainVars, input, trends>>

\* A step of a call.
Call(h) ==
  /\ Serving
  /\ Proceeds(h) \/ Served(h) \/ Fails(h) \/ Cleanup(h)
  /\ UNCHANGED <<mainVars, input, trends>>

\* FetchMetricBaseline for get_metric_trends ...
TrendStarts(h) ==
  /\ Serving
  /\ input = "open"
  /\ pc[h] = "idle"
  /\ h \notin trends
  /\ trends' = trends \cup {h}
  /\ UNCHANGED <<vars, mainVars, input>>

\* ... returns, with its averages or with an error.
TrendEnds(h) ==
  /\ Serving
  /\ h \in trends
  /\ trends' = trends \ {h}
  /\ UNCHANGED <<vars, mainVars, input>>

ServerNext ==
  \/ MainStep
  \/ InputEnds
  \/ ServeStdioReturns
  \/ Outside
  \/ \E h \in Handlers : Request(h) \/ Call(h) \/ TrendStarts(h) \/ TrendEnds(h)

ServerSpec == ServerInit /\ [][ServerNext]_serverProcess

(***************************************************************************)
(* Fairness: goroutines run; a signal cancels the contexts, and what waits *)
(* under a cancelled one returns.  Without a signal a query or a statement *)
(* may be waited for forever, and the client may keep its input open.      *)
(***************************************************************************)
OfCall(A) == Serving /\ A /\ UNCHANGED <<mainVars, input, trends>>

ServerFairness ==
  /\ WF_serverProcess(mainPc = "unwind" /\ MainStep)
  /\ WF_serverProcess(signalled /\ InputEnds)
  /\ WF_serverProcess(ServeStdioReturns)
  /\ \A h \in Handlers :
       /\ WF_serverProcess(OfCall(signalled /\ Cancel(h)))
       /\ WF_serverProcess(OfCall(LookupStarts(h)))
       /\ WF_serverProcess(OfCall(OpenPool(h)))
       /\ WF_serverProcess(OfCall(cancelled[h] /\ Fails(h)))
       /\ WF_serverProcess(OfCall((pc[h] = "reset" => cancelled[h]) /\ Cleanup(h)))
       /\ WF_serverProcess(signalled /\ TrendEnds(h))

ServerFairSpec == ServerSpec /\ ServerFairness

-----------------------------------------------------------------------------
\* The handlers of this server are handlers as Commands has them: they take
\* connections of the pools while main serves, and when ServeStdio returns
\* each has given its own back (mcp.go:41-77).
ImplementsCommands == Main!Spec

\* A server that is signalled while it serves exits, whatever its calls are
\* doing and although no database may ever answer them (mcp.go:77).
SignalledServerExits == signalled /\ Serving ~> mainPc = "exited"

\* A database has not answered the call yet.
Waiting(h) ==
  h \in trends \/ pc[h] \in {"lookingUp", "acquire", "rows", "before", "create", "after", "reset"}

(***************************************************************************)
(* A server whose client is gone exits, also without a signal, as long as  *)
(* no database keeps a call waiting forever; a call that hangs keeps the   *)
(* process, for nothing but a signal cancels it (mcp.go:77, db.go:55-57).  *)
(***************************************************************************)
AbandonedServerExits ==
  (\A h \in Handlers : []<>~Waiting(h)) => (input = "ended" ~> mainPc = "exited")
=============================================================================
