------------------------------ MODULE Commands ------------------------------
(***************************************************************************)
(* The life of one pgcopilot process: the RunE functions of ask, watch and *)
(* mcp (cmd/pgcopilot) from their first check to the last deferred call,   *)
(* with the pools NewClient and Close of internal/db manage.               *)
(*                                                                         *)
(* Every start-up step may fail; what was set up before is undone by the   *)
(* deferred calls, last one first, on every return and on a panic.  Only   *)
(* watch handles signals, and mcp's server library while it serves:        *)
(* anywhere else one kills the process.  The handlers of mcp run           *)
(* concurrently, and the library returns when they have ended.             *)
(***************************************************************************)
EXTENDS Sequences, Integers

CONSTANT Handlers   \* concurrent tool calls of mcp

Pools == {"metrics", "config"}

VARIABLES
  cmd,       \* "ask", "watch" or "mcp"
  pc,        \* where RunE is (see TypeOK)
  deferred,  \* the pending deferred calls, the last one first
  open,      \* the pools that are open
  using,     \* the pool each handler has a connection of, or "none"
  signalled, \* a signal was received
  result     \* how RunE ended: "none" while it runs

vars == <<cmd, pc, deferred, open, using, signalled, result>>

Init ==
  /\ cmd \in {"ask", "watch", "mcp"}
  /\ pc = "configuration"
  /\ deferred = <<>>
  /\ open = {}
  /\ using = [h \in Handlers |-> "none"]
  /\ signalled = FALSE
  /\ result = "none"

\* The client being made, and the step that follows its making.
ClientOf(step) == IF step \in {"create metrics", "ping metrics"} THEN "metrics" ELSE "config"

AfterClient(pool) ==
  CASE pool = "metrics" -> "create config"
    [] pool = "config"  -> IF cmd = "mcp" THEN "tools" ELSE "provider"

\* RunE returns or panics: the deferred calls run.
Unwind(r) == pc' = "unwind" /\ result' = r

Defer(call) == deferred' = <<call>> \o deferred

-----------------------------------------------------------------------------
\* Flags, arguments and environment variables are read.
ReadConfiguration ==
  /\ pc = "configuration"
  /\ \/ /\ pc' = IF cmd = "watch" THEN "notify" ELSE "create metrics"
        /\ UNCHANGED result
     \/ Unwind("error")
  /\ UNCHANGED <<cmd, deferred, open, using, signalled>>

\* signal.NotifyContext: from here on a signal cancels ctx.
NotifyContext ==
  /\ pc = "notify"
  /\ pc' = "create metrics"
  /\ Defer("stop")
  /\ UNCHANGED <<cmd, open, using, signalled, result>>

\* NewClient: the pool is created ...
CreatePool ==
  /\ pc \in {"create metrics", "create config"}
  /\ \/ /\ open' = open \cup {ClientOf(pc)}
        /\ pc' = IF pc = "create metrics" THEN "ping metrics" ELSE "ping config"
        /\ UNCHANGED result
     \/ Unwind("error") /\ UNCHANGED open
  /\ UNCHANGED <<cmd, deferred, using, signalled>>

\* Mutant of PingPool: the pool is not closed when the ping fails.
PingPoolLeaks ==
  /\ pc \in {"ping metrics", "ping config"}
  /\ \/ /\ ~signalled
        /\ Defer(ClientOf(pc))
        /\ pc' = AfterClient(ClientOf(pc))
        /\ UNCHANGED result
     \/ Unwind("error") /\ UNCHANGED deferred
  /\ UNCHANGED <<cmd, open, using, signalled>>

\* ... and pinged; it is closed again if that fails.  The caller defers Close.
PingPool ==
  /\ pc \in {"ping metrics", "ping config"}
  /\ \/ /\ ~signalled
        /\ Defer(ClientOf(pc))
        /\ pc' = AfterClient(ClientOf(pc))
        /\ UNCHANGED <<open, result>>
     \/ /\ open' = open \ {ClientOf(pc)}
        /\ Unwind("error")
        /\ UNCHANGED deferred
  /\ UNCHANGED <<cmd, using, signalled>>

\* provider.New, then the tools and the agent are wired.
NewProvider ==
  /\ pc = "provider"
  /\ \/ /\ pc' = IF cmd = "watch" THEN "ticker" ELSE "work"
        /\ UNCHANGED result
     \/ Unwind("error")
  /\ UNCHANGED <<cmd, deferred, open, using, signalled>>

\* NewTicker panics unless the interval is positive.
NewTicker ==
  /\ pc = "ticker"
  /\ \/ pc' = "work" /\ Defer("ticker.Stop") /\ UNCHANGED result
     \/ Unwind("panic") /\ UNCHANGED deferred
  /\ UNCHANGED <<cmd, open, using, signalled>>

\* mcp converts its tools and adds them to the server.
AddTools ==
  /\ pc = "tools"
  /\ \/ pc' = "work" /\ UNCHANGED result
     \/ Unwind("error")
  /\ UNCHANGED <<cmd, deferred, open, using, signalled>>

\* Mutant of WorkEnds: the watcher's select has no branch for ctx.Done.
WorkEndsUnsignalled ==
  /\ pc = "work"
  /\ cmd # "watch"
  /\ Unwind("ok") \/ Unwind("error")
  /\ UNCHANGED <<cmd, deferred, open, using, signalled>>

\* The agent answers or fails, the watcher stops, the server ends.  ServeStdio
\* waits for the calls it has begun, after the end of its input or a signal.
WorkEnds ==
  /\ pc = "work"
  /\ CASE cmd = "ask"   -> Unwind("ok") \/ Unwind("error")
       [] cmd = "watch" -> signalled /\ Unwind("ok")
       [] cmd = "mcp"   -> /\ \A h \in Handlers : using[h] = "none"
                           /\ Unwind("ok") \/ Unwind("error")
  /\ UNCHANGED <<cmd, deferred, open, using, signalled>>

-----------------------------------------------------------------------------
\* A handler of mcp gets a connection of a pool, and gives it back.
HandlerAcquires(h, pool) ==
  /\ cmd = "mcp"
  /\ pc = "work"
  /\ using[h] = "none"
  /\ using' = [using EXCEPT ![h] = pool]
  /\ UNCHANGED <<cmd, pc, deferred, open, signalled, result>>

HandlerReleases(h) ==
  /\ using[h] # "none"
  /\ pc # "exited"
  /\ using' = [using EXCEPT ![h] = "none"]
  /\ UNCHANGED <<cmd, pc, deferred, open, signalled, result>>

\* Mutant of RunDeferred: the deferred calls run in the order of the defers.
RunDeferredFirst ==
  /\ pc = "unwind"
  /\ deferred # <<>>
  /\ open' = open \ {deferred[Len(deferred)]}
  /\ deferred' = SubSeq(deferred, 1, Len(deferred) - 1)
  /\ UNCHANGED <<cmd, pc, using, signalled, result>>

\* The last deferred call is done.  Close waits for the connections that are
\* out.
RunDeferred ==
  /\ pc = "unwind"
  /\ deferred # <<>>
  /\ \A h \in Handlers : using[h] # Head(deferred)
  /\ open' = open \ {Head(deferred)}
  /\ deferred' = Tail(deferred)
  /\ UNCHANGED <<cmd, pc, using, signalled, result>>

Exit ==
  /\ pc = "unwind"
  /\ deferred = <<>>
  /\ pc' = "exited"
  /\ UNCHANGED <<cmd, deferred, open, using, signalled, result>>

\* Is a signal delivered to the context, or does it kill the process?
SignalHandled == \E i \in 1..Len(deferred) : deferred[i] = "stop"

\* A first signal.  mcp's server library takes one while it serves, and may
\* still take it afterwards.
SignalArrives ==
  /\ pc # "exited"
  /\ ~signalled
  /\ signalled' = TRUE
  /\ \/ /\ SignalHandled \/ (cmd = "mcp" /\ pc \in {"work", "unwind"})
        /\ UNCHANGED <<pc, result>>
     \/ /\ ~SignalHandled /\ ~(cmd = "mcp" /\ pc = "work")
        /\ pc' = "exited"
        /\ result' = "killed"
  /\ UNCHANGED <<cmd, deferred, open, using>>

Main ==
  \/ ReadConfiguration
  \/ NotifyContext
  \/ CreatePool
  \/ PingPool
  \/ NewProvider
  \/ NewTicker
  \/ AddTools
  \/ WorkEnds
  \/ RunDeferred
  \/ Exit

Next ==
  \/ Main
  \/ SignalArrives
  \/ \E h \in Handlers, pool \in Pools : HandlerAcquires(h, pool)
  \/ \E h \in Handlers : HandlerReleases(h)

Spec == Init /\ [][Next]_vars

(***************************************************************************)
(* The main goroutine runs; a cancelled ping fails and, as Watch shows, a  *)
(* cancelled watcher stops.  Nothing is assumed of ask's model, of mcp's   *)
(* client or of its handlers, which may keep a connection forever.         *)
(***************************************************************************)
FairSpec == Spec /\ WF_vars(cmd = "watch" /\ Main)

-----------------------------------------------------------------------------
\* Every variable has its type, and unless the process was killed a deferred
\* Close is there for every open pool but the one that NewClient is pinging.
TypeOK ==
  /\ cmd \in {"ask", "watch", "mcp"}
  /\ pc \in {"configuration", "notify", "create metrics", "ping metrics", "create config",
             "ping config", "provider", "ticker", "tools", "work", "unwind", "exited"}
  /\ deferred \in Seq({"stop", "ticker.Stop"} \cup Pools)
  /\ open \subseteq Pools
  /\ using \in [Handlers -> Pools \cup {"none"}]
  /\ signalled \in BOOLEAN
  /\ result \in {"none", "ok", "error", "panic", "killed"}
  /\ pc \in {"ping metrics", "ping config"} => ClientOf(pc) \in open
  /\ result # "killed" =>
       \A pool \in open :
         \/ \E i \in 1..Len(deferred) : deferred[i] = pool
         \/ pc \in {"ping metrics", "ping config"} /\ ClientOf(pc) = pool

(***************************************************************************)
(* Wherever a start-up step fails, also by a panic, a process that is not  *)
(* killed exits with every pool closed (watch.go:92-127, mcp.go:41-51,     *)
(* db.go:42-46).                                                           *)
(***************************************************************************)
PoolsClosedAtExit == pc = "exited" /\ result # "killed" => open = {}

(***************************************************************************)
(* Signals stay handled until the pools are closed: a signal that arrives  *)
(* while watch closes them does not kill it, for stop is deferred first    *)
(* (watch.go:90-104).                                                      *)
(***************************************************************************)
ClosingNotKilled ==
  cmd = "watch" /\ open # {} => SignalHandled

\* A watcher that is signalled exits, during start-up as well as later
\* (watch.go:90-104: every blocking call is given ctx).
SignalledWatchExits == cmd = "watch" /\ signalled ~> pc = "exited"
=============================================================================
