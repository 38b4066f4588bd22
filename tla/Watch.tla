-------------------------------- MODULE Watch --------------------------------
(***************************************************************************)
(* The watch daemon of cmd/pgcopilot/watch.go: one goroutine that runs an  *)
(* analysis cycle at once and then one per tick, until the context of      *)
(* signal.NotifyContext is done.  A cycle is the threshold gate, one run   *)
(* of a fresh agent and, for an anomaly, one webhook request.              *)
(*                                                                         *)
(* The ticker, the signal, the sink, the model and the webhook endpoint    *)
(* are environments.  The endpoint handles requests on its own: one that   *)
(* the daemon gave up on may still be received, later.  The agent is what  *)
(* ToolLoop says of it: some turns, then an answer or an error.            *)
(***************************************************************************)
EXTENDS Gate, Sequences

CONSTANTS
  Readings,       \* what FetchMetricBaseline may return without an error
  Threshold,      \* --critical-threshold
  WebhookURL,     \* whether a webhook URL is configured
  MaxIterations,  \* the agent's turns in one cycle
  MaxCycles       \* bound: cycles begun before the signal

\* What tells answers apart: one containing "STATUS: OK", and any other,
\* the empty one included.
AnswerKinds == {"ok", "anomaly", "empty"}

ASSUME WatchAssumption ==
  /\ \A r \in Readings : ~r.error
  /\ WebhookURL \in BOOLEAN
  /\ MaxIterations \in Nat \ {0}
  /\ MaxCycles \in Nat \ {0}

VARIABLES
  pc,        \* where the daemon is (see TypeOK)
  tick,      \* ticker.C, a channel of capacity one, holds a tick
  ctxDone,   \* SIGINT or SIGTERM was received
  cycle,     \* the current or last cycle; 0 is any cycle begun after the signal
  turns,     \* the turns the agent has taken in this cycle
  response,  \* the status the endpoint sent for the request in flight
  history,   \* history: what the gate and the agent said in each cycle
  wire,      \* cycles whose webhook request the endpoint has yet to handle
  received,  \* history: the alerts the endpoint accepted, by cycle
  reported,  \* history: the cycles logged as "webhook alert dispatched"
  redirected \* history: the cycles whose POST was redirected to become a GET

daemonVars == <<pc, cycle, turns, history>>
webhookVars == <<response, wire, received, reported, redirected>>
vars == <<daemonVars, tick, ctxDone, webhookVars>>

Cycles == 0..MaxCycles
Fresh == [gate |-> "none", answer |-> "none"]

Init ==
  /\ pc = "wake"
  /\ tick = FALSE
  /\ ctxDone = FALSE
  /\ cycle = 1
  /\ turns = 0
  /\ response = "none"
  /\ history = [c \in Cycles |-> Fresh]
  /\ wire = {}
  /\ received = <<>>
  /\ reported = {}
  /\ redirected = {}

-----------------------------------------------------------------------------
\* The environment.

Signal ==
  /\ ~ctxDone
  /\ pc # "stopped"
  /\ ctxDone' = TRUE
  /\ UNCHANGED <<daemonVars, tick, webhookVars>>

\* The ticker sends without blocking: with a tick waiting this one is lost.
TickFires ==
  /\ pc # "stopped"
  /\ tick' = TRUE
  /\ UNCHANGED <<daemonVars, ctxDone, webhookVars>>

\* The endpoint accepts a request; its response counts if awaited.
EndpointAccepts(c) ==
  /\ c \in wire
  /\ wire' = wire \ {c}
  /\ received' = Append(received, c)
  /\ IF pc = "posted" /\ c = cycle
     THEN response' \in {"below300", "atLeast300"}
     ELSE UNCHANGED response
  /\ UNCHANGED <<daemonVars, tick, ctxDone, reported, redirected>>

\* A request is refused or lost.
EndpointDrops(c) ==
  /\ c \in wire
  /\ wire' = wire \ {c}
  /\ IF pc = "posted" /\ c = cycle
     THEN response' \in {"none", "atLeast300"}
     ELSE UNCHANGED response
  /\ UNCHANGED <<daemonVars, tick, ctxDone, received, reported, redirected>>

\* The endpoint answers 301, 302 or 303.  http.DefaultClient follows with a
\* GET that has no body, and the daemon sees the response to that one.  (After
\* 307 or 308 the client POSTs again: the request is still on the wire.)
EndpointRedirects(c) ==
  /\ c \in wire
  /\ pc = "posted" /\ c = cycle
  /\ wire' = wire \ {c}
  /\ redirected' = redirected \cup {c}
  /\ response' \in {"none", "below300", "atLeast300"}
  /\ UNCHANGED <<daemonVars, tick, ctxDone, received, reported>>

-----------------------------------------------------------------------------
\* One cycle.

\* The query starts, unless the context is done already.
QueryStarts ==
  /\ pc = "wake"
  /\ ~ctxDone
  /\ pc' = "gate"
  /\ UNCHANGED <<cycle, turns, history, tick, ctxDone, webhookVars>>

GateSkips ==
  /\ pc = "gate"
  /\ \E reading \in Readings : Skips(reading, Threshold)
  /\ pc' = "select"
  /\ history' = [history EXCEPT ![cycle].gate = "skipped"]
  /\ UNCHANGED <<cycle, turns, tick, ctxDone, webhookVars>>

\* The deviation is large enough, or there is none to compare.
GateDispatches ==
  /\ \/ pc = "gate" /\ \E reading \in Readings \cup {QueryError} :
                         ~Skips(reading, Threshold)
     \/ pc = "wake" /\ ctxDone /\ ~Skips(QueryError, Threshold)
  /\ pc' = "agent"
  /\ turns' = 0
  /\ history' = [history EXCEPT ![cycle].gate = "dispatched"]
  /\ UNCHANGED <<cycle, tick, ctxDone, webhookVars>>

AskModel ==
  /\ pc = "agent"
  /\ ~ctxDone
  /\ pc' = "llm"
  /\ turns' = turns + 1
  /\ UNCHANGED <<cycle, history, tick, ctxDone, webhookVars>>

\* The agent executes the calls of a turn and, if one is left, takes another.
CallTools ==
  /\ pc = "llm"
  /\ turns < MaxIterations
  /\ pc' = "agent"
  /\ UNCHANGED <<cycle, turns, history, tick, ctxDone, webhookVars>>

\* Run returns an error: cancelled, failed, or out of turns.
AgentFails ==
  /\ \/ pc = "agent" /\ ctxDone
     \/ pc = "llm"
  /\ pc' = "select"
  /\ history' = [history EXCEPT ![cycle].answer = "failed"]
  /\ UNCHANGED <<cycle, turns, tick, ctxDone, webhookVars>>

\* Mutant of Alerts: every answer is sent.
AlertsAlways(answer) == WebhookURL

Alerts(answer) == WebhookURL /\ answer # "ok"

AgentAnswers(answer) ==
  /\ pc = "llm"
  /\ pc' = IF Alerts(answer) THEN "post" ELSE "select"
  /\ history' = [history EXCEPT ![cycle].answer = answer]
  /\ UNCHANGED <<cycle, turns, tick, ctxDone, webhookVars>>

\* The request leaves the daemon.
PostSends ==
  /\ pc = "post"
  /\ ~ctxDone
  /\ pc' = "posted"
  /\ response' = "none"
  /\ wire' = wire \cup {cycle}
  /\ UNCHANGED <<cycle, turns, history, tick, ctxDone, received, reported, redirected>>

\* It never does: the endpoint cannot be reached or the context is done.
PostFails ==
  /\ pc = "post"
  /\ pc' = "select"
  /\ UNCHANGED <<cycle, turns, history, tick, ctxDone, webhookVars>>

\* Mutant of PostReturns: the status code is not looked at.
PostReturnsUnchecked ==
  /\ pc = "posted"
  /\ response # "none"
  /\ pc' = "select"
  /\ reported' = reported \cup {cycle}
  /\ UNCHANGED <<cycle, turns, history, tick, ctxDone, response, wire, received, redirected>>

PostReturns ==
  /\ pc = "posted"
  /\ response # "none"
  /\ pc' = "select"
  /\ reported' = IF response = "below300" THEN reported \cup {cycle} ELSE reported
  /\ UNCHANGED <<cycle, turns, history, tick, ctxDone, response, wire, received, redirected>>

\* Mutant of PostGivesUp: without the timeout only the signal ends the wait.
PostWaits ==
  /\ pc = "posted"
  /\ ctxDone
  /\ pc' = "select"
  /\ UNCHANGED <<cycle, turns, history, tick, ctxDone, webhookVars>>

\* The five seconds are over, the context is done or the connection broke;
\* what was sent stays sent.
PostGivesUp ==
  /\ pc = "posted"
  /\ pc' = "select"
  /\ UNCHANGED <<cycle, turns, history, tick, ctxDone, webhookVars>>

-----------------------------------------------------------------------------
\* The select of the main loop.  With both channels ready either is taken.

\* Mutant of Stop: waiting ticks are served first.
StopWhenIdle ==
  /\ pc = "select"
  /\ ctxDone
  /\ ~tick
  /\ pc' = "stopped"
  /\ UNCHANGED <<cycle, turns, history, tick, ctxDone, webhookVars>>

Stop ==
  /\ pc = "select"
  /\ ctxDone
  /\ pc' = "stopped"
  /\ UNCHANGED <<cycle, turns, history, tick, ctxDone, webhookVars>>

TakeTick ==
  /\ pc = "select"
  /\ tick
  /\ ctxDone \/ cycle < MaxCycles
  /\ tick' = FALSE
  /\ pc' = "wake"
  /\ cycle' = IF ctxDone THEN 0 ELSE cycle + 1
  /\ history' = IF ctxDone THEN [history EXCEPT ![0] = Fresh] ELSE history
  /\ UNCHANGED <<turns, ctxDone, webhookVars>>

Environment ==
  \/ Signal
  \/ TickFires
  \/ \E c \in wire : EndpointAccepts(c)
  \/ \E c \in wire : EndpointDrops(c)
  \/ \E c \in wire : EndpointRedirects(c)

Analysis ==
  \/ QueryStarts
  \/ GateSkips
  \/ GateDispatches
  \/ AskModel
  \/ CallTools
  \/ AgentFails
  \/ \E answer \in AnswerKinds : AgentAnswers(answer)
  \/ PostSends
  \/ PostFails
  \/ PostReturns
  \/ PostGivesUp

Next ==
  \/ Environment
  \/ Analysis
  \/ Stop
  \/ TakeTick

Spec == Init /\ [][Next]_vars

(***************************************************************************)
(* Fairness.  The goroutine runs; the webhook timeout expires; a query or  *)
(* a model call whose context is done returns.  Nothing else is assumed:   *)
(* the sink and the model have no timeout and may never answer, and the    *)
(* endpoint may never respond.  select picks uniformly among the ready     *)
(* channels, so the Done branch is not passed over forever (SF).           *)
(***************************************************************************)
CancelledCallReturns == ctxDone /\ (GateDispatches \/ AgentFails)

Fairness ==
  /\ WF_vars(QueryStarts)
  /\ WF_vars(AskModel)
  /\ WF_vars(CancelledCallReturns)
  /\ WF_vars(PostSends \/ PostFails)
  /\ WF_vars(PostReturns \/ PostGivesUp)
  /\ WF_vars(TakeTick)
  /\ SF_vars(Stop)

FairSpec == Spec /\ Fairness

-----------------------------------------------------------------------------
\* Every variable has its type; the agent stays within its turns, and a
\* response is awaited for a request that was sent.
TypeOK ==
  /\ pc \in {"wake", "gate", "agent", "llm", "post", "posted", "select", "stopped"}
  /\ tick \in BOOLEAN
  /\ ctxDone \in BOOLEAN
  /\ cycle \in Cycles
  /\ turns \in 0..MaxIterations
  /\ response \in {"none", "below300", "atLeast300"}
  /\ history \in [Cycles -> [gate   : {"none", "skipped", "dispatched"},
                             answer : {"none", "failed"} \cup AnswerKinds]]
  /\ wire \subseteq Cycles
  /\ received \in Seq(Cycles)
  /\ reported \subseteq Cycles
  /\ redirected \subseteq Cycles

(***************************************************************************)
(* An alert, on its way or received, comes from a cycle the gate let       *)
(* through and whose agent answered with something other than STATUS: OK;  *)
(* never from a skipped or failed cycle, nor from one begun after the      *)
(* signal, which the gate does let through (watch.go:184-240).             *)
(***************************************************************************)
AlertsJustified ==
  \A c \in Cycles :
    (c \in wire \/ \E i \in 1..Len(received) : received[i] = c)
      => /\ WebhookURL
         /\ c # 0
         /\ history[c].gate = "dispatched"
         /\ history[c].answer \in {"anomaly", "empty"}

(***************************************************************************)
(* Each cycle alerts at most once, however late its request is handled,    *)
(* and an alert the log calls dispatched was received, unless its request  *)
(* was redirected and lost its body (watch.go:260-270).  The converse      *)
(* fails: a request given up on may be received.                           *)
(***************************************************************************)
AlertsExact ==
  /\ \A i, j \in 1..Len(received) : received[i] = received[j] => i = j
  /\ \A c \in reported :
       c \in redirected \/ \E i \in 1..Len(received) : received[i] = c
  /\ \A c \in wire : \A i \in 1..Len(received) : received[i] # c

\* After a signal the daemon stops, whatever it was doing and although
\* ticks keep arriving (watch.go:90-92, 148-156).
SignalStops == ctxDone ~> pc = "stopped"

(***************************************************************************)
(* No failure of a cycle takes the daemon down, and an endpoint that never *)
(* responds does not hold it up: as long as no call to the sink or the     *)
(* model hangs forever, a tick is served, unless the signal stops the      *)
(* daemon first or the bound on cycles is reached (watch.go:179, 242-244). *)
(***************************************************************************)
TicksServed ==
  []<>(pc # "gate") /\ []<>(pc # "llm")
    => [](tick => <>(~tick \/ (pc = "stopped" /\ ctxDone) \/ cycle = MaxCycles))
=============================================================================
