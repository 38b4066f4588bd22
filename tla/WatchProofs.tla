----------------------------- MODULE WatchProofs -----------------------------
(***************************************************************************)
(* The watch daemon, first alone, then with the agent in its cycles, for   *)
(* every model, tool set, set of readings, threshold and limit and every   *)
(* number of cycles: its alerts are justified and exact, its agent follows *)
(* the rules that Watch has for it, so that what is shown of Watch holds   *)
(* of the whole, and every cycle's conversation is that cycle's alone.     *)
(***************************************************************************)
EXTENDS WatchAgent, FiniteSetTheorems, TLAPS

\* The endpoint has the request of cycle c, handled or not.
Sent(c) == c \in wire \/ \E i \in 1..Len(received) : received[i] = c

\* The current cycle has not come to its webhook request.
NotYetPosted == pc \in {"wake", "gate", "agent", "llm", "post"}

\* A turn that begins is one of the MaxIterations.
TurnLeft == pc = "agent" => turns < MaxIterations

\* What history says of the current cycle, as far as it has come.
CycleSoFar ==
  /\ pc \in {"agent", "llm", "post", "posted"} => history[cycle].gate = "dispatched"
  /\ pc \in {"post", "posted"} => WebhookURL /\ history[cycle].answer \in {"anomaly", "empty"}

\* A cycle begun after the signal never gets past its agent.
AfterSignal ==
  /\ cycle = 0 => ctxDone
  /\ pc \in {"llm", "post", "posted"} => cycle # 0

\* Requests were sent by this cycle and earlier ones only.
SentSoFar ==
  \A c \in Cycles : Sent(c) =>
    /\ cycle = 0 \/ c <= cycle
    /\ NotYetPosted => c # cycle

\* A request that is answered with success was accepted or redirected.
SuccessAccepted ==
  pc = "posted" /\ response = "below300" =>
    cycle \in redirected \/ \E i \in 1..Len(received) : received[i] = cycle

AlertsInv ==
  /\ AlertsJustified
  /\ AlertsExact
  /\ CycleSoFar
  /\ AfterSignal
  /\ SentSoFar
  /\ SuccessAccepted

WatchInv == TypeOK /\ TurnLeft /\ AlertsInv

-----------------------------------------------------------------------------
LEMMA Assumptions == MaxIterations \in Nat \ {0} /\ MaxCycles \in Nat \ {0}
  BY WatchAssumption

LEMMA TypeInit == Init => TypeOK /\ TurnLeft
<1> SUFFICES ASSUME Init
             PROVE  TypeOK /\ TurnLeft
  OBVIOUS
<1>1. received \in Seq(Cycles)
  BY DEF Init
<1>2. history \in [Cycles -> [gate   : {"none", "skipped", "dispatched"},
                              answer : {"none", "failed"} \cup AnswerKinds]]
  BY DEF Init, Fresh
<1>3. cycle \in Cycles /\ turns \in 0..MaxIterations
  BY Assumptions DEF Init, Cycles
<1>4. QED
  BY <1>1, <1>2, <1>3 DEF Init, TypeOK, TurnLeft

LEMMA TypeNext == TypeOK /\ TurnLeft /\ [Next]_vars => TypeOK' /\ TurnLeft'
<1> SUFFICES ASSUME TypeOK, TurnLeft, [Next]_vars
             PROVE  TypeOK' /\ TurnLeft'
  OBVIOUS
<1> USE Assumptions DEF TypeOK, TurnLeft, Cycles, Fresh, AnswerKinds, daemonVars, webhookVars
<1>1. CASE Signal
  BY <1>1 DEF Signal
<1>2. CASE TickFires
  BY <1>2 DEF TickFires
<1>3. ASSUME NEW c \in wire, EndpointAccepts(c)
      PROVE  TypeOK' /\ TurnLeft'
  <2>1. received' \in Seq(Cycles)
    BY <1>3 DEF EndpointAccepts
  <2>2. QED
    BY <1>3, <2>1 DEF EndpointAccepts
<1>4. ASSUME NEW c \in wire, EndpointDrops(c)
      PROVE  TypeOK' /\ TurnLeft'
  BY <1>4 DEF EndpointDrops
<1>4r. ASSUME NEW c \in wire, EndpointRedirects(c)
       PROVE  TypeOK' /\ TurnLeft'
  BY <1>4r DEF EndpointRedirects
<1>5. CASE QueryStarts
  BY <1>5 DEF QueryStarts
<1>6. CASE GateSkips
  BY <1>6 DEF GateSkips
<1>7. CASE GateDispatches
  <2>1. /\ pc' = "agent" /\ turns' = 0
        /\ history' = [history EXCEPT ![cycle].gate = "dispatched"]
        /\ UNCHANGED <<cycle, tick, ctxDone, webhookVars>>
    BY <1>7 DEF GateDispatches
  <2>2. history' \in [Cycles -> [gate   : {"none", "skipped", "dispatched"},
                                  answer : {"none", "failed"} \cup AnswerKinds]]
    BY <2>1
  <2>3. QED
    BY <2>1, <2>2
<1>8. CASE AskModel
  BY <1>8 DEF AskModel
<1>9. CASE CallTools
  BY <1>9 DEF CallTools
<1>10. CASE AgentFails
  BY <1>10 DEF AgentFails
<1>11. ASSUME NEW answer \in AnswerKinds, AgentAnswers(answer)
       PROVE  TypeOK' /\ TurnLeft'
  BY <1>11 DEF AgentAnswers
<1>12. CASE PostSends
  BY <1>12 DEF PostSends
<1>13. CASE PostFails
  BY <1>13 DEF PostFails
<1>14. CASE PostReturns
  BY <1>14 DEF PostReturns
<1>15. CASE PostGivesUp
  BY <1>15 DEF PostGivesUp
<1>16. CASE Stop
  BY <1>16 DEF Stop
<1>17. CASE TakeTick
  <2>1. /\ pc' = "wake" /\ tick' = FALSE
        /\ UNCHANGED <<turns, ctxDone, webhookVars>>
    BY <1>17 DEF TakeTick
  <2>2. cycle' \in Cycles
    BY <1>17 DEF TakeTick
  <2>3. \/ history' = history
        \/ history' = [history EXCEPT ![0] = Fresh]
    BY <1>17 DEF TakeTick
  <2>4. history' \in [Cycles -> [gate   : {"none", "skipped", "dispatched"},
                                  answer : {"none", "failed"} \cup AnswerKinds]]
    BY <2>3
  <2>5. QED
    BY <2>1, <2>2, <2>4
<1>18. CASE UNCHANGED vars
  BY <1>18 DEF vars
<1>19. QED
  BY <1>1, <1>2, <1>3, <1>4, <1>4r, <1>5, <1>6, <1>7, <1>8, <1>9, <1>10, <1>11, <1>12,
     <1>13, <1>14, <1>15, <1>16, <1>17, <1>18
     DEF Next, Environment, Analysis

\* Every variable has its type, and no cycle takes more turns than the agent has.
THEOREM TypeCorrect == Spec => []TypeOK
<1>1. TypeOK /\ TurnLeft /\ [Next]_vars => TypeOK' /\ TurnLeft'
  BY TypeNext
<1>2. QED
  BY TypeInit, <1>1, PTL DEF Spec

-----------------------------------------------------------------------------
LEMMA AlertsInit == Init => AlertsInv
<1> SUFFICES ASSUME Init
             PROVE  AlertsInv
  OBVIOUS
<1>1. \A c : ~Sent(c)
  BY DEF Init, Sent
<1>2. AlertsJustified
  BY <1>1 DEF AlertsJustified, Sent
<1>3. AlertsExact
  BY DEF Init, AlertsExact
<1>4. CycleSoFar /\ AfterSignal /\ SuccessAccepted
  BY DEF Init, CycleSoFar, AfterSignal, SuccessAccepted
<1>5. SentSoFar
  BY <1>1 DEF SentSoFar
<1>6. QED
  BY <1>2, <1>3, <1>4, <1>5 DEF AlertsInv

\* Where nothing is sent or received, alerts stay justified as long as the
\* history of the cycles that sent one stays.
LEMMA NothingSent ==
  ASSUME AlertsInv, UNCHANGED <<wire, received, reported, redirected>>,
         \A c \in Cycles : Sent(c) => history'[c] = history[c]
  PROVE  /\ AlertsJustified' /\ AlertsExact'
         /\ \A c : Sent(c)' <=> Sent(c)
<1>1. \A c : Sent(c)' <=> Sent(c)
  BY DEF Sent
<1>2. AlertsJustified'
  BY <1>1 DEF AlertsInv, AlertsJustified, Sent, Cycles
<1>3. AlertsExact'
  BY DEF AlertsInv, AlertsExact
<1>4. QED
  BY <1>1, <1>2, <1>3

\* The cycle that has yet to post sent nothing; nor did cycle 0.
LEMMA CurrentNotSent ==
  ASSUME TypeOK, AlertsInv
  PROVE  ~Sent(0) /\ (NotYetPosted => ~Sent(cycle))
<1>1. 0 \in Cycles /\ cycle \in Cycles
  BY Assumptions DEF TypeOK, Cycles
<1>2. QED
  BY <1>1 DEF AlertsInv, AlertsJustified, SentSoFar, Sent

\* A step of the current cycle before its request, to any place but its own
\* agent's end, may say something new of that cycle only.
LEMMA CycleGoesOn ==
  ASSUME TypeOK, AlertsInv, NotYetPosted,
         NEW h, h \in [gate   : {"none", "skipped", "dispatched"},
                       answer : {"none", "failed"} \cup AnswerKinds],
         history' = [history EXCEPT ![cycle] = h],
         pc' # "posted", pc' # "stopped",
         pc' \in {"agent", "llm", "post"} => h.gate = "dispatched",
         pc' = "post" => WebhookURL /\ h.answer \in {"anomaly", "empty"},
         pc' \in {"llm", "post"} => cycle # 0,
         UNCHANGED <<cycle, ctxDone, wire, received, reported, redirected>>
  PROVE  AlertsInv'
<1>1. history' \in [Cycles -> [gate   : {"none", "skipped", "dispatched"},
                               answer : {"none", "failed"} \cup AnswerKinds]]
      /\ history'[cycle] = h /\ cycle \in Cycles
      /\ \A c \in Cycles : c # cycle => history'[c] = history[c]
  BY DEF TypeOK
<1>2. AlertsJustified' /\ AlertsExact' /\ \A c : Sent(c)' <=> Sent(c)
  BY <1>1, CurrentNotSent, NothingSent
<1>3. CycleSoFar' /\ AfterSignal' /\ SuccessAccepted'
  BY <1>1 DEF AlertsInv, CycleSoFar, AfterSignal, SuccessAccepted
<1>4. SentSoFar'
  BY <1>2, CurrentNotSent DEF AlertsInv, SentSoFar, NotYetPosted, Cycles
<1>5. QED
  BY <1>2, <1>3, <1>4 DEF AlertsInv

-----------------------------------------------------------------------------
\* Steps of the environment.
LEMMA AlertsEnvironment == TypeOK /\ AlertsInv /\ Environment => AlertsInv'
<1> SUFFICES ASSUME TypeOK, AlertsInv, Environment
             PROVE  AlertsInv'
  OBVIOUS
<1>1. CASE Signal \/ TickFires
  <2>1. /\ UNCHANGED <<pc, cycle, turns, history, response, wire, received, reported, redirected>>
        /\ ctxDone => ctxDone'
    BY <1>1 DEF Signal, TickFires, daemonVars, webhookVars
  <2>2. AlertsJustified' /\ AlertsExact' /\ \A c : Sent(c)' <=> Sent(c)
    BY <2>1, NothingSent
  <2>3. CycleSoFar' /\ AfterSignal' /\ SentSoFar' /\ SuccessAccepted'
    BY <2>1, <2>2 DEF AlertsInv, CycleSoFar, AfterSignal, SentSoFar, SuccessAccepted,
       NotYetPosted
  <2>4. QED
    BY <2>2, <2>3 DEF AlertsInv
<1>2. ASSUME NEW c \in wire, EndpointAccepts(c)
      PROVE  AlertsInv'
  <2>1. /\ UNCHANGED <<pc, cycle, turns, history, ctxDone, reported, redirected>>
        /\ wire' = wire \ {c}
        /\ received' = Append(received, c)
        /\ ~(pc = "posted" /\ c = cycle) => response' = response
    BY <1>2 DEF EndpointAccepts, daemonVars
  <2>2. /\ c \in Cycles
        /\ Len(received) \in Nat /\ Len(received') = Len(received) + 1
        /\ \A i \in 1..Len(received) : received'[i] = received[i]
        /\ received'[Len(received) + 1] = c
    BY <2>1 DEF TypeOK
  <2>3. \A d : Sent(d)' <=> Sent(d)
    BY <2>1, <2>2 DEF Sent
  <2>4. AlertsJustified'
    BY <2>1, <2>3 DEF AlertsInv, AlertsJustified, Sent, Cycles
  <2>5. AlertsExact'
    BY <2>1, <2>2 DEF AlertsInv, AlertsExact
  <2>6. CycleSoFar' /\ AfterSignal' /\ SentSoFar'
    BY <2>1, <2>3 DEF AlertsInv, CycleSoFar, AfterSignal, SentSoFar, NotYetPosted
  <2>7. SuccessAccepted'
    BY <2>1, <2>2 DEF AlertsInv, SuccessAccepted
  <2>8. QED
    BY <2>4, <2>5, <2>6, <2>7 DEF AlertsInv
<1>3. ASSUME NEW c \in wire, EndpointDrops(c)
      PROVE  AlertsInv'
  <2>1. /\ UNCHANGED <<pc, cycle, turns, history, ctxDone, received, reported, redirected>>
        /\ wire' = wire \ {c}
        /\ \/ response' = response
           \/ response' \in {"none", "atLeast300"}
    BY <1>3 DEF EndpointDrops, daemonVars
  <2>2. \A d : Sent(d)' => Sent(d)
    BY <2>1 DEF Sent
  <2>3. AlertsJustified'
    BY <2>1, <2>2 DEF AlertsInv, AlertsJustified, Sent, Cycles
  <2>4. AlertsExact'
    BY <2>1 DEF AlertsInv, AlertsExact
  <2>5. CycleSoFar' /\ AfterSignal' /\ SentSoFar'
    BY <2>1, <2>2 DEF AlertsInv, CycleSoFar, AfterSignal, SentSoFar, NotYetPosted
  <2>6. SuccessAccepted'
    BY <2>1 DEF AlertsInv, SuccessAccepted
  <2>7. QED
    BY <2>3, <2>4, <2>5, <2>6 DEF AlertsInv
<1>4. ASSUME NEW c \in wire, EndpointRedirects(c)
      PROVE  AlertsInv'
  <2>1. /\ UNCHANGED <<pc, cycle, turns, history, ctxDone, received, reported>>
        /\ wire' = wire \ {c}
        /\ c = cycle /\ redirected' = redirected \cup {cycle}
    BY <1>4 DEF EndpointRedirects, daemonVars
  <2>2. \A d : Sent(d)' => Sent(d)
    BY <2>1 DEF Sent
  <2>3. AlertsJustified'
    BY <2>1, <2>2 DEF AlertsInv, AlertsJustified, Sent, Cycles
  <2>4. AlertsExact'
    BY <2>1 DEF AlertsInv, AlertsExact
  <2>5. CycleSoFar' /\ AfterSignal' /\ SentSoFar'
    BY <2>1, <2>2 DEF AlertsInv, CycleSoFar, AfterSignal, SentSoFar, NotYetPosted
  <2>6. SuccessAccepted'
    BY <2>1 DEF SuccessAccepted
  <2>7. QED
    BY <2>3, <2>4, <2>5, <2>6 DEF AlertsInv
<1>5. QED
  BY <1>1, <1>2, <1>3, <1>4 DEF Environment

\* Steps from the beginning of a cycle to the answer of its agent.
LEMMA AlertsGateAndAgent ==
  ASSUME TypeOK, AlertsInv,
         \/ QueryStarts \/ GateSkips \/ GateDispatches \/ AskModel \/ CallTools
         \/ AgentFails \/ \E answer \in AnswerKinds : AgentAnswers(answer)
  PROVE  AlertsInv'
<1> DEFINE now == history[cycle]
           Record == [gate   : {"none", "skipped", "dispatched"},
                      answer : {"none", "failed"} \cup AnswerKinds]
<1>1. /\ now \in Record
      /\ history = [history EXCEPT ![cycle] = now]
      /\ cycle \in Cycles
  BY DEF TypeOK
<1>2. CASE QueryStarts
  BY <1>1, <1>2, CycleGoesOn DEF QueryStarts, NotYetPosted, webhookVars
<1>3. CASE GateSkips
  <2>1. [now EXCEPT !.gate = "skipped"] \in Record
    BY <1>1
  <2>2. QED
    BY <1>1, <1>3, <2>1, CycleGoesOn DEF GateSkips, NotYetPosted, webhookVars
<1>4. CASE GateDispatches
  <2>1. /\ [now EXCEPT !.gate = "dispatched"] \in Record
        /\ [now EXCEPT !.gate = "dispatched"].gate = "dispatched"
    BY <1>1
  <2>2. /\ pc \in {"wake", "gate"} /\ pc' = "agent"
        /\ history' = [history EXCEPT ![cycle] = [now EXCEPT !.gate = "dispatched"]]
        /\ UNCHANGED <<cycle, ctxDone, wire, received, reported, redirected>>
    BY <1>4 DEF GateDispatches, webhookVars
  <2>3. QED
    BY <2>1, <2>2, CycleGoesOn DEF NotYetPosted
<1>5. CASE AskModel
  <2>1. /\ pc = "agent" /\ pc' = "llm" /\ cycle # 0 /\ now.gate = "dispatched"
        /\ history' = [history EXCEPT ![cycle] = now]
        /\ UNCHANGED <<cycle, ctxDone, wire, received, reported, redirected>>
    BY <1>1, <1>5 DEF AskModel, webhookVars, AlertsInv, AfterSignal, CycleSoFar
  <2>2. QED
    BY <1>1, <2>1, CycleGoesOn DEF NotYetPosted
<1>6. CASE CallTools
  <2>1. /\ pc = "llm" /\ pc' = "agent" /\ now.gate = "dispatched"
        /\ history' = [history EXCEPT ![cycle] = now]
        /\ UNCHANGED <<cycle, ctxDone, wire, received, reported, redirected>>
    BY <1>1, <1>6 DEF CallTools, webhookVars, AlertsInv, CycleSoFar
  <2>2. QED
    BY <1>1, <2>1, CycleGoesOn DEF NotYetPosted
<1>7. CASE AgentFails
  <2>1. [now EXCEPT !.answer = "failed"] \in Record
    BY <1>1
  <2>2. /\ pc \in {"agent", "llm"} /\ pc' = "select"
        /\ history' = [history EXCEPT ![cycle] = [now EXCEPT !.answer = "failed"]]
        /\ UNCHANGED <<cycle, ctxDone, wire, received, reported, redirected>>
    BY <1>7 DEF AgentFails, webhookVars
  <2>3. QED
    BY <2>1, <2>2, CycleGoesOn DEF NotYetPosted
<1>8. ASSUME NEW answer \in AnswerKinds, AgentAnswers(answer)
      PROVE  AlertsInv'
  <2>1. /\ [now EXCEPT !.answer = answer] \in Record
        /\ [now EXCEPT !.answer = answer].answer = answer
        /\ [now EXCEPT !.answer = answer].gate = now.gate
    BY <1>1
  <2>2. /\ pc = "llm" /\ pc' \in {"post", "select"}
        /\ pc' = "post" => WebhookURL /\ answer \in {"anomaly", "empty"}
        /\ cycle # 0 /\ now.gate = "dispatched"
        /\ history' = [history EXCEPT ![cycle] = [now EXCEPT !.answer = answer]]
        /\ UNCHANGED <<cycle, ctxDone, wire, received, reported, redirected>>
    BY <1>8 DEF AgentAnswers, Alerts, AnswerKinds, webhookVars, AlertsInv, AfterSignal,
       CycleSoFar
  <2>3. QED
    BY <2>1, <2>2, CycleGoesOn DEF NotYetPosted
<1>9. QED
  BY <1>2, <1>3, <1>4, <1>5, <1>6, <1>7, <1>8

\* The webhook request, as far as the daemon knows, and the main loop.
LEMMA AlertsWebhookAndLoop ==
  ASSUME TypeOK, AlertsInv,
         \/ PostSends \/ PostFails \/ PostReturns \/ PostGivesUp \/ Stop \/ TakeTick
  PROVE  AlertsInv'
<1> USE DEF webhookVars
<1>1. CASE PostSends
  <2>1. /\ pc = "post" /\ pc' = "posted" /\ ~ctxDone /\ response' = "none"
        /\ wire' = wire \cup {cycle}
        /\ UNCHANGED <<cycle, turns, history, ctxDone, received, reported, redirected>>
    BY <1>1 DEF PostSends
  <2>2. /\ cycle \in Cycles /\ cycle # 0 /\ ~Sent(cycle)
        /\ WebhookURL /\ history[cycle].gate = "dispatched"
        /\ history[cycle].answer \in {"anomaly", "empty"}
    BY <2>1, CurrentNotSent
       DEF TypeOK, AlertsInv, CycleSoFar, AfterSignal, NotYetPosted
  <2>3. \A c : Sent(c)' <=> Sent(c) \/ c = cycle
    BY <2>1 DEF Sent
  <2>4. AlertsJustified'
    BY <2>1, <2>2, <2>3 DEF AlertsInv, AlertsJustified, Sent, Cycles
  <2>5. AlertsExact'
    BY <2>1, <2>2 DEF AlertsInv, AlertsExact, Sent
  <2>6. CycleSoFar' /\ AfterSignal' /\ SuccessAccepted'
    BY <2>1, <2>2 DEF AlertsInv, CycleSoFar, AfterSignal, SuccessAccepted
  <2>7. SentSoFar'
    BY <2>1, <2>2, <2>3 DEF AlertsInv, SentSoFar, NotYetPosted, Cycles
  <2>8. QED
    BY <2>4, <2>5, <2>6, <2>7 DEF AlertsInv
<1>2. CASE PostFails \/ PostGivesUp \/ Stop
  <2>1. /\ pc' \in {"select", "stopped"}
        /\ UNCHANGED <<cycle, turns, history, ctxDone, response, wire, received, reported, redirected>>
    BY <1>2 DEF PostFails, PostGivesUp, Stop
  <2>2. AlertsJustified' /\ AlertsExact' /\ \A c : Sent(c)' <=> Sent(c)
    BY <2>1, NothingSent
  <2>3. CycleSoFar' /\ AfterSignal' /\ SentSoFar' /\ SuccessAccepted'
    BY <2>1, <2>2 DEF AlertsInv, CycleSoFar, AfterSignal, SentSoFar, SuccessAccepted,
       NotYetPosted
  <2>4. QED
    BY <2>2, <2>3 DEF AlertsInv
<1>3. CASE PostReturns
  <2>1. /\ pc = "posted" /\ pc' = "select"
        /\ reported' = IF response = "below300" THEN reported \cup {cycle} ELSE reported
        /\ UNCHANGED <<cycle, turns, history, ctxDone, response, wire, received, redirected>>
    BY <1>3 DEF PostReturns
  <2>2. \A c : Sent(c)' <=> Sent(c)
    BY <2>1 DEF Sent
  <2>3. AlertsJustified'
    BY <2>1 DEF AlertsInv, AlertsJustified
  <2>4. \A c \in reported' :
          c \in redirected' \/ \E i \in 1..Len(received') : received'[i] = c
    BY <2>1 DEF AlertsInv, AlertsExact, SuccessAccepted
  <2>5. AlertsExact'
    BY <2>1, <2>4 DEF AlertsInv, AlertsExact
  <2>6. CycleSoFar' /\ AfterSignal' /\ SentSoFar' /\ SuccessAccepted'
    BY <2>1, <2>2 DEF AlertsInv, CycleSoFar, AfterSignal, SentSoFar, SuccessAccepted,
       NotYetPosted
  <2>7. QED
    BY <2>3, <2>5, <2>6 DEF AlertsInv
<1>4. CASE TakeTick
  <2>1. /\ pc' = "wake"
        /\ UNCHANGED <<turns, ctxDone, response, wire, received, reported, redirected>>
    BY <1>4 DEF TakeTick
  <2>2. \A c \in Cycles : Sent(c) => history'[c] = history[c]
    BY <1>4, CurrentNotSent DEF TakeTick, TypeOK
  <2>3. AlertsJustified' /\ AlertsExact' /\ \A c : Sent(c)' <=> Sent(c)
    BY <2>1, <2>2, NothingSent
  <2>4. CycleSoFar' /\ SuccessAccepted'
    BY <2>1 DEF CycleSoFar, SuccessAccepted
  <2>5. CASE ctxDone
    <3>1. cycle' = 0
      BY <1>4, <2>5 DEF TakeTick
    <3>2. QED
      BY <2>1, <2>3, <2>4, <2>5, <3>1, CurrentNotSent
         DEF AlertsInv, AfterSignal, SentSoFar, Cycles
  <2>6. CASE ~ctxDone
    <3>1. cycle' = cycle + 1 /\ cycle # 0 /\ cycle \in 0..MaxCycles
      BY <1>4, <2>6 DEF TakeTick, AlertsInv, AfterSignal, TypeOK, Cycles
    <3>2. \A c \in Cycles : Sent(c) => c < cycle'
      BY <3>1, Assumptions DEF AlertsInv, SentSoFar, Cycles
    <3>3. AfterSignal' /\ SentSoFar'
      BY <2>1, <2>3, <3>1, <3>2, Assumptions DEF AfterSignal, SentSoFar, Cycles
    <3>4. QED
      BY <2>3, <2>4, <3>3 DEF AlertsInv
  <2>7. QED
    BY <2>5, <2>6
<1>5. QED
  BY <1>1, <1>2, <1>3, <1>4

-----------------------------------------------------------------------------
LEMMA AlertsNext == TypeOK /\ AlertsInv /\ [Next]_vars => AlertsInv'
<1>1. ASSUME AlertsInv, UNCHANGED vars
      PROVE  AlertsInv'
  BY <1>1 DEF vars, daemonVars, webhookVars, AlertsInv, AlertsJustified, AlertsExact,
     CycleSoFar, AfterSignal, SentSoFar, SuccessAccepted, NotYetPosted, Sent
<1>2. QED
  BY <1>1, AlertsEnvironment, AlertsGateAndAgent, AlertsWebhookAndLoop
     DEF Next, Analysis

LEMMA WatchInvariant == Spec => []WatchInv
<1>1. Init => WatchInv
  BY TypeInit, AlertsInit DEF WatchInv
<1>2. WatchInv /\ [Next]_vars => WatchInv'
  BY TypeNext, AlertsNext DEF WatchInv
<1>3. QED
  BY <1>1, <1>2, PTL DEF Spec

\* An alert comes from a cycle that the gate let through and whose agent did
\* not answer STATUS: OK, and never from one begun after the signal.
THEOREM AlertsAreJustified == Spec => []AlertsJustified
<1>1. WatchInv => AlertsJustified
  BY DEF WatchInv, AlertsInv
<1>2. QED
  BY WatchInvariant, <1>1, PTL

\* A cycle alerts at most once, and an alert that the log calls dispatched was
\* received or its request was redirected (watch.go:260-270).
THEOREM AlertsAreExact == Spec => []AlertsExact
<1>1. WatchInv => AlertsExact
  BY DEF WatchInv, AlertsInv
<1>2. QED
  BY WatchInvariant, <1>1, PTL

-----------------------------------------------------------------------------
(***************************************************************************)
(* The daemon with its agent.                                              *)
(***************************************************************************)
\* The theorems about Agent, for the agent of a cycle.
Of == INSTANCE AgentProofs WITH pc <- agPc, MaxRuns <- 1, runs <- 1

\* Where the agent is in a turn, the daemon waits for it.
InTurn == agPc \in {"llm", "tool", "exec"}

Linked ==
  /\ pc = "agent" <=> agPc = "loop"
  /\ pc = "llm" <=> InTurn
  /\ agPc = "loop" => turns = iter
  /\ InTurn => turns = iter + 1

-----------------------------------------------------------------------------
(***************************************************************************)
(* The daemon.  Every step of the whole is a step of Watch, or one within  *)
(* a turn, which Watch does not see.                                       *)
(***************************************************************************)
LEMMA LinkedInit == WholeInit => Linked
  BY DEF WholeInit, Init, Linked, InTurn

LEMMA StepIsWatch == Linked /\ [WholeNext]_wholeVars => [Next]_vars /\ Linked'
<1> SUFFICES ASSUME Linked, [WholeNext]_wholeVars
             PROVE  [Next]_vars /\ Linked'
  OBVIOUS
<1> USE DEF Linked, InTurn
<1>1. CASE (Environment \/ Daemon) /\ UNCHANGED agentVars
  <2>1. Next
    BY <1>1 DEF Daemon, Next, Analysis
  <2>2. UNCHANGED <<agPc, iter>>
    BY <1>1 DEF agentVars
  <2>3. CASE Environment
    BY <1>1, <2>1, <2>2, <2>3
    DEF Environment, Signal, TickFires, EndpointAccepts, EndpointDrops,
        EndpointRedirects, daemonVars
  <2>4. CASE Daemon
    <3>1. /\ pc \notin {"agent", "llm"} /\ pc' \notin {"agent", "llm"}
      BY <2>4
      DEF Daemon, QueryStarts, GateSkips, PostSends, PostFails, PostReturns, PostGivesUp,
          Stop, TakeTick
    <3>2. QED
      BY <2>1, <2>2, <3>1
  <2>5. QED
    BY <1>1, <2>3, <2>4
<1>2. CASE Dispatch
  BY <1>2 DEF Dispatch, NewRun, GateDispatches, Next, Analysis
<1>3. CASE Asks
  <2>1. AskModel
    BY <1>3 DEF Asks, Ag!CallModel, AskModel
  <2>2. Linked'
    BY <1>3 DEF Asks, Ag!CallModel
  <2>3. QED
    BY <2>1, <2>2 DEF Next, Analysis
<1>4. CASE Fails
  <2>1. AgentFails
    BY <1>4 DEF Fails, RunFailed, Ag!ModelFails, AgentFails
  <2>2. Linked'
    BY <1>4 DEF Fails, RunFailed, Ag!ModelFails, Ag!Return
  <2>3. QED
    BY <2>1, <2>2 DEF Next, Analysis
<1>5. ASSUME NEW reply \in Replies, Answers(reply)
      PROVE  [Next]_vars /\ Linked'
  <2>1. reply.content \in AnswerKinds
    BY WatchAgentAssumption
  <2>2. AgentAnswers(reply.content)
    BY <1>5 DEF Answers
  <2>3. Linked'
    BY <1>5 DEF Answers, Ag!ModelAnswers, Ag!Return, AgentAnswers
  <2>4. QED
    BY <2>1, <2>2, <2>3 DEF Next, Analysis
<1>6. CASE Works
  BY <1>6
  DEF Works, Ag!ModelAsksForTools, Ag!ToolNotFound, Ag!ToolBlocked, Ag!ToolStarts,
      Ag!ToolReturns, Ag!AnswerCall, vars, daemonVars
<1>7. CASE TurnEnds
  <2>0. pc = "llm" /\ turns = iter + 1
    BY <1>7 DEF TurnEnds, Ag!NextIteration
  <2>1. CASE agPc' = "loop"
    <3>1. iter + 1 < MaxIterations /\ iter' = iter + 1
      BY <1>7, <2>1 DEF TurnEnds, Ag!NextIteration, Ag!Return
    <3>2. pc' = "agent" /\ UNCHANGED <<cycle, turns, history, tick, ctxDone, webhookVars>>
      BY <1>7, <2>1 DEF TurnEnds
    <3>3. CallTools
      BY <2>0, <3>1, <3>2 DEF CallTools
    <3>4. QED
      BY <2>0, <2>1, <3>1, <3>2, <3>3 DEF Next, Analysis
  <2>2. CASE agPc' = "idle" /\ RunFailed
    <3>1. AgentFails
      BY <2>0, <2>2 DEF RunFailed, AgentFails
    <3>2. QED
      BY <2>2, <3>1 DEF RunFailed, Next, Analysis
  <2>3. QED
    BY <1>7, <2>1, <2>2 DEF TurnEnds
<1>8. CASE UNCHANGED wholeVars
  BY <1>8 DEF wholeVars, vars, daemonVars, agentVars
<1>9. QED
  BY <1>1, <1>2, <1>3, <1>4, <1>5, <1>6, <1>7, <1>8 DEF WholeNext

\* With the agent in it the daemon is the one Watch describes, as far as
\* safety goes: no more than MaxIterations turns a cycle, and no answer, error
\* or next turn but where Watch allows it (watch.go:218-231, agent.go:71-93).
THEOREM DaemonIsWatch == WholeSpec => Spec
<1>1. WholeInit => Init /\ Linked
  BY LinkedInit DEF WholeInit
<1>2. QED
  BY <1>1, StepIsWatch, PTL DEF WholeSpec, Spec

\* So, whatever the agent does in its cycles, an alert comes from a cycle that
\* was let through and answered with an anomaly (watch.go:184-240) ...
THEOREM WholeAlertsAreJustified == WholeSpec => []AlertsJustified
  BY DaemonIsWatch, AlertsAreJustified, PTL

\* ... at most once from each, and received if the log calls it dispatched and
\* its request was not redirected (watch.go:260-270).
THEOREM WholeAlertsAreExact == WholeSpec => []AlertsExact
  BY DaemonIsWatch, AlertsAreExact, PTL

-----------------------------------------------------------------------------
(***************************************************************************)
(* The agent.  Within a cycle its steps are steps of Agent, so that the    *)
(* invariants of AgentProofs hold throughout it; a new cycle starts over.  *)
(***************************************************************************)
LEMMA AgentsAssumption ==
  /\ Tools \in Seq([name : Names, perm : Of!Permissions])
  /\ Mode \in {Of!ModeReadOnly, Of!ModeConfirm}
  /\ Replies \subseteq [content : Texts, calls : Seq(Of!ToolCall)]
  /\ MaxIterations \in Nat \ {0}
  /\ 1 \in Nat
  BY WatchAgentAssumption, Assumptions
  DEF Ag!Permissions, Of!Permissions, Ag!ModeReadOnly, Of!ModeReadOnly, Ag!ModeConfirm,
      Of!ModeConfirm, Ag!ToolCall, Of!ToolCall, Ag!PermissionReadOnly,
      Of!PermissionReadOnly, Ag!PermissionWrite, Of!PermissionWrite,
      Ag!PermissionDangerous, Of!PermissionDangerous

AgentInv == Of!IInv /\ Of!EffectsInv

LEMMA AgentStep == AgentInv /\ Of!Next => AgentInv'
<1>1. Of!IInv /\ Of!Next => Of!IInv'
  BY AgentsAssumption, Of!StepInv
<1>2. Of!IInv /\ Of!EffectsInv /\ Of!Next => Of!EffectsInv'
  BY AgentsAssumption, Of!EffectsStep
<1>3. QED
  BY <1>1, <1>2 DEF AgentInv

\* A step of the agent in a cycle is a step of Agent.
AgentActs ==
  \/ Asks
  \/ Fails
  \/ \E reply \in Replies : Answers(reply)
  \/ Works
  \/ TurnEnds

LEMMA ActsIsNext == AgentActs => Of!Next
<1>1. Asks => Of!Next
  BY DEF Asks, Ag!CallModel, Of!CallModel, Of!Next
<1>2. Fails => Of!Next
  BY DEF Fails, Ag!ModelFails, Ag!Return, Of!ModelFails, Of!Return, Of!Next
<1>3. ASSUME NEW reply \in Replies, Answers(reply)
      PROVE  Of!Next
  BY <1>3
  DEF Answers, Ag!ModelAnswers, Ag!Return, Ag!AssistantMessage, Of!ModelAnswers, Of!Return,
      Of!AssistantMessage, Of!Next
<1>4. ASSUME Works
      PROVE  Of!Next
  <2>1. CASE \E reply \in Replies : Ag!ModelAsksForTools(reply)
    BY <2>1
    DEF Ag!ModelAsksForTools, Ag!AssistantMessage, Of!ModelAsksForTools,
        Of!AssistantMessage, Of!Next
  <2> USE DEF Ag!AnswerCall, Of!AnswerCall, Ag!ToolMessage, Of!ToolMessage, Ag!Call,
              Of!Call, Ag!Calls, Of!Calls, Ag!ToolIndex, Of!ToolIndex, Ag!Permits,
              Of!Permits, Ag!ModeReadOnly, Of!ModeReadOnly, Ag!ModeConfirm,
              Of!ModeConfirm, Ag!PermissionReadOnly, Of!PermissionReadOnly
  <2>2. CASE Ag!ToolNotFound
    BY <2>2 DEF Ag!ToolNotFound, Of!ToolNotFound, Of!Next
  <2>3. CASE Ag!ToolBlocked
    BY <2>3 DEF Ag!ToolBlocked, Of!ToolBlocked, Of!Next
  <2>4. CASE Ag!ToolStarts
    BY <2>4 DEF Ag!ToolStarts, Of!ToolStarts, Of!Next
  <2>5. CASE Ag!ToolReturns
    BY <2>5 DEF Ag!ToolReturns, Of!ToolReturns, Of!Next
  <2>6. QED
    BY <1>4, <2>1, <2>2, <2>3, <2>4, <2>5 DEF Works
<1>5. TurnEnds => Of!Next
  BY DEF TurnEnds, Ag!NextIteration, Ag!Return, Ag!Calls, Of!NextIteration, Of!Return,
         Of!Calls, Of!Next
<1>6. QED
  BY <1>1, <1>2, <1>3, <1>4, <1>5 DEF AgentActs

\* A step of the daemon alone may cancel the context and changes nothing else
\* of what the agent's invariants speak of.
LEMMA DaemonKeepsAgent ==
  ASSUME AgentInv, UNCHANGED agentVars, ctxDone' \in BOOLEAN
  PROVE  AgentInv'
<1> USE DEF agentVars, Of!Calls, Of!Call, Of!InTurn, Of!Answers
<1>1. Of!TypeOK'
  BY DEF AgentInv, Of!IInv, Of!TypeOK, Of!Message, Of!ToolCall, Of!ToolTexts
<1>2. Of!TurnInv' /\ Of!Paired' /\ Of!Complete' /\ Of!Backed'
  BY DEF AgentInv, Of!IInv, Of!TurnInv, Of!Paired, Of!Complete, Of!Backed
<1>3. Of!Ordered' /\ Of!Placed' /\ Of!Matched' /\ Of!Permitted'
  BY DEF AgentInv, Of!EffectsInv, Of!Ordered, Of!Placed, Of!Matched, Of!Permitted,
         Of!FromTool
<1>4. QED
  BY <1>1, <1>2, <1>3 DEF AgentInv, Of!IInv, Of!EffectsInv

\* So does a fresh agent, whatever the one before it left.
LEMMA FreshAgent ==
  ASSUME AgentInv, NewRun, ctxDone' \in BOOLEAN
  PROVE  AgentInv'
<1> DEFINE m == Ag!UserMessage
<1>0. m \in Of!Message /\ m.calls = <<>> /\ m.role = "user"
  BY DEF Ag!UserMessage, Of!Message
<1>1. /\ conversation' = <<m>> /\ Len(conversation') = 1 /\ conversation'[1] = m
      /\ executed' = <<>> /\ Len(executed') = 0
      /\ agPc' = "loop" /\ iter' = 0 /\ outcome' = "none" /\ UNCHANGED <<turn, next>>
  BY DEF NewRun
<1> HIDE DEF m
<1>2. Of!TypeOK'
  <2>1. conversation' \in Seq(Of!Message) /\ executed' \in Seq(Nat)
    BY <1>0, <1>1
  <2>2. Of!Message' = Of!Message
    BY DEF Of!Message, Of!ToolTexts, Of!ToolCall
  <2>3. 0 \in 0..(MaxIterations - 1)
    BY Assumptions
  <2>4. turn' \in Nat /\ next' \in Nat
    BY <1>1 DEF AgentInv, Of!IInv, Of!TypeOK
  <2>5. QED
    BY <1>1, <2>1, <2>2, <2>3, <2>4 DEF Of!TypeOK
<1>3. Of!TurnInv' /\ Of!Paired' /\ Of!Complete' /\ Of!Backed'
  BY <1>0, <1>1 DEF Of!InTurn, Of!TurnInv, Of!Paired, Of!Complete, Of!Backed
<1>4. Of!Ordered' /\ Of!Placed' /\ Of!Matched' /\ Of!Permitted'
  BY <1>0, <1>1 DEF Of!Ordered, Of!Placed, Of!Matched, Of!Permitted, Of!FromTool
<1>5. QED
  BY <1>2, <1>3, <1>4 DEF AgentInv, Of!IInv, Of!EffectsInv

LEMMA AgentInit == WholeInit => AgentInv
<1> SUFFICES ASSUME WholeInit
             PROVE  AgentInv
  OBVIOUS
<1>1. Of!TypeOK
  <2>1. 0 \in 0..(MaxIterations - 1)
    BY Assumptions
  <2>2. <<>> \in Seq(Of!Message) /\ <<>> \in Seq(Nat)
    OBVIOUS
  <2>3. QED
    BY <2>1, <2>2 DEF WholeInit, Init, Of!TypeOK
<1>2. Of!TurnInv /\ Of!Paired /\ Of!Complete /\ Of!Backed
  BY DEF WholeInit, Of!InTurn, Of!TurnInv, Of!Paired, Of!Complete, Of!Backed
<1>3. Of!Ordered /\ Of!Placed /\ Of!Matched /\ Of!Permitted
  BY DEF WholeInit, Of!Ordered, Of!Placed, Of!Matched, Of!Permitted
<1>4. QED
  BY <1>1, <1>2, <1>3 DEF AgentInv, Of!IInv, Of!EffectsInv

LEMMA AgentKeeps == AgentInv /\ TypeOK' /\ [WholeNext]_wholeVars => AgentInv'
<1> SUFFICES ASSUME AgentInv, TypeOK', [WholeNext]_wholeVars
             PROVE  AgentInv'
  OBVIOUS
<1>0. ctxDone' \in BOOLEAN
  BY DEF TypeOK
<1>1. CASE UNCHANGED agentVars
  BY <1>0, <1>1, DaemonKeepsAgent
<1>2. CASE Dispatch
  BY <1>0, <1>2, FreshAgent DEF Dispatch
<1>3. CASE AgentActs
  BY <1>3, ActsIsNext, AgentStep
<1>4. QED
  BY <1>1, <1>2, <1>3 DEF WholeNext, AgentActs, wholeVars

-----------------------------------------------------------------------------
(***************************************************************************)
(* The conversation of a cycle: it starts with the cycle's prompt, has no  *)
(* other, and a reply of the model for each turn.                          *)
(***************************************************************************)
Assistants == {i \in 1..Len(conversation) : conversation[i].role = "assistant"}

OfThisCycle ==
  agPc # "idle" =>
    /\ Len(conversation) > 0
    /\ conversation[1] = Ag!UserMessage
    /\ \A i \in 2..Len(conversation) : conversation[i].role # "user"
    /\ Cardinality(Assistants) = IF agPc \in {"loop", "llm"} THEN iter ELSE iter + 1

LEMMA AssistantsFinite ==
  ASSUME conversation \in Seq(Of!Message)
  PROVE  IsFiniteSet(Assistants)
<1>1. Len(conversation) \in Nat
  OBVIOUS
<1>2. IsFiniteSet(1..Len(conversation))
  BY <1>1, FS_Interval
<1>3. Assistants \subseteq 1..Len(conversation)
  BY DEF Assistants
<1>4. QED
  BY <1>2, <1>3, FS_Subset

\* Appending a message that is not the user's keeps the beginning, and counts
\* if it is the model's.
LEMMA AppendGoesOn ==
  ASSUME conversation \in Seq(Of!Message), Len(conversation) > 0,
         conversation[1] = Ag!UserMessage,
         \A i \in 2..Len(conversation) : conversation[i].role # "user",
         NEW m \in Of!Message, m.role # "user",
         conversation' = Append(conversation, m)
  PROVE  /\ Len(conversation') > 0
         /\ conversation'[1] = Ag!UserMessage
         /\ \A i \in 2..Len(conversation') : conversation'[i].role # "user"
         /\ Cardinality(Assistants') = IF m.role = "assistant"
                                       THEN Cardinality(Assistants) + 1
                                       ELSE Cardinality(Assistants)
<1> DEFINE n == Len(conversation)
<1>0. n \in Nat
  OBVIOUS
<1>1. /\ Len(conversation') = n + 1
      /\ \A i \in 1..n : conversation'[i] = conversation[i]
      /\ conversation'[n + 1] = m
  OBVIOUS
<1>2. Ag!UserMessage' = Ag!UserMessage
  BY DEF Ag!UserMessage
<1> HIDE DEF n
<1>3. Len(conversation') > 0 /\ conversation'[1] = Ag!UserMessage
  BY <1>0, <1>1 DEF n
<1>4. ASSUME NEW i \in 2..(n + 1)
      PROVE  conversation'[i].role # "user"
  <2>1. CASE i = n + 1
    BY <1>1, <2>1
  <2>2. CASE i # n + 1
    <3>1. i \in 2..n /\ i \in 1..n
      BY <1>0, <2>2
    <3>2. QED
      BY <1>1, <3>1 DEF n
  <2>3. QED
    BY <2>1, <2>2
<1>5. CASE m.role = "assistant"
  <2>1. Assistants' = Assistants \cup {n + 1}
    <3>1. ASSUME NEW i \in 1..(n + 1), conversation'[i].role = "assistant"
          PROVE  i \in Assistants \cup {n + 1}
      <4>1. CASE i # n + 1
        <5>1. i \in 1..n
          BY <1>0, <4>1
        <5>2. QED
          BY <1>1, <3>1, <5>1 DEF Assistants, n
      <4>2. QED
        BY <4>1
    <3>2. ASSUME NEW i \in Assistants \cup {n + 1}
          PROVE  i \in 1..(n + 1) /\ conversation'[i].role = "assistant"
      BY <1>0, <1>1, <1>5 DEF Assistants, n
    <3>3. QED
      BY <1>1, <3>1, <3>2 DEF Assistants
  <2>2. n + 1 \notin Assistants
    BY <1>0 DEF Assistants, n
  <2>3. Cardinality(Assistants \cup {n + 1}) = Cardinality(Assistants) + 1
    BY <2>2, AssistantsFinite, FS_AddElement
  <2>4. QED
    BY <1>1, <1>3, <1>4, <1>5, <2>1, <2>3
<1>6. CASE m.role # "assistant"
  <2>1. Assistants' = Assistants
    <3>1. ASSUME NEW i \in 1..(n + 1), conversation'[i].role = "assistant"
          PROVE  i \in Assistants
      <4>1. i # n + 1
        BY <1>1, <1>6, <3>1
      <4>2. i \in 1..n
        BY <1>0, <4>1
      <4>3. QED
        BY <1>1, <3>1, <4>2 DEF Assistants, n
    <3>2. ASSUME NEW i \in Assistants
          PROVE  i \in 1..(n + 1) /\ conversation'[i].role = "assistant"
      BY <1>0, <1>1 DEF Assistants, n
    <3>3. QED
      BY <1>1, <3>1, <3>2 DEF Assistants
  <2>2. QED
    BY <1>1, <1>3, <1>4, <1>6, <2>1
<1>7. QED
  BY <1>5, <1>6

LEMMA CycleInit == WholeInit => OfThisCycle
  BY DEF WholeInit, OfThisCycle

LEMMA CycleStep ==
  AgentInv /\ OfThisCycle /\ [WholeNext]_wholeVars => OfThisCycle'
<1> SUFFICES ASSUME AgentInv, OfThisCycle, [WholeNext]_wholeVars
             PROVE  OfThisCycle'
  OBVIOUS
<1>0. conversation \in Seq(Of!Message) /\ iter \in Nat
  BY Assumptions DEF AgentInv, Of!IInv, Of!TypeOK
<1>1. ASSUME UNCHANGED <<conversation, iter>>, agPc # "idle",
             agPc' = "idle" \/ (agPc' \in {"loop", "llm"} <=> agPc \in {"loop", "llm"})
      PROVE  OfThisCycle'
  BY <1>1 DEF OfThisCycle, Assistants, Ag!UserMessage
<1>2. CASE UNCHANGED agentVars
  BY <1>2 DEF agentVars, OfThisCycle, Assistants, Ag!UserMessage
<1>3. CASE Dispatch
  <2>1. /\ conversation' = <<Ag!UserMessage>> /\ Len(conversation') = 1
        /\ conversation'[1] = Ag!UserMessage
        /\ agPc' = "loop" /\ iter' = 0
    BY <1>3 DEF Dispatch, NewRun
  <2>2. Ag!UserMessage.role # "assistant"
    BY DEF Ag!UserMessage
  <2>3. Assistants' = {}
    BY <2>1, <2>2 DEF Assistants
  <2>4. Ag!UserMessage' = Ag!UserMessage
    BY DEF Ag!UserMessage
  <2>5. QED
    BY <2>1, <2>3, <2>4, FS_EmptySet DEF OfThisCycle
<1>4. CASE Asks
  BY <1>1, <1>4 DEF Asks, Ag!CallModel
<1>5. ASSUME agPc' = "idle"
      PROVE  OfThisCycle'
  BY <1>5 DEF OfThisCycle
<1>6. CASE Fails
  BY <1>5, <1>6 DEF Fails, Ag!ModelFails, Ag!Return
<1>7. ASSUME NEW reply \in Replies, Answers(reply)
      PROVE  OfThisCycle'
  BY <1>5, <1>7 DEF Answers, Ag!ModelAnswers, Ag!Return
<1>8. ASSUME NEW reply \in Replies, Ag!ModelAsksForTools(reply)
      PROVE  OfThisCycle'
  <2> DEFINE m == Ag!AssistantMessage(reply)
  <2>1. m \in Of!Message /\ m.role = "assistant"
    <3>1. reply.content \in Texts /\ reply.calls \in Seq(Of!ToolCall)
      BY AgentsAssumption
    <3>2. QED
      BY <3>1 DEF Ag!AssistantMessage, Of!Message
  <2>2. /\ agPc = "llm" /\ agPc' = "tool" /\ iter' = iter
        /\ conversation' = Append(conversation, m)
    BY <1>8 DEF Ag!ModelAsksForTools
  <2> HIDE DEF m
  <2>3. Cardinality(Assistants') = iter + 1
    BY <1>0, <2>1, <2>2, AppendGoesOn DEF OfThisCycle
  <2>4. QED
    BY <1>0, <2>1, <2>2, <2>3, AppendGoesOn DEF OfThisCycle, Ag!UserMessage
<1>9. ASSUME NEW text \in Of!ToolTexts, Ag!AnswerCall(text), Of!InTurn, next <= Len(Ag!Calls)
      PROVE  OfThisCycle'
  <2> DEFINE m == Ag!ToolMessage(text, Ag!Call)
  <2>1. Ag!Call \in Of!ToolCall
    <3>1. turn \in 1..Len(conversation) /\ next \in 1..Len(conversation[turn].calls)
      BY <1>9 DEF AgentInv, Of!IInv, Of!TurnInv, Of!Calls, Ag!Calls
    <3>2. conversation[turn] \in Of!Message
      BY <1>0, <3>1
    <3>3. conversation[turn].calls \in Seq(Of!ToolCall)
      BY <3>2 DEF Of!Message
    <3>4. QED
      BY <3>1, <3>3 DEF Ag!Call, Ag!Calls
  <2>2. m \in Of!Message /\ m.role = "tool"
    <3>1. Ag!Call.id \in CallIds
      BY <2>1 DEF Of!ToolCall
    <3>2. <<>> \in Seq(Of!ToolCall)
      OBVIOUS
    <3>3. QED
      BY <3>1, <3>2 DEF Ag!ToolMessage, Of!Message
  <2>3. /\ agPc \in {"tool", "exec"} /\ agPc' = "tool" /\ iter' = iter
        /\ conversation' = Append(conversation, m)
    BY <1>9 DEF Ag!AnswerCall, Of!InTurn
  <2> HIDE DEF m
  <2>4. Cardinality(Assistants') = iter + 1
    BY <1>0, <2>2, <2>3, AppendGoesOn DEF OfThisCycle
  <2>5. QED
    BY <1>0, <2>2, <2>3, <2>4, AppendGoesOn DEF OfThisCycle, Ag!UserMessage
<1>10. CASE Works
  <2>1. CASE Ag!ToolNotFound \/ Ag!ToolBlocked
    BY <1>9, <2>1 DEF Ag!ToolNotFound, Ag!ToolBlocked, Of!InTurn, Of!ToolTexts
  <2>2. CASE Ag!ToolStarts
    BY <1>1, <2>2 DEF Ag!ToolStarts
  <2>3. CASE Ag!ToolReturns
    <3>1. Of!InTurn /\ next <= Len(Ag!Calls)
      BY <2>3 DEF Ag!ToolReturns, Of!InTurn, AgentInv, Of!IInv, Of!TurnInv, Of!Calls, Ag!Calls
    <3>2. PICK text \in {"output", "toolError"} : Ag!AnswerCall(text)
      BY <2>3 DEF Ag!ToolReturns
    <3>3. QED
      BY <1>9, <3>1, <3>2 DEF Of!ToolTexts
  <2>4. QED
    BY <1>8, <1>10, <2>1, <2>2, <2>3 DEF Works
<1>11. CASE TurnEnds
  <2>1. CASE agPc' = "loop"
    <3>1. agPc = "tool" /\ iter' = iter + 1 /\ UNCHANGED conversation
      BY <1>11, <2>1 DEF TurnEnds, Ag!NextIteration, Ag!Return
    <3>2. QED
      BY <2>1, <3>1 DEF OfThisCycle, Assistants, Ag!UserMessage
  <2>2. QED
    BY <1>5, <1>11, <2>1 DEF TurnEnds
<1>12. QED
  BY <1>2, <1>3, <1>4, <1>6, <1>7, <1>10, <1>11 DEF WholeNext, wholeVars

LEMMA WholeInvariant == WholeSpec => [](TypeOK /\ Linked /\ AgentInv /\ OfThisCycle)
<1>1. WholeInit => Linked /\ AgentInv /\ OfThisCycle
  BY LinkedInit, AgentInit, CycleInit
<1>2. WholeSpec => []TypeOK
  BY DaemonIsWatch, TypeCorrect, PTL
<1>3. /\ Linked /\ [WholeNext]_wholeVars => Linked'
      /\ AgentInv /\ TypeOK' /\ [WholeNext]_wholeVars => AgentInv'
      /\ AgentInv /\ OfThisCycle /\ [WholeNext]_wholeVars => OfThisCycle'
  BY StepIsWatch, AgentKeeps, CycleStep
<1>4. QED
  BY <1>1, <1>2, <1>3, PTL DEF WholeSpec

\* Nothing of an earlier cycle reaches the model: a request holds this cycle's
\* prompt, one reply for each turn before and the answers to its calls, however
\* the cycles before ended (watch.go:203-218, README.md:272).
THEOREM ContextIsOfThisCycle == WholeSpec => []ContextOfThisCycle
<1>1. TypeOK /\ Linked /\ AgentInv /\ OfThisCycle => ContextOfThisCycle
  <2> SUFFICES ASSUME TypeOK, Linked, AgentInv, OfThisCycle, agPc = "llm"
               PROVE  ContextOfThisCycle
    BY DEF ContextOfThisCycle
  <2>1. Of!EveryCallAnswered
    BY AgentsAssumption, Of!InvAnswersCalls DEF AgentInv
  <2>2. Ag!EveryCallAnswered
    BY <2>1 DEF Ag!EveryCallAnswered, Of!EveryCallAnswered, Ag!Answers, Of!Answers
  <2>3. Cardinality(Assistants) = turns - 1
    <3>1. iter \in Nat /\ turns = iter + 1
      BY Assumptions DEF AgentInv, Of!IInv, Of!TypeOK, Linked, InTurn
    <3>2. Cardinality(Assistants) = iter
      BY DEF OfThisCycle
    <3>3. QED
      BY <3>1, <3>2
  <2>4. QED
    BY <2>2, <2>3 DEF ContextOfThisCycle, OfThisCycle, Assistants
<1>2. QED
  BY <1>1, WholeInvariant, PTL

\* In every cycle, also one that is cancelled by the signal, what reached a tool
\* was read-only and is accounted for in that cycle's conversation
\* (watch.go:200-218, agent.go:98-130).
THEOREM CycleEffectsCorrect == WholeSpec => []Ag!EffectsAccounted
<1>1. AgentInv => Ag!EffectsAccounted
  <2>1. Of!IInv /\ Of!EffectsInv => Of!EffectsAccounted
    BY AgentsAssumption, Of!InvAccountsEffects
  <2>2. Of!EffectsAccounted => Ag!EffectsAccounted
    BY DEF Ag!EffectsAccounted, Of!EffectsAccounted, Ag!ToolIndex, Of!ToolIndex, Ag!Call,
           Of!Call, Ag!Calls, Of!Calls, Ag!PermissionReadOnly, Of!PermissionReadOnly
  <2>3. QED
    BY <2>1, <2>2 DEF AgentInv
<1>2. QED
  BY <1>1, WholeInvariant, PTL
=============================================================================
