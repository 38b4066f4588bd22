----------------------------- MODULE WatchAgent -----------------------------
(***************************************************************************)
(* The watch daemon with the agent itself in its cycles, where Watch has   *)
(* only turns and an outcome.  runAnalysis makes an agent, runs it once    *)
(* with the daemon's context and drops it; the language model, the sandbox *)
(* and the tools outlive the cycle.                                        *)
(*                                                                         *)
(* The daemon's part is Watch, the agent's part is Agent.  The variables   *)
(* pc, turns and history follow what the agent does, so that it shows here *)
(* whether they follow the rules of Watch.                                 *)
(***************************************************************************)
EXTENDS Watch, FiniteSets

CONSTANTS Names, CallIds, Arguments, Texts, Tools, Mode, Replies  \* as in Agent

VARIABLES agPc, conversation, iter, turn, next, outcome, executed  \* as in Agent

agentVars == <<agPc, conversation, iter, turn, next, outcome, executed>>
wholeVars == <<vars, agentVars>>

Ag == INSTANCE Agent WITH pc <- agPc, MaxRuns <- 1, runs <- 1

\* What Agent assumes, and that Texts are the kinds of answers Watch tells apart.
ASSUME WatchAgentAssumption ==
  /\ Texts \subseteq AnswerKinds
  /\ Tools \in Seq([name : Names, perm : Ag!Permissions])
  /\ Mode \in {Ag!ModeReadOnly, Ag!ModeConfirm}
  /\ Replies \subseteq [content : Texts, calls : Seq(Ag!ToolCall)]

WholeInit ==
  /\ Init
  /\ agPc = "idle"
  /\ conversation = <<>>
  /\ iter = 0
  /\ turn = 0
  /\ next = 0
  /\ outcome = "none"
  /\ executed = <<>>

-----------------------------------------------------------------------------
\* Mutant of NewRun: one agent, made before the loop, serves all cycles.
NewRunOfOldAgent ==
  /\ agPc' = "loop"
  /\ conversation' = Append(conversation, Ag!UserMessage)
  /\ iter' = 0
  /\ outcome' = "none"
  /\ executed' = executed
  /\ UNCHANGED <<turn, next>>

\* NewAgent, and Run up to its loop.
NewRun ==
  /\ agPc' = "loop"
  /\ conversation' = <<Ag!UserMessage>>
  /\ iter' = 0
  /\ outcome' = "none"
  /\ executed' = <<>>
  /\ UNCHANGED <<turn, next>>

Dispatch == GateDispatches /\ NewRun

\* Complete is called; a turn is an iteration of Run.
Asks ==
  /\ Ag!CallModel
  /\ pc' = "llm"
  /\ turns' = iter + 1
  /\ UNCHANGED <<cycle, history, tick, ctxDone, webhookVars>>

\* Mutant of RunFailed: the error propagates out of the main loop.
RunFailedFatally ==
  /\ pc' = "stopped"
  /\ history' = [history EXCEPT ![cycle].answer = "failed"]
  /\ UNCHANGED <<cycle, turns, tick, ctxDone, webhookVars>>

\* What runAnalysis does with an error of Run.
RunFailed ==
  /\ pc' = "select"
  /\ history' = [history EXCEPT ![cycle].answer = "failed"]
  /\ UNCHANGED <<cycle, turns, tick, ctxDone, webhookVars>>

Fails == Ag!ModelFails /\ RunFailed

\* Run returns an answer.
Answers(reply) == Ag!ModelAnswers(reply) /\ AgentAnswers(reply.content)

\* Within a turn the daemon waits.
Works ==
  /\ \/ \E reply \in Replies : Ag!ModelAsksForTools(reply)
     \/ Ag!ToolNotFound
     \/ Ag!ToolBlocked
     \/ Ag!ToolStarts
     \/ Ag!ToolReturns
  /\ UNCHANGED vars

\* The turn is over: another one, or the limit.
TurnEnds ==
  /\ Ag!NextIteration
  /\ \/ /\ agPc' = "loop"
        /\ pc' = "agent"
        /\ UNCHANGED <<cycle, turns, history, tick, ctxDone, webhookVars>>
     \/ agPc' = "idle" /\ RunFailed

\* The steps that are Watch's alone.
Daemon ==
  \/ QueryStarts
  \/ GateSkips
  \/ PostSends
  \/ PostFails
  \/ PostReturns
  \/ PostGivesUp
  \/ Stop
  \/ TakeTick

WholeNext ==
  \/ (Environment \/ Daemon) /\ UNCHANGED agentVars
  \/ Dispatch
  \/ Asks
  \/ Fails
  \/ \E reply \in Replies : Answers(reply)
  \/ Works
  \/ TurnEnds

WholeSpec == WholeInit /\ [][WholeNext]_wholeVars

(***************************************************************************)
(* Fairness: Watch's for the daemon and Agent's for the agent.  A model    *)
(* that was asked and not cancelled may never reply.                       *)
(***************************************************************************)
Alone(A) == A /\ UNCHANGED agentVars

WholeFairness ==
  /\ WF_wholeVars(Alone(QueryStarts))
  /\ WF_wholeVars(ctxDone /\ Dispatch)
  /\ WF_wholeVars(Asks)
  /\ WF_wholeVars(ctxDone /\ Fails)
  /\ WF_wholeVars(agPc \in {"tool", "exec"} /\ Works)
  /\ WF_wholeVars(TurnEnds)
  /\ WF_wholeVars(Alone(PostSends \/ PostFails))
  /\ WF_wholeVars(Alone(PostReturns \/ PostGivesUp))
  /\ WF_wholeVars(Alone(TakeTick))
  /\ SF_wholeVars(Alone(Stop))

WholeFairSpec == WholeSpec /\ WholeFairness

-----------------------------------------------------------------------------
\* With the agent in it the daemon is the daemon of Watch: its steps are
\* Watch's, no more turns than MaxIterations included, and a cancelled agent
\* returns (watch.go:218-231, agent.go:71-93).
ImplementsWatch == FairSpec

(***************************************************************************)
(* Each cycle has a fresh agent, "ensuring context from a previous cycle   *)
(* never leaks into the next one" (README.md:272): a request holds the     *)
(* prompt of this cycle, the replies of this cycle's turns and the answers *)
(* to them, all of them, and nothing else.                                 *)
(***************************************************************************)
ContextOfThisCycle ==
  agPc = "llm" =>
    /\ conversation[1] = Ag!UserMessage
    /\ \A i \in 2..Len(conversation) : conversation[i].role # "user"
    /\ Cardinality({i \in 1..Len(conversation) : conversation[i].role = "assistant"})
         = turns - 1
    /\ Ag!EveryCallAnswered
=============================================================================
