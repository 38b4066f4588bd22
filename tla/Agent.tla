------------------------------- MODULE Agent -------------------------------
(***************************************************************************)
(* The agentic loop of internal/agent: Run sends the conversation to the   *)
(* model, executes the tool calls of its reply through the sandbox one     *)
(* after the other, appends every result, and repeats until a reply has no *)
(* tool calls or the iteration limit is reached.                           *)
(*                                                                         *)
(* The context passed to Run may be cancelled at any moment.  The model    *)
(* and the tools are environments: a reply is any member of Replies, a     *)
(* call may fail, an Execute may return an output or an error.  Texts are  *)
(* abstracted to what tells the cases of executeSingleTool apart.          *)
(***************************************************************************)
EXTENDS Sequences, Sandbox

CONSTANTS
  Names,          \* tool names a model may ask for, registered or not
  CallIds,        \* call identifiers a model may assign (not always unique)
  Arguments,      \* texts a model may send as a call's arguments
  Texts,          \* contents of the model's messages
  Tools,          \* the tools slice given to NewAgent: [name, perm] records
  Mode,           \* the sandbox's mode
  Replies,        \* the messages the model may answer with
  MaxIterations,  \* maxIterations (10 in the code)
  MaxRuns         \* bound: how often Run is called on this agent

ToolCall == [id : CallIds, name : Names, args : Arguments]

ASSUME AgentAssumption ==
  /\ Tools \in Seq([name : Names, perm : Permissions])
  /\ Mode \in {ModeReadOnly, ModeConfirm}
  /\ Replies \subseteq [content : Texts, calls : Seq(ToolCall)]
  /\ MaxIterations \in Nat \ {0}
  /\ MaxRuns \in Nat

VARIABLES
  pc,            \* where Run is: "idle", "loop", "llm", "tool", "exec"
  conversation,  \* Agent.conversation; survives from one Run to the next
  iter,          \* the loop counter i of Run
  turn,          \* position of the assistant message being handled
  next,          \* index of the tool call handleToolCalls is at
  ctxDone,       \* the context of this Run is cancelled
  outcome,       \* what the last Run returned
  runs,          \* how many Runs were started (for the bound)
  executed       \* history: the positions in the conversation of the answers
                 \* to the calls that reached a tool's Execute, in order

vars == <<pc, conversation, iter, turn, next, ctxDone, outcome, runs, executed>>

ToolTexts == {"notFound", "blocked", "toolError", "output"}

Message ==
  [role    : {"user", "assistant", "tool"},
   content : Texts \cup ToolTexts \cup {"prompt"},
   calls   : Seq(ToolCall),
   callId  : CallIds \cup {""}]

UserMessage == [role |-> "user", content |-> "prompt", calls |-> <<>>, callId |-> ""]

AssistantMessage(reply) ==
  [role |-> "assistant", content |-> reply.content, calls |-> reply.calls, callId |-> ""]

ToolMessage(text, call) ==
  [role |-> "tool", content |-> text, calls |-> <<>>, callId |-> call.id]

\* buildMessages: what a request carries.  Both commands have a system prompt.
SystemMessage ==
  [role |-> "system", content |-> "systemPrompt", calls |-> <<>>, callId |-> ""]

BuildMessages == <<SystemMessage>> \o conversation

(***************************************************************************)
(* toolIndex: a map filled in slice order, so of two tools with the same   *)
(* name the later one is found.                                            *)
(***************************************************************************)
ToolIndex ==
  [n \in {Tools[i].name : i \in DOMAIN Tools} |->
     Tools[CHOOSE i \in DOMAIN Tools :
             /\ Tools[i].name = n
             /\ \A j \in DOMAIN Tools : Tools[j].name = n => j <= i]]

\* The calls of the reply being handled, and the one the loop is at.
Calls == conversation[turn].calls
Call  == Calls[next]

-----------------------------------------------------------------------------
Init ==
  /\ pc = "idle"
  /\ conversation = <<>>
  /\ iter = 0
  /\ turn = 0
  /\ next = 0
  /\ ctxDone = FALSE
  /\ outcome = "none"
  /\ runs = 0
  /\ executed = <<>>

\* Run is called, with a context that may already be cancelled: the daemon
\* passes one when a tick was taken after the signal.
Run ==
  /\ pc = "idle"
  /\ runs < MaxRuns
  /\ pc' = "loop"
  /\ conversation' = Append(conversation, UserMessage)
  /\ iter' = 0
  /\ ctxDone' \in BOOLEAN
  /\ outcome' = "none"
  /\ runs' = runs + 1
  /\ UNCHANGED <<turn, next, executed>>

\* The caller cancels the context while Run is in progress.
Cancel ==
  /\ pc # "idle"
  /\ ~ctxDone
  /\ ctxDone' = TRUE
  /\ UNCHANGED <<pc, conversation, iter, turn, next, outcome, runs, executed>>

\* Run returns r.  What the loop leaves in its variables does not matter.
Return(r) ==
  /\ pc' = "idle"
  /\ outcome' = r
  /\ UNCHANGED <<iter, next, ctxDone, runs, executed>>

\* Complete is called with BuildMessages.
CallModel ==
  /\ pc = "loop"
  /\ ~ctxDone
  /\ pc' = "llm"
  /\ UNCHANGED <<conversation, iter, turn, next, ctxDone, outcome, runs, executed>>

\* Complete returns an error: at once when the context was cancelled before
\* the call, else because the call failed or was cancelled in flight.
ModelFails ==
  /\ \/ pc = "loop" /\ ctxDone
     \/ pc = "llm"
  /\ Return("llmError")
  /\ UNCHANGED <<conversation, turn>>

\* A reply without tool calls is the answer; Run returns its content.
ModelAnswers(reply) ==
  /\ pc = "llm"
  /\ reply.calls = <<>>
  /\ conversation' = Append(conversation, AssistantMessage(reply))
  /\ Return("answer")
  /\ UNCHANGED turn

\* A reply with tool calls starts handleToolCalls.
ModelAsksForTools(reply) ==
  /\ pc = "llm"
  /\ reply.calls # <<>>
  /\ conversation' = Append(conversation, AssistantMessage(reply))
  /\ pc' = "tool"
  /\ turn' = Len(conversation) + 1
  /\ next' = 1
  /\ UNCHANGED <<iter, ctxDone, outcome, runs, executed>>

\* Mutant of AnswerCall: a result that reports a failure is not appended.
AnswerCallUnlessError(text) ==
  /\ conversation' = IF text \in {"output"}
                     THEN Append(conversation, ToolMessage(text, Call))
                     ELSE conversation
  /\ next' = next + 1
  /\ pc' = "tool"
  /\ UNCHANGED <<iter, turn, ctxDone, outcome, runs>>

\* The result of the current call is appended and the loop moves on.
AnswerCall(text) ==
  /\ conversation' = Append(conversation, ToolMessage(text, Call))
  /\ next' = next + 1
  /\ pc' = "tool"
  /\ UNCHANGED <<iter, turn, ctxDone, outcome, runs>>

\* The name is not in the index.
ToolNotFound ==
  /\ pc = "tool"
  /\ next <= Len(Calls)
  /\ Call.name \notin DOMAIN ToolIndex
  /\ AnswerCall("notFound")
  /\ UNCHANGED executed

\* The sandbox refuses the tool.
ToolBlocked ==
  /\ pc = "tool"
  /\ next <= Len(Calls)
  /\ Call.name \in DOMAIN ToolIndex
  /\ ~Permits(Mode, ToolIndex[Call.name].perm)
  /\ AnswerCall("blocked")
  /\ UNCHANGED executed

\* The sandbox delegates to the tool's Execute.
ToolStarts ==
  /\ pc = "tool"
  /\ next <= Len(Calls)
  /\ Call.name \in DOMAIN ToolIndex
  /\ Permits(Mode, ToolIndex[Call.name].perm)
  /\ pc' = "exec"
  /\ executed' = Append(executed, Len(conversation) + 1)
  /\ UNCHANGED <<conversation, iter, turn, next, ctxDone, outcome, runs>>

\* Execute returns a result or a Go error, which becomes a result.
ToolReturns ==
  /\ pc = "exec"
  /\ \E text \in {"output", "toolError"} : AnswerCall(text)
  /\ UNCHANGED executed

\* Mutant of NextIteration: the loop condition admits one iteration more.
NextIterationLate ==
  /\ pc = "tool"
  /\ next > Len(Calls)
  /\ \/ /\ iter + 1 <= MaxIterations
        /\ pc' = "loop"
        /\ iter' = iter + 1
        /\ UNCHANGED <<conversation, turn, next, ctxDone, outcome, runs, executed>>
     \/ /\ iter + 1 > MaxIterations
        /\ Return("maxIterations")
        /\ UNCHANGED <<conversation, turn>>

\* All calls are answered: the next iteration, or the limit.
NextIteration ==
  /\ pc = "tool"
  /\ next > Len(Calls)
  /\ \/ /\ iter + 1 < MaxIterations
        /\ pc' = "loop"
        /\ iter' = iter + 1
        /\ UNCHANGED <<conversation, turn, next, ctxDone, outcome, runs, executed>>
     \/ /\ iter + 1 = MaxIterations
        /\ Return("maxIterations")
        /\ UNCHANGED <<conversation, turn>>

\* Mutant of ModelCancelled: the provider ignores the context it is given.
ModelNeverCancelled == FALSE

\* Complete respects cancellation (the contract of provider.Provider).
ModelCancelled == ctxDone /\ ModelFails

Next ==
  \/ Run
  \/ Cancel
  \/ CallModel
  \/ ModelFails
  \/ \E reply \in Replies : ModelAnswers(reply)
  \/ \E reply \in Replies : ModelAsksForTools(reply)
  \/ ToolNotFound
  \/ ToolBlocked
  \/ ToolStarts
  \/ ToolReturns
  \/ NextIteration

Spec == Init /\ [][Next]_vars

(***************************************************************************)
(* Fairness: the goroutine that runs Run is scheduled, a tool's Execute    *)
(* returns, and a cancelled Complete returns.  Nothing is assumed of a     *)
(* model that is not cancelled: it may never reply.                        *)
(***************************************************************************)
Fairness ==
  /\ WF_vars(CallModel)
  /\ WF_vars(ModelCancelled)
  /\ WF_vars(ToolNotFound \/ ToolBlocked \/ ToolStarts)
  /\ WF_vars(ToolReturns)
  /\ WF_vars(NextIteration)

FairSpec == Spec /\ Fairness

-----------------------------------------------------------------------------
\* Every variable has its type; the loop counter stays below the limit
\* (agent.go:71) and the conversation is a sequence of well-typed messages.
TypeOK ==
  /\ pc \in {"idle", "loop", "llm", "tool", "exec"}
  /\ conversation \in Seq(Message)
  /\ iter \in 0..(MaxIterations - 1)
  /\ turn \in Nat
  /\ next \in Nat
  /\ ctxDone \in BOOLEAN
  /\ outcome \in {"none", "answer", "llmError", "maxIterations"}
  /\ runs \in Nat
  /\ executed \in Seq(Nat)

\* m is the result of call c.
Answers(m, c) == m.role = "tool" /\ m.callId = c.id

(***************************************************************************)
(* The conversation is one a chat-completion API accepts whenever it is    *)
(* sent (pc = "llm"), also on an agent whose earlier Runs failed or hit    *)
(* the limit: an assistant message with tool calls is followed at once by  *)
(* the answers to all of them, in order, and a tool message answers a call *)
(* of the assistant message right before its block (agent.go:98-107).      *)
(***************************************************************************)
EveryCallAnswered ==
  pc = "llm" =>
    /\ \A i \in 1..Len(conversation) :
         \A k \in 1..Len(conversation[i].calls) :
           /\ i + k <= Len(conversation)
           /\ Answers(conversation[i + k], conversation[i].calls[k])
    /\ \A j \in 1..Len(conversation) :
         conversation[j].role = "tool" =>
           \E i \in 1..(j - 1) : j - i <= Len(conversation[i].calls)

(***************************************************************************)
(* What reached a tool and what the conversation says agree: a call is     *)
(* executed at most once, in the order of the answers; its answer is an    *)
(* output or an error of the tool, and no other answer is; and the tool    *)
(* that ran is read-only (sandbox.go:55-79).                             *)
(***************************************************************************)
EffectsAccounted ==
  /\ \A a, b \in 1..Len(executed) : a < b => executed[a] < executed[b]
  /\ \A a \in 1..Len(executed) :
       executed[a] > Len(conversation) => pc = "exec" /\ a = Len(executed)
  /\ \A j \in 1..Len(conversation) :
       conversation[j].role = "tool" /\ conversation[j].content \in {"output", "toolError"}
         <=> \E a \in 1..Len(executed) : executed[a] = j
  /\ pc = "exec" => ToolIndex[Call.name].perm <= PermissionReadOnly

\* A cancelled Run returns, even if the model would never have replied
\* (provider.go:87-89, agent.go:77-80).
CancelStopsRun == ctxDone ~> pc = "idle"

(***************************************************************************)
(* The agent implements the tool loop: a turn is used when the model's     *)
(* tool calls are accepted, a call is closed when its answer is appended.  *)
(***************************************************************************)
Loop == INSTANCE ToolLoop WITH
  MaxTurns <- MaxIterations,
  phase    <- CASE pc = "idle" -> "idle"
                [] pc \in {"loop", "llm"} -> "asking"
                [] pc \in {"tool", "exec"} -> "acting",
  open     <- IF pc \in {"tool", "exec"} THEN Len(Calls) - next + 1 ELSE 0,
  turns    <- CASE pc = "idle" -> 0
                [] pc \in {"loop", "llm"} -> MaxIterations - iter
                [] pc \in {"tool", "exec"} -> MaxIterations - iter - 1

\* Every run of the agent is a run of the tool loop: no more turns than
\* maxIterations, and no call left open (agent.go:55-93).
ImplementsToolLoop == Loop!Spec
=============================================================================
