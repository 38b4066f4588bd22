---------------------------- MODULE AgentProofs ----------------------------
(***************************************************************************)
(* Theorems about Agent for every set of tools, replies and identifiers    *)
(* and every iteration limit.                                              *)
(***************************************************************************)
EXTENDS Agent, TLAPS

\* handleToolCalls is in progress.
InTurn == pc \in {"tool", "exec"}

\* While it is, the conversation ends with the answers to the calls before
\* the one the loop is at.
TurnInv ==
  InTurn =>
    /\ turn \in 1..Len(conversation)
    /\ next \in 1..(Len(Calls) + 1)
    /\ Len(conversation) = turn + next - 1
    /\ pc = "exec" => next <= Len(Calls)

\* Whatever follows a message with calls answers them, in order ...
Paired ==
  \A i \in 1..Len(conversation) :
    \A k \in 1..Len(conversation[i].calls) :
      i + k <= Len(conversation) =>
        Answers(conversation[i + k], conversation[i].calls[k])

\* ... all of them, unless the message is the one being handled ...
Complete ==
  \A i \in 1..Len(conversation) :
    i + Len(conversation[i].calls) <= Len(conversation) \/ (InTurn /\ i = turn)

\* ... and a tool message stands in the block of such a message.
Backed ==
  \A j \in 1..Len(conversation) :
    conversation[j].role = "tool" =>
      \E i \in 1..(j - 1) : j - i <= Len(conversation[i].calls)

IInv == TypeOK /\ TurnInv /\ Paired /\ Complete /\ Backed

-----------------------------------------------------------------------------
\* The messages Run builds are messages.
LEMMA UserMessageType ==
  /\ UserMessage \in Message
  /\ UserMessage.calls = <<>>
  /\ UserMessage.role = "user"
  BY DEF UserMessage, Message

LEMMA AssistantMessageType ==
  ASSUME NEW reply \in Replies
  PROVE  /\ AssistantMessage(reply) \in Message
         /\ AssistantMessage(reply).calls = reply.calls
         /\ reply.calls \in Seq(ToolCall)
         /\ AssistantMessage(reply).role = "assistant"
<1>1. reply \in [content : Texts, calls : Seq(ToolCall)]
  BY AgentAssumption DEF AgentAssumption
<1>2. reply.calls \in Seq(ToolCall) /\ reply.content \in Texts
  BY <1>1
<1>3. QED
  BY <1>2 DEF AssistantMessage, Message

LEMMA ToolMessageType ==
  ASSUME NEW text \in ToolTexts, NEW call \in ToolCall
  PROVE  /\ ToolMessage(text, call) \in Message
         /\ ToolMessage(text, call).calls = <<>>
         /\ Answers(ToolMessage(text, call), call)
<1>1. call.id \in CallIds
  BY DEF ToolCall
<1>2. <<>> \in Seq(ToolCall)
  OBVIOUS
<1>3. ToolMessage(text, call) \in Message
  BY <1>1, <1>2 DEF ToolMessage, Message
<1>4. QED
  BY <1>3 DEF ToolMessage, Answers

\* What appending one message does to the conversation.
LEMMA AppendFacts ==
  ASSUME conversation \in Seq(Message), NEW m \in Message,
         conversation' = Append(conversation, m)
  PROVE  /\ conversation' \in Seq(Message)
         /\ Len(conversation') = Len(conversation) + 1
         /\ \A i \in 1..Len(conversation) : conversation'[i] = conversation[i]
         /\ conversation'[Len(conversation) + 1] = m
  OBVIOUS

\* A message is a record whose calls are a sequence.
LEMMA CallsType ==
  ASSUME conversation \in Seq(Message), NEW i \in 1..Len(conversation)
  PROVE  /\ conversation[i].calls \in Seq(ToolCall)
         /\ Len(conversation[i].calls) \in Nat
         /\ \A k \in 1..Len(conversation[i].calls) :
              conversation[i].calls[k] \in ToolCall
<1>1. conversation[i] \in Message
  OBVIOUS
<1>2. conversation[i].calls \in Seq(ToolCall)
  BY <1>1 DEF Message
<1>3. QED
  BY <1>2

(***************************************************************************)
(* Outside handleToolCalls every block is complete, so a message that is   *)
(* not a tool message can be appended; if it has calls its handling starts.*)
(***************************************************************************)
LEMMA OpenMessage ==
  ASSUME conversation \in Seq(Message), Paired, Complete, Backed, ~InTurn,
         NEW m \in Message, m.role # "tool",
         conversation' = Append(conversation, m),
         m.calls = <<>> \/ (InTurn' /\ turn' = Len(conversation) + 1)
  PROVE  Paired' /\ Complete' /\ Backed'
<1> DEFINE n == Len(conversation)
<1>0. n \in Nat
  OBVIOUS
<1>1. /\ conversation' \in Seq(Message)
      /\ Len(conversation') = n + 1
      /\ \A i \in 1..n : conversation'[i] = conversation[i]
      /\ conversation'[n + 1] = m
  BY AppendFacts
<1>2. \A i \in 1..n : i + Len(conversation[i].calls) <= n
  BY DEF Complete
<1>3. m.calls \in Seq(ToolCall)
  BY DEF Message
<1>4. \A i \in 1..n : Len(conversation[i].calls) \in Nat
  BY CallsType
<1> HIDE DEF n
<1>5. Paired'
  <2> SUFFICES ASSUME NEW i \in 1..(n + 1),
                      NEW k \in 1..Len(conversation'[i].calls),
                      i + k <= n + 1
               PROVE  Answers(conversation'[i + k], conversation'[i].calls[k])
    BY <1>1 DEF Paired, Answers
  <2>1. CASE i = n + 1
    <3>1. Len(conversation'[i].calls) \in Nat
      BY <1>1, <1>3, <2>1
    <3>2. QED
      BY <1>0, <2>1, <3>1
  <2>2. CASE i \in 1..n
    <3>1. /\ conversation'[i] = conversation[i]
          /\ k \in 1..Len(conversation[i].calls)
      BY <1>1, <2>2
    <3>2. i + k \in 1..n
      BY <1>0, <1>2, <1>4, <2>2, <3>1
    <3>3. Answers(conversation[i + k], conversation[i].calls[k])
      BY <2>2, <3>1, <3>2 DEF Paired, n
    <3>4. QED
      BY <1>1, <3>1, <3>2, <3>3
  <2>3. i = n + 1 \/ i \in 1..n
    BY <1>0
  <2>4. QED
    BY <2>1, <2>2, <2>3
<1>6. Complete'
  <2> SUFFICES ASSUME NEW i \in 1..(n + 1)
               PROVE  \/ i + Len(conversation'[i].calls) <= n + 1
                      \/ InTurn' /\ i = turn'
    BY <1>1 DEF Complete
  <2>1. CASE i = n + 1
    <3>1. CASE m.calls = <<>>
      <4>1. Len(conversation'[i].calls) = 0
        BY <1>1, <2>1, <3>1
      <4>2. QED
        BY <1>0, <2>1, <4>1
    <3>2. CASE InTurn' /\ turn' = n + 1
      BY <2>1, <3>2
    <3>3. QED
      BY <3>1, <3>2 DEF n
  <2>2. CASE i \in 1..n
    BY <1>0, <1>1, <1>2, <1>4, <2>2
  <2>3. i = n + 1 \/ i \in 1..n
    BY <1>0
  <2>4. QED
    BY <2>1, <2>2, <2>3
<1>7. Backed'
  <2> SUFFICES ASSUME NEW j \in 1..(n + 1), conversation'[j].role = "tool"
               PROVE  \E i \in 1..(j - 1) : j - i <= Len(conversation'[i].calls)
    BY <1>1 DEF Backed
  <2>1. j \in 1..n /\ conversation[j].role = "tool"
    BY <1>0, <1>1
  <2>2. PICK i \in 1..(j - 1) : j - i <= Len(conversation[i].calls)
    BY <2>1 DEF Backed, n
  <2>3. i \in 1..n
    BY <1>0, <2>1
  <2>4. QED
    BY <1>1, <2>2, <2>3
<1>8. QED
  BY <1>5, <1>6, <1>7

(***************************************************************************)
(* Inside handleToolCalls the answer to the current call extends the block *)
(* of the message being handled and no other.                              *)
(***************************************************************************)
LEMMA AnswerKeeps ==
  ASSUME IInv, InTurn, next <= Len(Calls), NEW text \in ToolTexts,
         AnswerCall(text), executed' \in Seq(Nat)
  PROVE  IInv'
<1> DEFINE n == Len(conversation)
           m == ToolMessage(text, Call)
<1>0. /\ n \in Nat
      /\ turn \in 1..n
      /\ next \in 1..Len(Calls)
      /\ n = turn + next - 1
      /\ conversation \in Seq(Message)
  BY DEF IInv, TypeOK, TurnInv
<1>1. Call \in ToolCall /\ Calls \in Seq(ToolCall)
  BY <1>0, CallsType DEF Call, Calls
<1>2. /\ m \in Message
      /\ m.calls = <<>>
      /\ Answers(m, Call)
  BY <1>1, ToolMessageType
<1> HIDE DEF m
<1>3. /\ conversation' = Append(conversation, m)
      /\ next' = next + 1
      /\ pc' = "tool"
      /\ turn' = turn
  BY DEF AnswerCall, m
<1>4. /\ conversation' \in Seq(Message)
      /\ Len(conversation') = n + 1
      /\ \A i \in 1..n : conversation'[i] = conversation[i]
      /\ conversation'[n + 1] = m
  BY <1>0, <1>2, <1>3, AppendFacts
<1>5. \A i \in 1..n : Len(conversation[i].calls) \in Nat
  BY <1>0, CallsType
<1>6. \A i \in 1..n : i + Len(conversation[i].calls) <= n \/ i = turn
  BY DEF IInv, Complete
<1>7. Calls' = Calls /\ InTurn' /\ Calls = conversation[turn].calls
  BY <1>0, <1>3, <1>4 DEF Calls, InTurn
<1>8. Paired
  BY DEF IInv
<1> HIDE DEF n
<1>9. TypeOK'
  BY <1>0, <1>3, <1>4 DEF IInv, TypeOK, AnswerCall
<1>10. TurnInv'
  BY <1>0, <1>1, <1>3, <1>4, <1>7 DEF TurnInv
<1>11. Paired'
  <2> SUFFICES ASSUME NEW i \in 1..(n + 1),
                      NEW k \in 1..Len(conversation'[i].calls),
                      i + k <= n + 1
               PROVE  Answers(conversation'[i + k], conversation'[i].calls[k])
    BY <1>4 DEF Paired, Answers
  <2>1. CASE i = n + 1
    <3>1. Len(conversation'[i].calls) = 0
      BY <1>2, <1>4, <2>1
    <3>2. QED
      BY <3>1
  <2>2. CASE i \in 1..n /\ i + k <= n
    <3>1. Answers(conversation[i + k], conversation[i].calls[k])
      BY <1>4, <1>5, <1>8, <2>2 DEF Paired, n
    <3>2. i + k \in 1..n
      BY <1>0, <1>4, <1>5, <2>2
    <3>3. QED
      BY <1>4, <2>2, <3>1, <3>2
  <2>3. CASE i \in 1..n /\ i + k = n + 1
    <3>1. i = turn
      BY <1>0, <1>4, <1>5, <1>6, <2>3, SMTT(30)
    <3>2. k = next
      BY <1>0, <1>4, <1>5, <2>3, <3>1
    <3>3. conversation'[i].calls[k] = Call /\ conversation'[i + k] = m
      BY <1>0, <1>4, <1>7, <2>3, <3>1, <3>2 DEF Call
    <3>4. QED
      BY <1>2, <3>3
  <2>4. QED
    BY <1>0, <1>4, <1>5, <2>1, <2>2, <2>3
<1>12. Complete'
  <2> SUFFICES ASSUME NEW i \in 1..(n + 1)
               PROVE  i + Len(conversation'[i].calls) <= n + 1 \/ i = turn'
    BY <1>4, <1>7 DEF Complete
  <2>1. CASE i = n + 1
    <3>1. Len(conversation'[i].calls) = 0
      BY <1>2, <1>4, <2>1
    <3>2. QED
      BY <1>0, <2>1, <3>1
  <2>2. CASE i \in 1..n
    BY <1>0, <1>3, <1>4, <1>5, <1>6, <2>2
  <2>3. QED
    BY <1>0, <2>1, <2>2
<1>13. Backed'
  <2> SUFFICES ASSUME NEW j \in 1..(n + 1), conversation'[j].role = "tool"
               PROVE  \E i \in 1..(j - 1) : j - i <= Len(conversation'[i].calls)
    BY <1>4 DEF Backed
  <2>1. CASE j = n + 1
    <3>1. turn \in 1..(j - 1) /\ j - turn <= Len(conversation'[turn].calls)
      BY <1>0, <1>1, <1>4, <1>7, <2>1
    <3>2. QED
      BY <3>1
  <2>2. CASE j \in 1..n
    <3>1. PICK i \in 1..(j - 1) : j - i <= Len(conversation[i].calls)
      BY <1>4, <2>2 DEF IInv, Backed, n
    <3>2. i \in 1..n
      BY <1>0, <2>2
    <3>3. QED
      BY <1>4, <3>1, <3>2
  <2>3. QED
    BY <1>0, <2>1, <2>2
<1>14. QED
  BY <1>9, <1>10, <1>11, <1>12, <1>13 DEF IInv

-----------------------------------------------------------------------------
\* An action that leaves the conversation alone and does not enter or leave
\* handleToolCalls preserves what is said about the conversation.
LEMMA ConversationUnchanged ==
  ASSUME IInv, UNCHANGED <<conversation, turn>>, InTurn' <=> InTurn
  PROVE  Paired' /\ Complete' /\ Backed'
  BY DEF IInv, Paired, Complete, Backed, Answers

\* With every call of the current message answered, its block is complete.
LEMMA BlockComplete ==
  ASSUME IInv, InTurn, next > Len(Calls)
  PROVE  \A i \in 1..Len(conversation) :
           i + Len(conversation[i].calls) <= Len(conversation)
<1>1. /\ turn \in 1..Len(conversation)
      /\ next = Len(Calls) + 1
      /\ Len(conversation) = turn + next - 1
      /\ Len(Calls) \in Nat
  <2>1. /\ turn \in 1..Len(conversation)
        /\ next \in 1..(Len(Calls) + 1)
        /\ Len(conversation) = turn + next - 1
    BY DEF IInv, TurnInv
  <2>2. Len(Calls) \in Nat
    BY <2>1, CallsType DEF IInv, TypeOK, Calls
  <2>3. QED
    BY <2>1, <2>2
<1>2. turn + Len(conversation[turn].calls) <= Len(conversation)
  BY <1>1 DEF Calls
<1>3. QED
  BY <1>2 DEF IInv, Complete

\* The invariant holds initially ...
LEMMA InitInv == Init => IInv
<1> SUFFICES ASSUME Init
             PROVE  IInv
  OBVIOUS
<1>1. conversation = <<>> /\ Len(conversation) = 0 /\ ~InTurn
  BY DEF Init, InTurn
<1>2. TypeOK
  <2>1. <<>> \in Seq(Message) /\ <<>> \in Seq(Nat)
    OBVIOUS
  <2>2. 0 \in 0..(MaxIterations - 1)
    BY AgentAssumption DEF AgentAssumption
  <2>3. QED
    BY <2>1, <2>2 DEF Init, TypeOK
<1>3. TurnInv /\ Paired /\ Complete /\ Backed
  BY <1>1 DEF TurnInv, Paired, Complete, Backed
<1>4. QED
  BY <1>2, <1>3 DEF IInv

\* ... and every step preserves it.
LEMMA StepInv == IInv /\ [Next]_vars => IInv'
<1> SUFFICES ASSUME IInv, [Next]_vars
             PROVE  IInv'
  OBVIOUS
<1>0. TypeOK /\ TurnInv /\ Paired /\ Complete /\ Backed /\ MaxIterations \in Nat \ {0}
  BY AgentAssumption DEF IInv, AgentAssumption
<1>1. CASE Run
  <2>1. ~InTurn /\ ~InTurn'
    BY <1>1 DEF Run, InTurn
  <2>2. conversation \in Seq(Message) /\ conversation' = Append(conversation, UserMessage)
    BY <1>0, <1>1 DEF TypeOK, Run
  <2>3. conversation' \in Seq(Message)
    BY <2>2, AppendFacts, UserMessageType
  <2>4. TypeOK'
    BY <1>0, <1>1, <2>3 DEF TypeOK, Run
  <2>5. Paired' /\ Complete' /\ Backed'
    BY <1>0, <2>1, <2>2, OpenMessage, UserMessageType
  <2>6. QED
    BY <2>1, <2>4, <2>5 DEF IInv, TurnInv
<1>2. CASE Cancel
  <2>1. TypeOK'
    BY <1>0, <1>2 DEF Cancel, TypeOK
  <2>2. TurnInv' /\ (InTurn' <=> InTurn)
    BY <1>0, <1>2 DEF Cancel, TurnInv, InTurn, Calls
  <2>3. QED
    BY <1>2, <2>1, <2>2, ConversationUnchanged DEF Cancel, IInv
<1>3. CASE CallModel
  <2>1. TypeOK' /\ ~InTurn /\ ~InTurn'
    BY <1>0, <1>3 DEF CallModel, TypeOK, InTurn
  <2>2. QED
    BY <1>3, <2>1, ConversationUnchanged DEF CallModel, IInv, TurnInv
<1>4. CASE ModelFails
  <2>1. TypeOK' /\ ~InTurn /\ ~InTurn'
    BY <1>0, <1>4 DEF ModelFails, Return, TypeOK, InTurn
  <2>2. QED
    BY <1>4, <2>1, ConversationUnchanged DEF ModelFails, IInv, TurnInv
<1>5. ASSUME NEW reply \in Replies, ModelAnswers(reply)
      PROVE  IInv'
  <2>1. ~InTurn /\ ~InTurn'
    BY <1>5 DEF ModelAnswers, Return, InTurn
  <2>2. /\ conversation \in Seq(Message)
        /\ conversation' = Append(conversation, AssistantMessage(reply))
        /\ reply.calls = <<>>
    BY <1>0, <1>5 DEF TypeOK, ModelAnswers
  <2>3. conversation' \in Seq(Message)
    BY <2>2, AppendFacts, AssistantMessageType
  <2>4. TypeOK'
    BY <1>0, <1>5, <2>3 DEF TypeOK, ModelAnswers, Return
  <2>5. Paired' /\ Complete' /\ Backed'
    BY <1>0, <2>1, <2>2, OpenMessage, AssistantMessageType
  <2>6. QED
    BY <2>1, <2>4, <2>5 DEF IInv, TurnInv
<1>6. ASSUME NEW reply \in Replies, ModelAsksForTools(reply)
      PROVE  IInv'
  <2>1. ~InTurn /\ InTurn' /\ pc' = "tool"
    BY <1>6 DEF ModelAsksForTools, InTurn
  <2>2. /\ conversation \in Seq(Message)
        /\ conversation' = Append(conversation, AssistantMessage(reply))
        /\ turn' = Len(conversation) + 1
        /\ next' = 1
    BY <1>0, <1>6 DEF TypeOK, ModelAsksForTools
  <2>3. /\ conversation' \in Seq(Message)
        /\ Len(conversation') = Len(conversation) + 1
        /\ conversation'[Len(conversation) + 1] = AssistantMessage(reply)
    BY <2>2, AppendFacts, AssistantMessageType
  <2>4. TypeOK'
    BY <1>0, <1>6, <2>3 DEF TypeOK, ModelAsksForTools
  <2>5. Calls' \in Seq(ToolCall)
    BY <2>2, <2>3, AssistantMessageType DEF Calls
  <2>6. TurnInv'
    BY <2>1, <2>2, <2>3, <2>5 DEF TurnInv
  <2>7. Paired' /\ Complete' /\ Backed'
    BY <1>0, <2>1, <2>2, OpenMessage, AssistantMessageType
  <2>8. QED
    BY <2>4, <2>6, <2>7 DEF IInv
<1>7. CASE ToolNotFound
  <2>1. executed' \in Seq(Nat)
    BY <1>0, <1>7 DEF TypeOK, ToolNotFound
  <2>2. QED
    BY <1>7, <2>1, AnswerKeeps DEF ToolNotFound, InTurn, ToolTexts
<1>8. CASE ToolBlocked
  <2>1. executed' \in Seq(Nat)
    BY <1>0, <1>8 DEF TypeOK, ToolBlocked
  <2>2. QED
    BY <1>8, <2>1, AnswerKeeps DEF ToolBlocked, InTurn, ToolTexts
<1>9. CASE ToolStarts
  <2>1. TurnInv' /\ (InTurn' <=> InTurn)
    BY <1>0, <1>9 DEF ToolStarts, TurnInv, InTurn, Calls
  <2>2. TypeOK'
    BY <1>0, <1>9 DEF ToolStarts, TypeOK
  <2>3. QED
    BY <1>9, <2>1, <2>2, ConversationUnchanged DEF ToolStarts, IInv
<1>10. CASE ToolReturns
  <2>1. /\ pc = "exec" /\ InTurn /\ next <= Len(Calls)
        /\ executed' \in Seq(Nat)
    BY <1>0, <1>10 DEF ToolReturns, InTurn, TurnInv, TypeOK
  <2>2. PICK text \in {"output", "toolError"} : AnswerCall(text)
    BY <1>10 DEF ToolReturns
  <2>3. QED
    BY <2>1, <2>2, AnswerKeeps DEF ToolTexts
<1>11. CASE NextIteration
  <2>1. InTurn /\ ~InTurn' /\ UNCHANGED <<conversation, turn>> /\ next > Len(Calls)
    BY <1>11 DEF NextIteration, Return, InTurn
  <2>2. TypeOK'
    BY <1>0, <1>11 DEF NextIteration, Return, TypeOK
  <2>3. Complete'
    BY <2>1, BlockComplete DEF Complete
  <2>4. Paired' /\ Backed'
    BY <1>0, <2>1 DEF Paired, Backed, Answers
  <2>5. QED
    BY <2>1, <2>2, <2>3, <2>4 DEF IInv, TurnInv
<1>12. CASE UNCHANGED vars
  <2>1. TypeOK' /\ TurnInv' /\ (InTurn' <=> InTurn)
    BY <1>0, <1>12 DEF vars, TypeOK, TurnInv, InTurn, Calls
  <2>2. QED
    BY <1>12, <2>1, ConversationUnchanged DEF vars, IInv
<1>13. QED
  BY <1>1, <1>2, <1>3, <1>4, <1>5, <1>6, <1>7, <1>8, <1>9, <1>10, <1>11, <1>12 DEF Next

LEMMA Invariance == Spec => []IInv
  BY InitInv, StepInv, PTL DEF Spec

\* The type invariant holds for every instance: the loop counter of Run
\* never reaches maxIterations and the conversation is well typed
\* (agent.go:63-107).
THEOREM TypeCorrect == Spec => []TypeOK
<1>1. IInv => TypeOK
  BY DEF IInv
<1>2. QED
  BY <1>1, Invariance, PTL

\* With its invariant a conversation that is sent is paired.
LEMMA InvAnswersCalls == IInv => EveryCallAnswered
<1> SUFFICES ASSUME IInv, pc = "llm"
             PROVE  EveryCallAnswered
  BY DEF EveryCallAnswered
<1>1. /\ conversation \in Seq(Message)
      /\ \A i \in 1..Len(conversation) :
           i + Len(conversation[i].calls) <= Len(conversation)
  BY DEF IInv, TypeOK, Complete, InTurn
<1>2. ASSUME NEW i \in 1..Len(conversation),
             NEW k \in 1..Len(conversation[i].calls)
      PROVE  /\ i + k <= Len(conversation)
             /\ Answers(conversation[i + k], conversation[i].calls[k])
  <2>1. Len(conversation[i].calls) \in Nat
    BY <1>1, CallsType
  <2>2. i + k <= Len(conversation)
    BY <1>1, <2>1
  <2>3. QED
    BY <2>2 DEF IInv, Paired
<1>3. QED
  BY <1>2 DEF EveryCallAnswered, IInv, Backed

\* Whatever tools, replies and identifiers there are and whatever failed
\* before, a conversation that is sent to the model pairs every tool call
\* with its answer (agent.go:98-107).
THEOREM CallsAnswered == Spec => []EveryCallAnswered
  BY InvAnswersCalls, Invariance, PTL

-----------------------------------------------------------------------------
(***************************************************************************)
(* Refinement.  The mapping is the one of ImplementsToolLoop; in a state   *)
(* of the invariant it takes natural numbers, and each action of the agent *)
(* is the abstract action named beside it or a stutter.                    *)
(***************************************************************************)
Phase == CASE pc = "idle" -> "idle"
           [] pc \in {"loop", "llm"} -> "asking"
           [] pc \in {"tool", "exec"} -> "acting"

Open == IF pc \in {"tool", "exec"} THEN Len(Calls) - next + 1 ELSE 0

Turns == CASE pc = "idle" -> 0
           [] pc \in {"loop", "llm"} -> MaxIterations - iter
           [] pc \in {"tool", "exec"} -> MaxIterations - iter - 1

\* The values of the mapping at each place of Run.
LEMMA MappingValues ==
  ASSUME IInv
  PROVE  /\ pc = "idle" => Phase = "idle" /\ Open = 0 /\ Turns = 0
         /\ pc \in {"loop", "llm"} =>
              /\ Phase = "asking" /\ Open = 0
              /\ Turns = MaxIterations - iter /\ Turns \in Nat \ {0}
         /\ InTurn =>
              /\ Phase = "acting" /\ Open = Len(Calls) - next + 1 /\ Open \in Nat
              /\ Turns = MaxIterations - iter - 1 /\ Turns \in Nat
<1>1. MaxIterations \in Nat \ {0} /\ iter \in 0..(MaxIterations - 1)
  BY AgentAssumption DEF AgentAssumption, IInv, TypeOK
<1>2. ASSUME InTurn PROVE Len(Calls) - next + 1 \in Nat
  <2>1. turn \in 1..Len(conversation) /\ next \in 1..(Len(Calls) + 1)
    BY <1>2 DEF IInv, TurnInv
  <2>2. Len(Calls) \in Nat
    BY <2>1, CallsType DEF IInv, TypeOK, Calls
  <2>3. QED
    BY <2>1, <2>2
<1>3. QED
  BY <1>1, <1>2 DEF Phase, Open, Turns, InTurn

\* Answering a call closes it.
LEMMA AnswerCloses ==
  ASSUME IInv, IInv', InTurn, next <= Len(Calls), NEW text \in ToolTexts,
         AnswerCall(text)
  PROVE  Loop!Close
<1>1. InTurn' /\ next' = next + 1 /\ iter' = iter /\ next \in Nat
  BY DEF AnswerCall, InTurn, IInv, TypeOK
<1>2. Calls' = Calls /\ Len(Calls) \in Nat
  <2>1. conversation \in Seq(Message) /\ turn \in 1..Len(conversation)
    BY DEF IInv, TypeOK, TurnInv
  <2>2. Call \in ToolCall
    BY <2>1, CallsType DEF IInv, TurnInv, Call, Calls
  <2>3. ToolMessage(text, Call) \in Message
    BY <2>2, ToolMessageType
  <2>4. conversation'[turn] = conversation[turn] /\ turn' = turn
    BY <2>1, <2>3, AppendFacts DEF AnswerCall
  <2>5. QED
    BY <2>1, <2>4, CallsType DEF Calls
<1>3. /\ Phase = "acting" /\ Phase' = "acting" /\ Turns' = Turns
      /\ Open > 0 /\ Open' = Open - 1
  <2>1. /\ Phase = "acting" /\ Open = Len(Calls) - next + 1
        /\ Turns = MaxIterations - iter - 1
    BY MappingValues
  <2>2. /\ Phase' = "acting" /\ Open' = Len(Calls') - next' + 1
        /\ Turns' = MaxIterations - iter' - 1
    BY <1>1 DEF Phase, Open, Turns, InTurn
  <2>3. QED
    BY <1>1, <1>2, <2>1, <2>2
<1>4. QED
  BY <1>3 DEF Loop!Close, Phase, Open, Turns

\* The agent starts where the loop starts ...
LEMMA InitRefines == Init => Loop!Init
  BY DEF Init, Loop!Init

\* ... and each of its steps is one of the loop or a stutter.
LEMMA StepRefines == IInv /\ IInv' /\ [Next]_vars => [Loop!Next]_(Loop!loopVars)
<1> SUFFICES ASSUME IInv, IInv', [Next]_vars
             PROVE  Loop!Next \/ UNCHANGED <<Phase, Open, Turns>>
  BY DEF Loop!loopVars, Phase, Open, Turns
<1>0. MaxIterations \in Nat \ {0} /\ iter \in 0..(MaxIterations - 1)
  BY AgentAssumption DEF AgentAssumption, IInv, TypeOK
<1>1. CASE Run
  <2>1. /\ Phase = "idle" /\ Open = 0
        /\ Phase' = "asking" /\ Open' = 0 /\ Turns' = MaxIterations
    BY <1>0, <1>1 DEF Run, Phase, Open, Turns
  <2>2. Loop!Begin
    BY <2>1 DEF Loop!Begin, Phase, Open, Turns
  <2>3. QED
    BY <2>2 DEF Loop!Next
<1>2. CASE Cancel
  BY <1>2 DEF Cancel, Phase, Open, Turns, Calls
<1>3. CASE CallModel
  BY <1>3 DEF CallModel, Phase, Open, Turns
<1>4. ASSUME pc \in {"loop", "llm"}, pc' = "idle"
      PROVE  Loop!Next
  <2>1. /\ Phase = "asking" /\ Open = 0
        /\ Phase' = "idle" /\ Open' = 0 /\ Turns' = 0
    BY <1>4 DEF Phase, Open, Turns
  <2>2. Loop!End
    BY <2>1 DEF Loop!End, Phase, Open, Turns
  <2>3. QED
    BY <2>2 DEF Loop!Next
<1>5. CASE ModelFails
  BY <1>4, <1>5 DEF ModelFails, Return
<1>6. ASSUME NEW reply \in Replies, ModelAnswers(reply)
      PROVE  Loop!Next
  BY <1>4, <1>6 DEF ModelAnswers, Return
<1>7. ASSUME NEW reply \in Replies, ModelAsksForTools(reply)
      PROVE  Loop!Next
  <2>1. pc = "llm" /\ pc' = "tool" /\ next' = 1 /\ iter' = iter
    BY <1>7 DEF ModelAsksForTools
  <2>2. Len(Calls') \in Nat \ {0}
    <3>1. Calls' = reply.calls
      BY <1>7, AppendFacts, AssistantMessageType
      DEF ModelAsksForTools, Calls, IInv, TypeOK
    <3>2. reply.calls \in Seq(ToolCall) /\ reply.calls # <<>>
      BY <1>7, AssistantMessageType DEF ModelAsksForTools
    <3>3. QED
      BY <3>1, <3>2
  <2>3. /\ Phase = "asking" /\ Turns = MaxIterations - iter
        /\ Phase' = "acting" /\ Open' = Len(Calls')
        /\ Turns' = MaxIterations - iter - 1
    BY <1>0, <2>1, <2>2 DEF Phase, Open, Turns
  <2>4. Turns > 0 /\ Open' \in Nat \ {0} /\ Turns' = Turns - 1
    BY <1>0, <2>2, <2>3
  <2>5. Loop!Turn
    BY <2>3, <2>4 DEF Loop!Turn, Phase, Open, Turns
  <2>6. QED
    BY <2>5 DEF Loop!Next
<1>8. CASE ToolNotFound
  BY <1>8, AnswerCloses DEF ToolNotFound, InTurn, ToolTexts, Loop!Next
<1>9. CASE ToolBlocked
  BY <1>9, AnswerCloses DEF ToolBlocked, InTurn, ToolTexts, Loop!Next
<1>10. CASE ToolStarts
  BY <1>10 DEF ToolStarts, Phase, Open, Turns, Calls
<1>11. CASE ToolReturns
  <2>1. InTurn /\ next <= Len(Calls)
    BY <1>11 DEF ToolReturns, InTurn, IInv, TurnInv
  <2>2. PICK text \in {"output", "toolError"} : AnswerCall(text)
    BY <1>11 DEF ToolReturns
  <2>3. QED
    BY <2>1, <2>2, AnswerCloses DEF ToolTexts, Loop!Next
<1>12. CASE NextIteration
  <2>1. InTurn /\ Phase = "acting" /\ Open = 0 /\ Turns = MaxIterations - iter - 1
    <3>1. InTurn /\ next > Len(Calls)
      BY <1>12 DEF NextIteration, InTurn
    <3>2. Open = Len(Calls) - next + 1 /\ Open \in Nat
      BY <3>1, MappingValues
    <3>3. next \in Nat /\ Len(Calls) \in Nat
      BY <3>1, CallsType DEF IInv, TypeOK, TurnInv, Calls
    <3>4. QED
      BY <3>1, <3>2, <3>3, MappingValues
  <2>2. CASE iter + 1 < MaxIterations /\ pc' = "loop" /\ iter' = iter + 1
    <3>1. Phase' = "asking" /\ Open' = 0 /\ Turns' = MaxIterations - iter'
      BY <2>2 DEF Phase, Open, Turns
    <3>2. Turns' = Turns /\ Turns > 0
      BY <1>0, <2>1, <2>2, <3>1
    <3>3. Loop!AskAgain
      BY <2>1, <3>1, <3>2 DEF Loop!AskAgain, Phase, Open, Turns
    <3>4. QED
      BY <3>3 DEF Loop!Next
  <2>3. CASE iter + 1 = MaxIterations /\ pc' = "idle"
    <3>1. Phase' = "idle" /\ Open' = 0 /\ Turns' = 0
      BY <2>3 DEF Phase, Open, Turns
    <3>2. Turns = 0
      BY <1>0, <2>1, <2>3
    <3>3. Loop!End
      BY <2>1, <3>1, <3>2 DEF Loop!End, Phase, Open, Turns
    <3>4. QED
      BY <3>3 DEF Loop!Next
  <2>4. QED
    BY <1>12, <2>2, <2>3 DEF NextIteration, Return
<1>13. CASE UNCHANGED vars
  BY <1>13 DEF vars, Phase, Open, Turns, Calls
<1>14. QED
  BY <1>1, <1>2, <1>3, <1>5, <1>6, <1>7, <1>8, <1>9, <1>10, <1>11, <1>12, <1>13 DEF Next

\* The agent implements the tool loop for every iteration limit, tool set
\* and model: at most maxIterations turns a run, and no call left open
\* when the model is asked again or Run returns (agent.go:63-107).
THEOREM AgentRefinesToolLoop == Spec => ImplementsToolLoop
  BY InitRefines, StepRefines, Invariance, PTL DEF Spec, ImplementsToolLoop, Loop!Spec

-----------------------------------------------------------------------------
(***************************************************************************)
(* What reached a tool and what the conversation says agree.               *)
(***************************************************************************)
\* The answer of a tool that ran.
FromTool(m) == m.role = "tool" /\ m.content \in {"output", "toolError"}

\* Tools ran for later and later places of the conversation.
Ordered ==
  \A a, b \in 1..Len(executed) : a < b => executed[a] < executed[b]

\* Each answer is there, but for the one that is being computed: the next one.
Placed ==
  /\ \A a \in 1..Len(executed) :
       \/ executed[a] \in 1..Len(conversation)
       \/ pc = "exec" /\ a = Len(executed)
  /\ pc = "exec" =>
       /\ Len(executed) > 0
       /\ executed[Len(executed)] = Len(conversation) + 1

\* The answers that are there are exactly the answers of tools.
Matched ==
  \A j \in 1..Len(conversation) :
    FromTool(conversation[j]) <=> \E a \in 1..Len(executed) : executed[a] = j

\* The tool that runs was permitted.
Permitted == pc = "exec" => Permits(Mode, ToolIndex[Call.name].perm)

EffectsInv == Ordered /\ Placed /\ Matched /\ Permitted

-----------------------------------------------------------------------------
\* Where no tool runs before or after, appending a message that is not the
\* answer of a tool that ran, or nothing, keeps the agreement.
LEMMA AppendOther ==
  ASSUME TypeOK, EffectsInv, pc # "exec", pc' # "exec", UNCHANGED executed,
         NEW m \in Message, ~FromTool(m), conversation' = Append(conversation, m)
  PROVE  EffectsInv'
<1>1. /\ conversation \in Seq(Message) /\ executed \in Seq(Nat)
      /\ Len(conversation) \in Nat
  BY DEF TypeOK
<1>2. /\ Len(conversation') = Len(conversation) + 1
      /\ \A i \in 1..Len(conversation) : conversation'[i] = conversation[i]
      /\ conversation'[Len(conversation) + 1] = m
  BY <1>1, AppendFacts
<1>3. \A a \in 1..Len(executed) : executed[a] \in 1..Len(conversation)
  BY DEF EffectsInv, Placed
<1>4. Ordered' /\ Permitted'
  BY DEF EffectsInv, Ordered, Permitted
<1>5. Placed'
  BY <1>1, <1>2, <1>3 DEF Placed
<1>6. ASSUME NEW j \in 1..Len(conversation')
      PROVE  FromTool(conversation'[j]) <=> \E a \in 1..Len(executed') : executed'[a] = j
  <2>1. CASE j = Len(conversation) + 1
    BY <1>1, <1>2, <1>3, <2>1
  <2>2. CASE j # Len(conversation) + 1
    <3>1. j \in 1..Len(conversation)
      BY <1>1, <1>2, <2>2
    <3>2. conversation'[j] = conversation[j]
      BY <1>2, <3>1
    <3>3. QED
      BY <3>1, <3>2 DEF EffectsInv, Matched
  <2>3. QED
    BY <2>1, <2>2
<1>7. QED
  BY <1>4, <1>5, <1>6 DEF EffectsInv, Matched

LEMMA AppendNothing ==
  ASSUME EffectsInv, pc # "exec", pc' # "exec", UNCHANGED <<conversation, executed>>
  PROVE  EffectsInv'
  BY DEF EffectsInv, Ordered, Placed, Matched, Permitted

\* A tool starts: its answer will be the next message.
LEMMA StartKeeps == TypeOK /\ EffectsInv /\ ToolStarts => EffectsInv'
<1> SUFFICES ASSUME TypeOK, EffectsInv, ToolStarts
             PROVE  EffectsInv'
  OBVIOUS
<1> DEFINE n == Len(executed)
<1>1. /\ conversation \in Seq(Message) /\ executed \in Seq(Nat)
      /\ Len(conversation) \in Nat /\ n \in Nat
  BY DEF TypeOK
<1>2. /\ pc = "tool" /\ pc' = "exec"
      /\ UNCHANGED <<conversation, turn, next>>
      /\ executed' = Append(executed, Len(conversation) + 1)
      /\ Permits(Mode, ToolIndex[Call.name].perm)
  BY DEF ToolStarts
<1>3. /\ Len(executed') = n + 1
      /\ \A a \in 1..n : executed'[a] = executed[a]
      /\ executed'[n + 1] = Len(conversation) + 1
  BY <1>1, <1>2
<1>4. \A a \in 1..n : executed[a] \in 1..Len(conversation)
  BY <1>2 DEF EffectsInv, Placed
<1>5. Ordered'
  <2> SUFFICES ASSUME NEW a \in 1..(n + 1), NEW b \in 1..(n + 1), a < b
               PROVE  executed'[a] < executed'[b]
    BY <1>3 DEF Ordered
  <2>1. a \in 1..n
    BY <1>1
  <2>2. CASE b = n + 1
    BY <1>1, <1>3, <1>4, <2>1, <2>2
  <2>3. CASE b # n + 1
    <3>1. b \in 1..n
      BY <1>1, <2>3
    <3>2. QED
      BY <1>3, <2>1, <3>1 DEF EffectsInv, Ordered
  <2>4. QED
    BY <2>2, <2>3
<1>6. Placed'
  <2>1. ASSUME NEW a \in 1..(n + 1)
        PROVE  executed'[a] \in 1..Len(conversation) \/ a = n + 1
    <3>1. CASE a \in 1..n
      BY <1>3, <1>4, <3>1
    <3>2. CASE a \notin 1..n
      BY <1>1, <3>2
    <3>3. QED
      BY <3>1, <3>2
  <2>2. QED
    BY <1>1, <1>2, <1>3, <2>1 DEF Placed
<1>7. Matched'
  <2> SUFFICES ASSUME NEW j \in 1..Len(conversation)
               PROVE  FromTool(conversation[j])
                        <=> \E a \in 1..(n + 1) : executed'[a] = j
    BY <1>2, <1>3 DEF Matched, FromTool
  <2>1. ASSUME NEW a \in 1..(n + 1), executed'[a] = j
        PROVE  a \in 1..n /\ executed[a] = j
    BY <1>1, <1>3, <2>1
  <2>2. \A a \in 1..n : a \in 1..(n + 1)
    BY <1>1
  <2>3. QED
    BY <1>3, <2>1, <2>2 DEF EffectsInv, Matched
<1>8. Permitted'
  BY <1>2 DEF Permitted, Call, Calls
<1>9. QED
  BY <1>5, <1>6, <1>7, <1>8 DEF EffectsInv

\* It returns: the answer is appended where it was announced.
LEMMA ReturnKeeps == TypeOK /\ TurnInv /\ EffectsInv /\ ToolReturns => EffectsInv'
<1> SUFFICES ASSUME TypeOK, TurnInv, EffectsInv, ToolReturns
             PROVE  EffectsInv'
  OBVIOUS
<1> DEFINE n == Len(executed)
<1>0. PICK text \in {"output", "toolError"} : AnswerCall(text)
  BY DEF ToolReturns
<1> DEFINE m == ToolMessage(text, Call)
<1>1. /\ conversation \in Seq(Message) /\ executed \in Seq(Nat)
      /\ Len(conversation) \in Nat /\ n \in Nat
  BY DEF TypeOK
<1>2. /\ pc = "exec" /\ pc' = "tool" /\ UNCHANGED executed
      /\ conversation' = Append(conversation, m)
  BY <1>0 DEF ToolReturns, AnswerCall
<1>3. Call \in ToolCall
  <2>1. turn \in 1..Len(conversation) /\ next \in 1..Len(Calls)
    BY <1>2 DEF TurnInv, InTurn
  <2>2. QED
    BY <1>1, <2>1, CallsType DEF Call, Calls
<1>4. m \in Message
  BY <1>3, ToolMessageType DEF ToolTexts
<1>5. FromTool(m)
  BY DEF FromTool, ToolMessage
<1>6. /\ Len(conversation') = Len(conversation) + 1
      /\ \A i \in 1..Len(conversation) : conversation'[i] = conversation[i]
      /\ conversation'[Len(conversation) + 1] = m
  BY <1>1, <1>2, <1>4, AppendFacts
<1>7. n \in 1..n /\ executed[n] = Len(conversation) + 1
  BY <1>1, <1>2 DEF EffectsInv, Placed
<1>8. Ordered' /\ Permitted'
  BY <1>2 DEF EffectsInv, Ordered, Permitted
<1>9. Placed'
  <2>1. \A a \in 1..n : executed[a] \in 1..(Len(conversation) + 1)
    BY <1>1, <1>7 DEF EffectsInv, Placed
  <2>2. QED
    BY <1>2, <1>6, <2>1 DEF Placed
<1>10. ASSUME NEW j \in 1..Len(conversation')
       PROVE  FromTool(conversation'[j]) <=> \E a \in 1..Len(executed') : executed'[a] = j
  <2>1. CASE j = Len(conversation) + 1
    BY <1>2, <1>5, <1>6, <1>7, <2>1
  <2>2. CASE j # Len(conversation) + 1
    <3>1. j \in 1..Len(conversation)
      BY <1>1, <1>6, <2>2
    <3>2. conversation'[j] = conversation[j]
      BY <1>6, <3>1
    <3>3. QED
      BY <1>2, <3>1, <3>2 DEF EffectsInv, Matched
  <2>3. QED
    BY <2>1, <2>2
<1>11. QED
  BY <1>8, <1>9, <1>10 DEF EffectsInv, Matched

-----------------------------------------------------------------------------
LEMMA EffectsInit == Init => EffectsInv
  BY DEF Init, EffectsInv, Ordered, Placed, Matched, Permitted

LEMMA EffectsStep == IInv /\ EffectsInv /\ [Next]_vars => EffectsInv'
<1> SUFFICES ASSUME IInv, EffectsInv, [Next]_vars
             PROVE  EffectsInv'
  OBVIOUS
<1>0. TypeOK /\ TurnInv
  BY DEF IInv
<1>1. CASE Run
  <2>1. UserMessage \in Message /\ ~FromTool(UserMessage)
    BY UserMessageType DEF FromTool
  <2>2. QED
    BY <1>0, <1>1, <2>1, AppendOther DEF Run
<1>2. CASE Cancel
  BY <1>2 DEF Cancel, EffectsInv, Ordered, Placed, Matched, Permitted, Call, Calls
<1>3. CASE CallModel
  BY <1>3, AppendNothing DEF CallModel
<1>4. CASE ModelFails
  BY <1>4, AppendNothing DEF ModelFails, Return
<1>5. ASSUME NEW reply \in Replies, ModelAnswers(reply) \/ ModelAsksForTools(reply)
      PROVE  EffectsInv'
  <2>1. AssistantMessage(reply) \in Message /\ ~FromTool(AssistantMessage(reply))
    BY AssistantMessageType DEF FromTool
  <2>2. QED
    BY <1>0, <1>5, <2>1, AppendOther DEF ModelAnswers, ModelAsksForTools, Return
<1>6. CASE ToolNotFound \/ ToolBlocked
  <2>1. PICK text \in {"notFound", "blocked"} : AnswerCall(text)
    BY <1>6 DEF ToolNotFound, ToolBlocked
  <2>2. pc = "tool" /\ next <= Len(Calls) /\ UNCHANGED executed
    BY <1>6 DEF ToolNotFound, ToolBlocked
  <2>3. Call \in ToolCall
    <3>1. turn \in 1..Len(conversation) /\ next \in 1..Len(Calls)
      BY <1>0, <2>2 DEF TurnInv, InTurn
    <3>2. QED
      BY <1>0, <3>1, CallsType DEF Call, Calls, TypeOK
  <2>4. ToolMessage(text, Call) \in Message /\ ~FromTool(ToolMessage(text, Call))
    BY <2>3, ToolMessageType DEF ToolTexts, FromTool, ToolMessage
  <2>5. QED
    BY <1>0, <2>1, <2>2, <2>4, AppendOther DEF AnswerCall
<1>7. CASE ToolStarts
  BY <1>0, <1>7, StartKeeps
<1>8. CASE ToolReturns
  BY <1>0, <1>8, ReturnKeeps
<1>9. CASE NextIteration
  BY <1>9, AppendNothing DEF NextIteration, Return
<1>10. CASE UNCHANGED vars
  BY <1>10 DEF vars, EffectsInv, Ordered, Placed, Matched, Permitted, Call, Calls
<1>11. QED
  BY <1>1, <1>2, <1>3, <1>4, <1>5, <1>6, <1>7, <1>8, <1>9, <1>10 DEF Next

\* With its invariants what was executed and the conversation agree.
LEMMA InvAccountsEffects == IInv /\ EffectsInv => EffectsAccounted
<1> SUFFICES ASSUME IInv, EffectsInv
             PROVE  EffectsAccounted
  OBVIOUS
<1>1. ASSUME NEW a \in 1..Len(executed), executed[a] > Len(conversation)
      PROVE  pc = "exec" /\ a = Len(executed)
  <2>1. Len(conversation) \in Nat
    BY DEF IInv, TypeOK
  <2>2. QED
    BY <1>1, <2>1 DEF EffectsInv, Placed
<1>2. pc = "exec" => ToolIndex[Call.name].perm <= PermissionReadOnly
  BY AgentAssumption DEF AgentAssumption, EffectsInv, Permitted, Permits
<1>3. QED
  BY <1>1, <1>2 DEF EffectsAccounted, EffectsInv, Ordered, Matched, FromTool

\* Every call that reached a tool was permitted, ran once and in order, and has
\* its outcome in the conversation; every outcome there is of a tool that ran
\* (agent.go:98-130, sandbox.go:55-80).
THEOREM EffectsCorrect == Spec => []EffectsAccounted
<1>1. Spec => [](IInv /\ EffectsInv)
  BY InitInv, StepInv, EffectsInit, EffectsStep, PTL DEF Spec
<1>2. QED
  BY <1>1, InvAccountsEffects, PTL
=============================================================================
