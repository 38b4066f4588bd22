---------------------------- MODULE GroqProvider ----------------------------
(***************************************************************************)
(* internal/provider/groq under the agent: every request is the agent's    *)
(* conversation in the format of OpenAI's chat completions, the system     *)
(* prompt as its first message, and every response is parsed into the      *)
(* message that Run appends.  Arguments are text on both sides and are     *)
(* never looked into, valid JSON or not.                                   *)
(*                                                                         *)
(* The API is the environment: it answers with any member of Responses.    *)
(***************************************************************************)
EXTENDS Agent, FiniteSets

CONSTANT Responses  \* what CreateChatCompletion may return: a sequence of
                    \* choices, each the message of its choice

FunctionCall == [name : Names, arguments : Arguments]
APIToolCall  == [id : CallIds, function : FunctionCall]
Choice       == [content : Texts, toolCalls : Seq(APIToolCall)]

-----------------------------------------------------------------------------
ToolCallOf(tc) == [id |-> tc.id, name |-> tc.function.name, args |-> tc.function.arguments]

\* Mutant of ParseResponse: calls are handled one per reply, the rest dropped.
ParseResponseFirstCall(response) ==
  LET calls == response[1].toolCalls
  IN  [content |-> response[1].content,
       calls   |-> IF calls = <<>> THEN <<>> ELSE <<ToolCallOf(Head(calls))>>]

\* The first choice counts.
ParseResponse(response) ==
  LET calls == response[1].toolCalls
  IN  [content |-> response[1].content,
       calls   |-> [k \in DOMAIN calls |-> ToolCallOf(calls[k])]]

\* Assumed by Providers.
GroqAssumption ==
  /\ Responses \subseteq Seq(Choice)
  /\ {ParseResponse(r) : r \in Responses \ {<<>>}} \subseteq Replies

ConvertToolCallsOut(calls) ==
  [k \in DOMAIN calls |->
     [id |-> calls[k].id,
      function |-> [name |-> calls[k].name, arguments |-> calls[k].args]]]

\* Mutant of ConvertMessage: the answer does not say which call it is for.
ConvertMessageWithoutId(m) ==
  [role       |-> m.role,
   content    |-> m.content,
   toolCalls  |-> IF m.role = "assistant" THEN ConvertToolCallsOut(m.calls) ELSE <<>>,
   toolCallId |-> ""]

\* The roles have the same names on both sides; calls go with an assistant
\* message only, an id with a tool message only.
ConvertMessage(m) ==
  [role       |-> m.role,
   content    |-> m.content,
   toolCalls  |-> IF m.role = "assistant" THEN ConvertToolCallsOut(m.calls) ELSE <<>>,
   toolCallId |-> IF m.role = "tool" THEN m.callId ELSE ""]

BuildRequest == [i \in DOMAIN BuildMessages |-> ConvertMessage(BuildMessages[i])]

-----------------------------------------------------------------------------
VARIABLE said  \* history: the message of each response the agent has accepted

wireVars == <<vars, said>>

WireInit == Init /\ said = <<>>

\* Complete; building the request cannot fail on a message.
Send == CallModel /\ UNCHANGED said

\* CreateChatCompletion returns, and the message it is parsed into is appended.
Receive(response) ==
  /\ response # <<>>
  /\ ModelAnswers(ParseResponse(response)) \/ ModelAsksForTools(ParseResponse(response))
  /\ said' = Append(said, response[1])

\* CreateChatCompletion fails, or returns no choices.
Fails == ModelFails /\ UNCHANGED said

WireNext ==
  \/ Send
  \/ \E response \in Responses : Receive(response)
  \/ Fails
  \/ (Run \/ Cancel \/ ToolNotFound \/ ToolBlocked \/ ToolStarts \/ ToolReturns
       \/ NextIteration) /\ UNCHANGED said

WireSpec == WireInit /\ [][WireNext]_wireVars

-----------------------------------------------------------------------------
(***************************************************************************)
(* Nothing is lost or changed on the way: over any number of turns and of  *)
(* Runs, the assistant messages of a request are the messages the model    *)
(* sent, in order, invalid arguments included, and the system prompt is    *)
(* the first message and the only one of its role (groq.go:103-144,        *)
(* 172-189, agent.go:138-148).                                             *)
(***************************************************************************)
HistoryVerbatim ==
  pc = "llm" =>
    /\ LET spoken == {i \in DOMAIN BuildRequest : BuildRequest[i].role = "assistant"}
       IN  /\ Cardinality(spoken) = Len(said)
           /\ \A i \in spoken :
                [content |-> BuildRequest[i].content, toolCalls |-> BuildRequest[i].toolCalls]
                  = said[Cardinality({j \in spoken : j <= i})]
    /\ \A i \in DOMAIN BuildRequest : BuildRequest[i].role = "system" <=> i = 1

\* In every request the messages right after one with calls answer them, each
\* with the id of its call and in their order, and no other message claims to
\* (groq.go:113-118, agent.go:98-107).
AnswersFollowCalls ==
  pc = "llm" =>
    /\ \A i \in DOMAIN BuildRequest : \A k \in DOMAIN BuildRequest[i].toolCalls :
         /\ i + k <= Len(BuildRequest)
         /\ BuildRequest[i + k].role = "tool"
         /\ BuildRequest[i + k].toolCallId = BuildRequest[i].toolCalls[k].id
    /\ \A j \in DOMAIN BuildRequest : BuildRequest[j].role = "tool" =>
         \E i \in 1..(j - 1) : j - i <= Len(BuildRequest[i].toolCalls)
=============================================================================
