--------------------------- MODULE GeminiProvider ---------------------------
(***************************************************************************)
(* internal/provider/gemini under the agent: every request is built from   *)
(* the agent's conversation in Gemini's format, every response is parsed   *)
(* into the message that Run appends.  A tool call so makes a round trip:  *)
(* arguments that came as a map are kept as JSON text and turned back into *)
(* a map in every later request.                                           *)
(*                                                                         *)
(* The API is the environment: it answers with any member of Responses.    *)
(* Argument objects are opaque, JSON gives their texts.                    *)
(***************************************************************************)
EXTENDS Agent, Functions, FiniteSets

CONSTANTS
  Objects,   \* argument maps that are not empty
  JSON,      \* their texts
  Responses  \* what GenerateContent may return: a sequence of candidates,
             \* each the sequence of its content's parts

NilMap   == "nil"    \* a map[string]any that is nil, and one without keys:
EmptyMap == "empty"  \* on the wire both are left out (args,omitempty)

NoText == ""  \* a string without characters

FunctionCall == [id : CallIds, name : Names, args : Objects \cup {NilMap, EmptyMap}]
TextPart(t) == [kind |-> "text", text |-> t]
CallPart(c) == [kind |-> "functionCall", call |-> c]

Part == {TextPart(t) : t \in Texts} \cup {CallPart(c) : c \in FunctionCall}

-----------------------------------------------------------------------------
\* json.Marshal of a call's arguments.
Marshal(map) ==
  CASE map = NilMap   -> "null"
    [] map = EmptyMap -> "{}"
    [] map \in Objects -> JSON[map]

ToolCallOf(c) == [id |-> c.id, name |-> c.name, args |-> Marshal(c.args)]

\* The elements of s at the given indices, in order.
Keep(s, indices) ==
  LET Kept[n \in 0..Len(s)] ==
        IF n = 0 THEN <<>>
        ELSE IF n \in indices THEN Append(Kept[n - 1], s[n])
        ELSE Kept[n - 1]
  IN  Kept[Len(s)]

\* What the loop of parseResponse has when it is over: the texts of the parts
\* joined, and the calls among them.
TextOf(parts) ==
  LET Joined[n \in 0..Len(parts)] ==
        IF n = 0 THEN NoText
        ELSE IF parts[n].kind = "text" THEN Joined[n - 1] \o parts[n].text
        ELSE Joined[n - 1]
  IN  Joined[Len(parts)]

CallsOf(parts) ==
  LET calls == Keep(parts, {i \in DOMAIN parts : parts[i].kind = "functionCall"})
  IN  [k \in DOMAIN calls |-> calls[k].call]

\* Mutant of ParseResponse: a reply with calls loses its text.
ParseResponseEither(response) ==
  LET calls == CallsOf(response[1])
  IN  [content |-> IF calls = <<>> THEN TextOf(response[1]) ELSE NoText,
       calls   |-> [k \in DOMAIN calls |-> ToolCallOf(calls[k])]]

\* The first candidate counts; a content that is nil has no parts.
ParseResponse(response) ==
  LET calls == CallsOf(response[1])
  IN  [content |-> TextOf(response[1]),
       calls   |-> [k \in DOMAIN calls |-> ToolCallOf(calls[k])]]

\* Of texts it is assumed that the empty one is neutral.
ASSUME GeminiAssumption ==
  /\ \A t \in Texts : NoText \o t = t
  /\ {NilMap, EmptyMap} \cap Objects = {}
  /\ JSON \in [Objects -> Arguments \ {NoText, "{}", "null"}]
  /\ IsInjective(JSON)
  /\ Responses \subseteq Seq(Seq(Part))
  /\ {ParseResponse(r) : r \in Responses \ {<<>>}} \subseteq Replies

-----------------------------------------------------------------------------
\* Mutant of IsArgs: a null is not taken for an object.
IsArgsNotNull(text) == text \in {NoText, "{}"} \cup Range(JSON)

\* argsStringToMap: the texts it accepts, and what it makes of them.
IsArgs(text) == text \in {NoText, "{}", "null"} \cup Range(JSON)

ArgsStringToMap(text) ==
  IF text \in {NoText, "{}", "null"} THEN NilMap ELSE CHOOSE o \in Objects : JSON[o] = text

\* toolContentToMap: the tools and the agent's error messages write plain
\* text, which has no name and becomes the whole output.
ToolContentToMap(content) == [name |-> NoText, data |-> content]

MapRole(role) == IF role = "assistant" THEN "model" ELSE "user"

\* Mutant of ToolPart: the call's id is left out.
ToolPartWithoutId(m) ==
  [kind |-> "functionResponse", id |-> NoText,
   name |-> ToolContentToMap(m.content).name, data |-> ToolContentToMap(m.content).data]

ToolPart(m) ==
  [kind |-> "functionResponse", id |-> m.callId,
   name |-> ToolContentToMap(m.content).name, data |-> ToolContentToMap(m.content).data]

\* The text first, then the calls, wherever the response had them.
AssistantParts(m) ==
  (IF m.content = NoText THEN <<>> ELSE <<TextPart(m.content)>>)
    \o [k \in DOMAIN m.calls |->
          CallPart([m.calls[k] EXCEPT !.args = ArgsStringToMap(m.calls[k].args)])]

ConvertMessage(m) ==
  [role  |-> MapRole(m.role),
   parts |-> CASE m.role = "tool"      -> <<ToolPart(m)>>
               [] m.role = "assistant" -> AssistantParts(m)
               [] OTHER                -> <<TextPart(m.content)>>]

\* buildRequest: the texts of the system messages go into the instruction, one
\* below the other, and the other messages become contents.
ExtractSystemInstruction(msgs) ==
  LET parts == Keep(msgs, {i \in DOMAIN msgs : msgs[i].role = "system"})
  IN  [i \in DOMAIN parts |-> parts[i].content]

ConvertMessages(msgs) ==
  LET turns == Keep(msgs, {i \in DOMAIN msgs : msgs[i].role # "system"})
  IN  [i \in DOMAIN turns |-> ConvertMessage(turns[i])]

\* Converting a message fails, and with it the request.
Convertible(msgs) ==
  \A i \in DOMAIN msgs : \A k \in DOMAIN msgs[i].calls : IsArgs(msgs[i].calls[k].args)

-----------------------------------------------------------------------------
VARIABLE said  \* history: the parts of each response the agent has accepted

wireVars == <<vars, said>>

WireInit == Init /\ said = <<>>

\* Complete, with a request that can be built (see AlwaysConvertible).
Send == CallModel /\ Convertible(BuildMessages) /\ UNCHANGED said

\* GenerateContent returns, and the message it is parsed into is appended.
Receive(response) ==
  /\ response # <<>>
  /\ ModelAnswers(ParseResponse(response)) \/ ModelAsksForTools(ParseResponse(response))
  /\ said' = Append(said, response[1])

\* GenerateContent fails, or returns no candidates.
Fails == ModelFails /\ UNCHANGED said

WireNext ==
  \/ Send
  \/ \E response \in Responses : Receive(response)
  \/ Fails
  \/ (Run \/ Cancel \/ ToolNotFound \/ ToolBlocked \/ ToolStarts \/ ToolReturns
       \/ NextIteration) /\ UNCHANGED said

WireSpec == WireInit /\ [][WireNext]_wireVars

-----------------------------------------------------------------------------
Contents == ConvertMessages(BuildMessages)

\* What a model's content says: its text, and its calls as they are on the
\* wire, where empty arguments are left out.
Says(parts) ==
  [text  |-> TextOf(parts),
   calls |-> LET calls == CallsOf(parts)
             IN  [k \in DOMAIN calls |->
                    [calls[k] EXCEPT !.args = IF @ = EmptyMap THEN NilMap ELSE @]]]

\* Every conversation can be sent: whatever the API answered, and however
\* often, is accepted back by buildRequest (gemini.go:167-172, 286-295).
AlwaysConvertible == pc = "loop" => Convertible(BuildMessages)

(***************************************************************************)
(* The model is shown its own words: over any number of turns and of Runs, *)
(* the contents of role model say what the responses said, in order, and   *)
(* the system prompt goes along once, never as a turn (gemini.go:85-87,    *)
(* 161-178, 234-250).                                                      *)
(***************************************************************************)
HistoryTruthful ==
  pc = "llm" =>
    /\ LET models == {i \in DOMAIN Contents : Contents[i].role = "model"}
       IN  /\ Cardinality(models) = Len(said)
           /\ \A i \in models :
                Says(Contents[i].parts) = Says(said[Cardinality({j \in models : j <= i})])
    /\ ExtractSystemInstruction(BuildMessages) = <<"systemPrompt">>
    /\ Len(Contents) = Len(conversation)

\* The contents right after one with calls are the responses to them, with
\* their ids and in their order (gemini.go:147-159, agent.go:98-107).
ResponsesFollowCalls ==
  pc = "llm" =>
    \A i \in DOMAIN Contents :
      LET calls == CallsOf(Contents[i].parts)
      IN  \A k \in DOMAIN calls :
            /\ i + k <= Len(Contents)
            /\ Contents[i + k].role = "user"
            /\ Len(Contents[i + k].parts) = 1
            /\ Contents[i + k].parts[1].kind = "functionResponse"
            /\ Contents[i + k].parts[1].id = calls[k].id
=============================================================================
