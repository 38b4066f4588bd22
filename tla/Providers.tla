------------------------------ MODULE Providers ------------------------------
(***************************************************************************)
(* The agent on the provider that provider.New made for a name.  Run knows *)
(* only the interface; here the requests and replies are those of Gemini   *)
(* or of Groq, to the format on the wire.                                  *)
(***************************************************************************)
EXTENDS GeminiProvider

CONSTANT GroqResponses  \* Responses of GroqProvider

VARIABLE provider  \* the name given to provider.New

Groq == INSTANCE GroqProvider WITH Responses <- GroqResponses

ASSUME ProvidersAssumption == Groq!GroqAssumption

allVars == <<wireVars, provider>>

New == WireInit /\ provider \in {"gemini", "groq"}

Use ==
  /\ \/ provider = "gemini" /\ WireNext
     \/ provider = "groq" /\ Groq!WireNext
  /\ UNCHANGED provider

ProvidersSpec == New /\ [][Use]_allVars

-----------------------------------------------------------------------------
\* Every conversation can be sent: whatever Gemini answered, and however
\* often, is accepted back by buildRequest (gemini.go:167-172, 286-295).
RequestsBuildable == provider = "gemini" => AlwaysConvertible

(***************************************************************************)
(* The model is shown its own words: over any number of turns and of Runs, *)
(* a request repeats what the responses said, in order; on Groq word for   *)
(* word, arguments that are not JSON included, on Gemini with the text     *)
(* moved before the calls.  The system prompt goes along exactly once      *)
(* (gemini.go:85-87, 161-178, 234-250, groq.go:103-144, 172-189).          *)
(***************************************************************************)
HistoryKept ==
  IF provider = "gemini" THEN HistoryTruthful ELSE Groq!HistoryVerbatim

(***************************************************************************)
(* On the wire too, the messages right after one with calls answer them,   *)
(* in their order and with their ids (gemini.go:147-159, groq.go:113-118,  *)
(* agent.go:98-107).  The order is all there is to tell the answers of     *)
(* Gemini's parallel calls apart when the API gave no ids.                 *)
(***************************************************************************)
AnswersFollowOnWire ==
  IF provider = "gemini" THEN ResponsesFollowCalls ELSE Groq!AnswersFollowCalls
=============================================================================
