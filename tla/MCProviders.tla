----------------------------- MODULE MCProviders -----------------------------
(* Gemini: responses without candidates, with a content that is nil, with  *)
(* text in several parts and around calls, with ids and without, and with  *)
(* each kind of arguments.  Groq: responses without choices, with empty    *)
(* texts, text beside calls, repeated ids, arguments that are not JSON.    *)
(* Two turns, so that calls of the first are sent back; two Runs.          *)
EXTENDS Providers

MCNames     == {"reader", "writer", "unknown"}
MCCallIds   == {"a", "b", ""}
MCTexts     == {"", "t", "tt"}
MCObjects   == {"query"}
MCJSON      == [o \in MCObjects |-> "{query}"]
MCArguments == {"{query}", "{}", "null", "garbled"}
MCTools     == <<[name |-> "reader", perm |-> PermissionReadOnly],
                 [name |-> "writer", perm |-> PermissionWrite]>>

LOCAL Ask(id, name, args) == CallPart([id |-> id, name |-> name, args |-> args])

MCResponses ==
  {<<>>,
   << <<>> >>,
   << <<TextPart("t"), TextPart("t")>> >>,
   << <<TextPart("t"), Ask("a", "reader", "query")>>, <<TextPart("t")>> >>,
   << <<Ask("a", "writer", NilMap), TextPart("t"), Ask("b", "reader", EmptyMap)>> >>,
   << <<Ask("", "reader", "query"), Ask("", "reader", EmptyMap)>> >>}

LOCAL GroqAsk(id, name, arguments) ==
  [id |-> id, function |-> [name |-> name, arguments |-> arguments]]
LOCAL Choice(content, toolCalls) == [content |-> content, toolCalls |-> toolCalls]

MCGroqResponses ==
  {<<>>,
   <<Choice("t", <<>>)>>,
   <<Choice("", <<>>)>>,
   <<Choice("t", <<GroqAsk("a", "reader", "{query}")>>), Choice("t", <<>>)>>,
   <<Choice("", <<GroqAsk("a", "writer", "garbled"), GroqAsk("b", "reader", "garbled")>>)>>,
   <<Choice("t", <<GroqAsk("a", "unknown", "{}"), GroqAsk("a", "reader", "{}")>>)>>}

MCReplies ==
  {ParseResponse(r) : r \in MCResponses \ {<<>>}}
    \cup {[content |-> r[1].content,
           calls   |-> [k \in DOMAIN r[1].toolCalls |->
                          [id   |-> r[1].toolCalls[k].id,
                           name |-> r[1].toolCalls[k].function.name,
                           args |-> r[1].toolCalls[k].function.arguments]]]
           : r \in MCGroqResponses \ {<<>>}}
=============================================================================
