------------------------------- MODULE MCAgent ------------------------------
(* The agent with a read-only and a writing tool, and replies that ask for *)
(* one, two or three of them, unknown names and repeated or empty call ids *)
(* included.                                                               *)
EXTENDS Agent

MCNames   == {"reader", "writer", "unknown"}
MCCallIds == {"a", ""}
MCArguments == {"{}"}
MCTexts   == {"text", ""}
MCTools   == <<[name |-> "reader", perm |-> PermissionReadOnly],
               [name |-> "writer", perm |-> PermissionWrite]>>

LOCAL Ask(id, name) == [id |-> id, name |-> name, args |-> "{}"]
LOCAL Calling(calls) == [content |-> "", calls |-> calls]

MCReplies ==
  {[content |-> "text", calls |-> <<>>],
   [content |-> "", calls |-> <<>>],
   Calling(<<Ask("a", "reader")>>),
   Calling(<<Ask("a", "writer"), Ask("", "reader")>>),
   Calling(<<Ask("", "unknown"), Ask("", "reader"), Ask("a", "reader")>>)}
=============================================================================
