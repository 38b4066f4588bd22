------------------------------- MODULE MCWatch -------------------------------
(* A quiet reading, a deviation at the threshold and a spike from zero; a  *)
(* model that answers with each kind of text, or asks for a tool that runs *)
(* and one that is blocked; three cycles of two turns.                     *)
EXTENDS WatchAgent

LOCAL INSTANCE Sandbox

LOCAL Reading(current, baseline) ==
  [error    |-> FALSE,
   current  |-> [sum |-> current, count |-> 1],
   baseline |-> [sum |-> baseline, count |-> 1]]

MCReadings == {Reading(12, 10), Reading(15, 10), Reading(3, 0), Reading(0, 0)}

MCNames     == {"reader", "writer"}
MCCallIds   == {"a"}
MCArguments == {"{}"}
MCTexts     == AnswerKinds
MCTools     == <<[name |-> "reader", perm |-> PermissionReadOnly],
                 [name |-> "writer", perm |-> PermissionWrite]>>

LOCAL Ask(name) == [id |-> "a", name |-> name, args |-> "{}"]

MCReplies ==
  {[content |-> "ok", calls |-> <<>>],
   [content |-> "anomaly", calls |-> <<>>],
   [content |-> "empty", calls |-> <<>>],
   [content |-> "empty", calls |-> <<Ask("reader"), Ask("writer")>>]}
=============================================================================
