------------------------------ MODULE ToolLoop ------------------------------
(***************************************************************************)
(* What one agent promises its caller, without conversation, tools or      *)
(* sandbox: a run asks the model at most MaxTurns times; a turn may open   *)
(* tool calls; every call a turn opened is closed, one at a time, before   *)
(* the model is asked again or the run ends; and a run that has used its   *)
(* turns up ends without asking again.                                     *)
(***************************************************************************)
EXTENDS Naturals

CONSTANT MaxTurns

VARIABLES
  phase,   \* "idle", "asking" the model, or "acting" on its calls
  open,    \* how many calls of the current turn are not answered yet
  turns    \* how many more turns this run may take

loopVars == <<phase, open, turns>>

Init == phase = "idle" /\ open = 0 /\ turns = 0

\* The caller starts a run.
Begin ==
  /\ phase = "idle"
  /\ phase' = "asking"
  /\ turns' = MaxTurns
  /\ UNCHANGED open

\* The model opens some calls.
Turn ==
  /\ phase = "asking"
  /\ turns > 0
  /\ phase' = "acting"
  /\ open' \in Nat \ {0}
  /\ turns' = turns - 1

\* One call is closed: executed, refused or unknown.
Close ==
  /\ phase = "acting"
  /\ open > 0
  /\ open' = open - 1
  /\ UNCHANGED <<phase, turns>>

\* With nothing open the model is asked again, if a turn is left.
AskAgain ==
  /\ phase = "acting"
  /\ open = 0
  /\ turns > 0
  /\ phase' = "asking"
  /\ UNCHANGED <<open, turns>>

\* The run ends: an answer or an error while asking, or no turn left.
End ==
  /\ \/ phase = "asking"
     \/ phase = "acting" /\ turns = 0
  /\ open = 0
  /\ phase' = "idle"
  /\ turns' = 0
  /\ UNCHANGED open

Next ==
  \/ Begin
  \/ Turn
  \/ Close
  \/ AskAgain
  \/ End

Spec == Init /\ [][Next]_loopVars
=============================================================================
