------------------------------ MODULE NameMap ------------------------------
(***************************************************************************)
(* What a registry promises concurrent callers: every call takes effect at *)
(* one moment between its beginning and its return.  A registration of a   *)
(* free name claims it, and one of a taken name fails and changes nothing; *)
(* a lookup sees the whole map, or its part of it, as it is at that moment.*)
(***************************************************************************)
EXTENDS Functions

CONSTANTS
  Callers,  \* who may call
  Names,    \* what may be registered
  NoOne     \* the owner of a name that is free; the argument of All

VARIABLES
  owner,    \* who registered each name
  call,     \* what each caller asked for: [op, name]
  status,   \* "idle", "called" or "done"
  outcome,  \* "none" until the effect, then how the call ends
  seen      \* the part of the map the call saw, at its effect

mapVars == <<owner, call, status, outcome, seen>>

Nothing == <<>>
NoCall == [op |-> "none", name |-> NoOne]

Init ==
  /\ owner = [n \in Names |-> NoOne]
  /\ call = [c \in Callers |-> NoCall]
  /\ status = [c \in Callers |-> "idle"]
  /\ outcome = [c \in Callers |-> "none"]
  /\ seen = [c \in Callers |-> Nothing]

Begin(c, op, name) ==
  /\ status[c] = "idle"
  /\ status' = [status EXCEPT ![c] = "called"]
  /\ call' = [call EXCEPT ![c] = [op |-> op, name |-> name]]
  /\ UNCHANGED <<owner, outcome, seen>>

\* The part of the map a call is about.
View(map, c) == IF call[c].op = "All" THEN map ELSE Restrict(map, {call[c].name})

Done(c, how) ==
  /\ status[c] = "called"
  /\ status' = [status EXCEPT ![c] = "done"]
  /\ outcome' = [outcome EXCEPT ![c] = how]
  /\ seen' = [seen EXCEPT ![c] = View(owner', c)]
  /\ UNCHANGED call

Claim(c) ==
  /\ call[c].op = "Register"
  /\ owner[call[c].name] = NoOne
  /\ owner' = [owner EXCEPT ![call[c].name] = c]
  /\ Done(c, "ok")

Refuse(c) ==
  /\ call[c].op = "Register"
  /\ owner[call[c].name] # NoOne
  /\ UNCHANGED owner
  /\ Done(c, "panic")

Look(c) ==
  /\ call[c].op \in {"New", "Get"}
  /\ UNCHANGED owner
  /\ Done(c, IF owner[call[c].name] = NoOne THEN "unknown" ELSE "found")

LookAtAll(c) ==
  /\ call[c].op = "All"
  /\ UNCHANGED owner
  /\ Done(c, "found")

Return(c) ==
  /\ status[c] = "done"
  /\ status' = [status EXCEPT ![c] = "idle"]
  /\ call' = [call EXCEPT ![c] = NoCall]
  /\ outcome' = [outcome EXCEPT ![c] = "none"]
  /\ seen' = [seen EXCEPT ![c] = Nothing]
  /\ UNCHANGED owner

Next ==
  \E c \in Callers :
    \/ \E op \in {"Register", "New", "Get", "All"}, n \in Names \cup {NoOne} : Begin(c, op, n)
    \/ Claim(c)
    \/ Refuse(c)
    \/ Look(c)
    \/ LookAtAll(c)
    \/ Return(c)

Spec == Init /\ [][Next]_mapVars
=============================================================================
