------------------------------ MODULE Registry ------------------------------
(***************************************************************************)
(* The registries of internal/provider/registry.go and internal/tool: each *)
(* is a Go map behind a sync.RWMutex.  Register is the same code in both;  *)
(* New belongs to the providers, Get and All to the tools.                 *)
(*                                                                         *)
(* Goroutines call the operations in any order and number.  A map access   *)
(* begins when a goroutine arrives at it and ends with the step that       *)
(* leaves it, so two accesses overlap when two goroutines are at theirs;   *)
(* All visits one entry per step, in any order.  A read that overlaps a    *)
(* write is undefined: Go's runtime may stop the process.                  *)
(***************************************************************************)
EXTENDS Functions

CONSTANTS
  Goroutines,  \* callers
  Names,       \* names of providers or tools
  NoOne,       \* no goroutine
  Uses         \* which operations each goroutine calls

Operations == {"Register", "New", "Get", "All"}

ASSUME RegistryAssumption ==
  /\ NoOne \notin Goroutines \cup Names
  /\ Uses \in [Goroutines -> SUBSET Operations]

VARIABLES
  alive,     \* the process was not stopped by the runtime
  registry,  \* the map: who registered each name
  locker,    \* the goroutine that called mu.Lock and got ahead of the others
  readers,   \* the goroutines that hold mu for reading
  pc,        \* where each goroutine is (see TypeOK)
  call,      \* its operation and argument
  outcome,   \* how its call ends, once that is decided
  seen       \* the entries it read

lockVars == <<locker, readers>>
vars == <<alive, registry, lockVars, pc, call, outcome, seen>>

Nothing == <<>>
NoCall == [op |-> "none", name |-> NoOne]

Init ==
  /\ alive = TRUE
  /\ registry = [n \in Names |-> NoOne]
  /\ locker = NoOne
  /\ readers = {}
  /\ pc = [g \in Goroutines |-> "idle"]
  /\ call = [g \in Goroutines |-> NoCall]
  /\ outcome = [g \in Goroutines |-> "none"]
  /\ seen = [g \in Goroutines |-> Nothing]

At(g, label) == alive /\ pc[g] = label
Goto(g, label) == pc' = [pc EXCEPT ![g] = label]
Entry(g) == registry[call[g].name]

\* The outcome of g's call is decided, having seen the entries of map.
Decide(g, how, map) ==
  /\ outcome' = [outcome EXCEPT ![g] = how]
  /\ seen' = [seen EXCEPT ![g] = map]

Begin(g, op, name) ==
  /\ At(g, "idle")
  /\ Goto(g, IF op = "Register" THEN "lock" ELSE "rlock")
  /\ op = "All" <=> name = NoOne
  /\ call' = [call EXCEPT ![g] = [op |-> op, name |-> name]]
  /\ UNCHANGED <<alive, registry, lockVars, outcome, seen>>

\* The call returns, or its panic leaves the package.
Return(g) ==
  /\ Goto(g, "idle")
  /\ call' = [call EXCEPT ![g] = NoCall]
  /\ Decide(g, "none", Nothing)

-----------------------------------------------------------------------------
\* Register.

\* mu.Lock: from here on nobody else gets the lock, to write or to read ...
Lock(g) ==
  /\ At(g, "lock")
  /\ locker = NoOne
  /\ locker' = g
  /\ Goto(g, "drain")
  /\ UNCHANGED <<alive, registry, readers, call, outcome, seen>>

\* Mutant of Drained: the readers that are there are not waited for.
DrainedAtOnce(g) ==
  /\ At(g, "drain")
  /\ Goto(g, "check")
  /\ UNCHANGED <<alive, registry, lockVars, call, outcome, seen>>

\* ... and it is held once the readers have left.
Drained(g) ==
  /\ At(g, "drain")
  /\ readers = {}
  /\ Goto(g, "check")
  /\ UNCHANGED <<alive, registry, lockVars, call, outcome, seen>>

\* Mutant of Duplicate: mu.Unlock is not deferred, so a panic skips it.
DuplicateKeepsLock(g) ==
  /\ At(g, "check")
  /\ Entry(g) # NoOne
  /\ Return(g)
  /\ UNCHANGED <<alive, registry, lockVars>>

\* The name is taken: panic, with the deferred Unlock still to run.
Duplicate(g) ==
  /\ At(g, "check")
  /\ Entry(g) # NoOne
  /\ Goto(g, "unlock")
  /\ Decide(g, "panic", Restrict(registry, {call[g].name}))
  /\ UNCHANGED <<alive, registry, lockVars, call>>

\* Mutant of Absent: whether the name is taken is not looked at.
AbsentOrNot(g) ==
  /\ At(g, "check")
  /\ Goto(g, "write")
  /\ UNCHANGED <<alive, registry, lockVars, call, outcome, seen>>

Absent(g) ==
  /\ At(g, "check")
  /\ Entry(g) = NoOne
  /\ Goto(g, "write")
  /\ UNCHANGED <<alive, registry, lockVars, call, outcome, seen>>

Write(g) ==
  /\ At(g, "write")
  /\ registry' = [registry EXCEPT ![call[g].name] = g]
  /\ Goto(g, "unlock")
  /\ Decide(g, "ok", Restrict(registry', {call[g].name}))
  /\ UNCHANGED <<alive, lockVars, call>>

Unlock(g) ==
  /\ At(g, "unlock")
  /\ locker' = NoOne
  /\ Return(g)
  /\ UNCHANGED <<alive, registry, readers>>

-----------------------------------------------------------------------------
\* New, Get and All.

\* Mutant of RLock: All does not take the lock.
RLockUnlessAll(g) ==
  /\ At(g, "rlock")
  /\ call[g].op = "All" \/ locker = NoOne
  /\ readers' = readers \cup {g}
  /\ Goto(g, IF call[g].op = "All" THEN "copy" ELSE "read")
  /\ UNCHANGED <<alive, registry, locker, call, outcome, seen>>

RLock(g) ==
  /\ At(g, "rlock")
  /\ locker = NoOne
  /\ readers' = readers \cup {g}
  /\ Goto(g, IF call[g].op = "All" THEN "copy" ELSE "read")
  /\ UNCHANGED <<alive, registry, locker, call, outcome, seen>>

Read(g) ==
  /\ At(g, "read")
  /\ Goto(g, "runlock")
  /\ Decide(g, IF Entry(g) = NoOne THEN "unknown" ELSE "found",
               Restrict(registry, {call[g].name}))
  /\ UNCHANGED <<alive, registry, lockVars, call>>

\* All copies the entries one by one.
Copy(g) ==
  /\ At(g, "copy")
  /\ \E n \in Names \ DOMAIN seen[g] :
       LET copied == [m \in DOMAIN seen[g] \cup {n} |->
                        IF m = n THEN registry[n] ELSE seen[g][m]]
       IN  IF DOMAIN copied = Names
           THEN Goto(g, "runlock") /\ Decide(g, "found", copied)
           ELSE Decide(g, "none", copied) /\ UNCHANGED pc
  /\ UNCHANGED <<alive, registry, lockVars, call>>

\* New calls the factory or, for an unknown name, lists the names there are.
RUnlock(g) ==
  /\ At(g, "runlock")
  /\ readers' = readers \ {g}
  /\ IF call[g].op = "New" /\ outcome[g] = "unknown"
     THEN Goto(g, "list") /\ UNCHANGED <<call, outcome, seen>>
     ELSE Return(g)
  /\ UNCHANGED <<alive, registry, locker>>

\* registeredNames, which takes no lock.
ListNames(g) ==
  /\ At(g, "list")
  /\ Return(g)
  /\ UNCHANGED <<alive, registry, lockVars>>

\* Goroutines that are in the middle of a map access.
Reading == {g \in Goroutines : pc[g] \in {"check", "read", "copy", "list"}}
Writing == {g \in Goroutines : pc[g] = "write"}

\* Go's runtime notices a concurrent map access and stops the process.
Throw ==
  /\ alive
  /\ \E g \in Reading, w \in Writing : g # w
  /\ alive' = FALSE
  /\ UNCHANGED <<registry, lockVars, pc, call, outcome, seen>>

\* The steps of a call that its goroutine takes on its own.
Step(g) ==
  \/ Drained(g)
  \/ Duplicate(g)
  \/ Absent(g)
  \/ Write(g)
  \/ Unlock(g)
  \/ Read(g)
  \/ Copy(g)
  \/ RUnlock(g)
  \/ ListNames(g)

Next ==
  \/ \E g \in Goroutines :
       \/ \E op \in Uses[g], n \in Names \cup {NoOne} : Begin(g, op, n)
       \/ Lock(g)
       \/ RLock(g)
       \/ Step(g)
  \/ Throw

Spec == Init /\ [][Next]_vars

(***************************************************************************)
(* Fairness: goroutines run.  sync.RWMutex starves nobody: Unlock lets the *)
(* readers in that wait, and hands over to the writer that waits longest.  *)
(***************************************************************************)
Fairness ==
  \A g \in Goroutines :
    /\ SF_vars(Lock(g))
    /\ SF_vars(RLock(g))
    /\ WF_vars(Step(g))

FairSpec == Spec /\ Fairness

-----------------------------------------------------------------------------
\* Every variable has its type, and the lock is what it should be: who is at
\* work in Register holds it alone, who reads under it holds it with others.
TypeOK ==
  /\ alive \in BOOLEAN
  /\ registry \in [Names -> Goroutines \cup {NoOne}]
  /\ pc \in [Goroutines -> {"idle", "lock", "drain", "check", "write", "unlock",
                            "rlock", "read", "copy", "runlock", "list"}]
  /\ call \in [Goroutines -> [op : Operations, name : Names \cup {NoOne}] \cup {NoCall}]
  /\ outcome \in [Goroutines -> {"none", "ok", "panic", "found", "unknown"}]
  /\ \A g \in Goroutines : \A n \in DOMAIN seen[g] :
       n \in Names /\ seen[g][n] \in Goroutines \cup {NoOne}
  /\ {g \in Goroutines : pc[g] \in {"drain", "check", "write", "unlock"}}
       = {locker} \ {NoOne}
  /\ readers = {g \in Goroutines : pc[g] \in {"read", "copy", "runlock"}}
  /\ (\E g \in Goroutines : pc[g] \in {"check", "write", "unlock"}) => readers = {}

(***************************************************************************)
(* The only access that can overlap a write is the listing of the names    *)
(* for an error text, after New has released the lock; every other one is  *)
(* under it, also when panics and lookups are mixed (registry.go:26-47,    *)
(* tool.go:75-104).  That one does overlap: "thread-safe" (README.md:115)  *)
(* holds as long as all registration is done by package initialisation.    *)
(***************************************************************************)
RacesOnlyInListing ==
  \A g \in Reading, w \in Writing : g # w => pc[g] = "list"

(***************************************************************************)
(* Both registries implement the atomic map: of several registrations of a *)
(* name exactly the first succeeds, and what New, Get and All return is    *)
(* what the map held at one moment of the call, All's copy included.       *)
(***************************************************************************)
Map == INSTANCE NameMap WITH
  Callers <- Goroutines,
  owner   <- registry,
  status  <- [g \in Goroutines |-> CASE pc[g] = "idle" -> "idle"
                                     [] pc[g] # "idle" /\ outcome[g] = "none" -> "called"
                                     [] pc[g] # "idle" /\ outcome[g] # "none" -> "done"],
  seen    <- [g \in Goroutines |-> IF outcome[g] = "none" THEN Nothing ELSE seen[g]]

ImplementsNameMap == Map!Spec

\* Every call returns, also behind one that panicked, unless the runtime
\* stops the process (the deferred calls at registry.go:28, tool.go:77).
CallsReturn == \A g \in Goroutines : alive /\ pc[g] # "idle" ~> ~alive \/ pc[g] = "idle"
=============================================================================
