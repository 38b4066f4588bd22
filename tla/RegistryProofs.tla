--------------------------- MODULE RegistryProofs ---------------------------
(***************************************************************************)
(* The registries, for any goroutines, names and uses: which accesses of   *)
(* the map can overlap, and that each call takes effect at one moment.     *)
(***************************************************************************)
EXTENDS Registry, TLAPS

Entries == Goroutines \cup {NoOne}
Holding == {"drain", "check", "write", "unlock"}
Labels  == Holding \cup {"idle", "lock", "rlock", "read", "copy", "runlock", "list"}
Outcomes == {"none", "ok", "panic", "found", "unknown"}

SeenIsFunction == seen = [g \in Goroutines |-> seen[g]]

\* What a goroutine was called for, by where it is.
Called(g) ==
  /\ pc[g] = "idle" <=> call[g] = NoCall
  /\ pc[g] \in {"lock"} \cup Holding => call[g].op = "Register"
  /\ pc[g] \in {"rlock", "runlock"} => call[g].op \in {"New", "Get", "All"}
  /\ pc[g] = "read" => call[g].op \in {"New", "Get"}
  /\ pc[g] = "copy" => call[g].op = "All"
  /\ pc[g] = "list" => call[g].op = "New"
  /\ pc[g] # "idle" => (call[g].op = "All" <=> call[g].name = NoOne)

\* The outcome is open until the map access that decides it.
Decided(g) ==
  /\ outcome[g] # "none" <=> pc[g] \in {"unlock", "runlock", "list"}
  /\ pc[g] # "copy" /\ outcome[g] = "none" => seen[g] = Nothing

\* What a goroutine found out under the lock still holds: the name that it
\* will write is free, and what it has copied is what the map holds.
StillTrue(g) ==
  /\ pc[g] = "write" => registry[call[g].name] = NoOne
  /\ pc[g] = "copy" => \A n \in DOMAIN seen[g] : seen[g][n] = registry[n]

RegistryInv ==
  /\ TypeOK
  /\ SeenIsFunction
  /\ \A g \in Goroutines : Called(g) /\ Decided(g) /\ StillTrue(g)

-----------------------------------------------------------------------------
LEMMA Assumptions == NoOne \notin Goroutines \cup Names /\ Uses \in [Goroutines -> SUBSET Operations]
  BY RegistryAssumption

LEMMA EmptyView == DOMAIN Nothing = {}
  BY DEF Nothing

LEMMA InvInit == Init => RegistryInv
<1> SUFFICES ASSUME Init
             PROVE  RegistryInv
  OBVIOUS
<1>1. TypeOK
  <2>1. /\ alive \in BOOLEAN
        /\ registry \in [Names -> Goroutines \cup {NoOne}]
        /\ call \in [Goroutines -> [op : Operations, name : Names \cup {NoOne}] \cup {NoCall}]
        /\ outcome \in [Goroutines -> {"none", "ok", "panic", "found", "unknown"}]
    BY DEF Init
  <2>2. pc \in [Goroutines -> {"idle", "lock", "drain", "check", "write", "unlock",
                               "rlock", "read", "copy", "runlock", "list"}]
    BY DEF Init
  <2>3. \A g \in Goroutines : DOMAIN seen[g] = {}
    BY EmptyView DEF Init
  <2>4. /\ {g \in Goroutines : pc[g] \in {"drain", "check", "write", "unlock"}}
              = {locker} \ {NoOne}
        /\ readers = {g \in Goroutines : pc[g] \in {"read", "copy", "runlock"}}
    BY DEF Init
  <2>5. QED
    BY <2>1, <2>2, <2>3, <2>4 DEF Init, TypeOK
<1>2. SeenIsFunction
  BY DEF Init, SeenIsFunction
<1>3. ASSUME NEW g \in Goroutines
      PROVE  Called(g) /\ Decided(g) /\ StillTrue(g)
  BY DEF Init, Called, Decided, StillTrue, Holding, NoCall
<1>4. QED
  BY <1>1, <1>2, <1>3 DEF RegistryInv

-----------------------------------------------------------------------------
\* The parts of TypeOK: types ...
Types ==
  /\ alive \in BOOLEAN
  /\ registry \in [Names -> Entries]
  /\ pc \in [Goroutines -> Labels]
  /\ call \in [Goroutines -> [op : Operations, name : Names \cup {NoOne}] \cup {NoCall}]
  /\ outcome \in [Goroutines -> Outcomes]
  /\ SeenIsFunction
  /\ \A g \in Goroutines : \A n \in DOMAIN seen[g] : n \in Names /\ seen[g][n] \in Entries

\* ... and who holds the lock.
Exclusion ==
  /\ {g \in Goroutines : pc[g] \in Holding} = {locker} \ {NoOne}
  /\ readers = {g \in Goroutines : pc[g] \in {"read", "copy", "runlock"}}
  /\ (\E g \in Goroutines : pc[g] \in {"check", "write", "unlock"}) => readers = {}

LEMMA PartsOfInv ==
  RegistryInv <=> /\ Types /\ Exclusion
                  /\ \A g \in Goroutines : Called(g) /\ Decided(g) /\ StillTrue(g)
  BY DEF RegistryInv, TypeOK, Types, Exclusion, Labels, Outcomes, Entries, Holding

\* A goroutine of a call, other than All, has a name at hand.
LEMMA HasName ==
  ASSUME Types, NEW g \in Goroutines, Called(g),
         pc[g] \in {"lock", "read"} \cup Holding
  PROVE  call[g].name \in Names
<1>1. call[g] # NoCall /\ call[g].op # "All"
  BY DEF Called, Holding
<1>2. call[g] \in [op : Operations, name : Names \cup {NoOne}]
  BY <1>1 DEF Types
<1>3. QED
  BY <1>1, <1>2 DEF Called, Holding

LEMMA TypesNext ==
  ASSUME Types, \A g \in Goroutines : Called(g), [Next]_vars
  PROVE  Types'
<1> USE DEF Types, At, Goto, lockVars
<1> DEFINE Calls == [op : Operations, name : Names \cup {NoOne}] \cup {NoCall}
<1>1. ASSUME NEW g \in Goroutines, NEW how \in Outcomes, NEW map,
             Decide(g, how, map),
             \A n \in DOMAIN map : n \in Names /\ map[n] \in Entries
      PROVE  /\ outcome' \in [Goroutines -> Outcomes]
             /\ SeenIsFunction'
             /\ \A f \in Goroutines : \A n \in DOMAIN seen'[f] :
                  n \in Names /\ seen'[f][n] \in Entries
  <2>1. outcome' \in [Goroutines -> Outcomes]
    BY <1>1 DEF Decide
  <2>2. \A f \in Goroutines : seen'[f] = IF f = g THEN map ELSE seen[f]
    BY <1>1 DEF Decide, SeenIsFunction
  <2>3. SeenIsFunction'
    BY <1>1 DEF Decide, SeenIsFunction
  <2>4. QED
    BY <1>1, <2>1, <2>2, <2>3
<1>2. ASSUME NEW g \in Goroutines, NEW label \in Labels, Goto(g, label)
      PROVE  pc' \in [Goroutines -> Labels]
  BY <1>2
<1>3. ASSUME NEW g \in Goroutines, Return(g), UNCHANGED <<alive, registry>>
      PROVE  Types'
  <2>1. "none" \in Outcomes /\ "idle" \in Labels /\ Decide(g, "none", Nothing) /\ Goto(g, "idle")
    BY <1>3 DEF Return, Outcomes, Labels
  <2>2. call' \in [Goroutines -> Calls]
    BY <1>3 DEF Return
  <2>3. QED
    BY <1>1, <1>2, <1>3, <2>1, <2>2, EmptyView
<1>4. \A g \in Goroutines : call[g].name \in Names =>
        \A n \in DOMAIN Restrict(registry, {call[g].name}) :
          n \in Names /\ Restrict(registry, {call[g].name})[n] \in Entries
  BY DEF Restrict
<1>5. UNCHANGED <<registry, outcome, seen>> /\ alive' \in BOOLEAN
        /\ pc' \in [Goroutines -> Labels] /\ call' \in [Goroutines -> Calls] => Types'
  BY DEF SeenIsFunction
<1>6. ASSUME NEW g \in Goroutines, NEW op \in Uses[g], NEW n \in Names \cup {NoOne}, Begin(g, op, n)
      PROVE  Types'
  <2>1. op \in Operations
    BY Assumptions
  <2>2. [op |-> op, name |-> n] \in Calls
    BY <2>1
  <2>3. call' \in [Goroutines -> Calls]
    BY <1>6, <2>2 DEF Begin
  <2>4. QED
    BY <1>2, <1>5, <1>6, <2>3 DEF Begin, Labels
<1>7. ASSUME NEW g \in Goroutines, Lock(g)
      PROVE  Types'
  BY <1>2, <1>5, <1>7 DEF Lock, Labels, Holding
<1>8. ASSUME NEW g \in Goroutines, RLock(g)
      PROVE  Types'
  BY <1>2, <1>5, <1>8 DEF RLock, Labels
<1>9. ASSUME NEW g \in Goroutines, Drained(g)
      PROVE  Types'
  BY <1>2, <1>5, <1>9 DEF Drained, Labels, Holding
<1>10. ASSUME NEW g \in Goroutines, Absent(g)
       PROVE  Types'
  BY <1>2, <1>5, <1>10 DEF Absent, Labels, Holding
<1>11. ASSUME NEW g \in Goroutines, Duplicate(g)
       PROVE  Types'
  <2>1. call[g].name \in Names
    BY <1>11, HasName DEF Duplicate, Holding
  <2>2. /\ Goto(g, "unlock") /\ Decide(g, "panic", Restrict(registry, {call[g].name}))
        /\ UNCHANGED <<alive, registry, call>>
    BY <1>11 DEF Duplicate
  <2>3. pc' \in [Goroutines -> Labels]
    BY <1>2, <2>2 DEF Labels, Holding
  <2>4. QED
    BY <1>1, <1>4, <2>1, <2>2, <2>3 DEF Outcomes
<1>12. ASSUME NEW g \in Goroutines, Write(g)
       PROVE  Types'
  <2> DEFINE n == call[g].name
  <2>1. n \in Names
    BY <1>12, HasName DEF Write, Holding
  <2>2. /\ Goto(g, "unlock") /\ Decide(g, "ok", Restrict(registry', {n}))
        /\ registry' = [registry EXCEPT ![n] = g]
        /\ UNCHANGED <<alive, call>>
    BY <1>12 DEF Write
  <2>3. registry' \in [Names -> Entries]
    BY <2>1, <2>2 DEF Entries
  <2>4. \A m \in DOMAIN Restrict(registry', {n}) :
          m \in Names /\ Restrict(registry', {n})[m] \in Entries
    BY <2>1, <2>3 DEF Restrict
  <2>5. pc' \in [Goroutines -> Labels]
    BY <1>2, <2>2 DEF Labels, Holding
  <2>6. "ok" \in Outcomes
    BY DEF Outcomes
  <2>7. /\ outcome' \in [Goroutines -> Outcomes]
        /\ SeenIsFunction'
        /\ \A f \in Goroutines : \A m \in DOMAIN seen'[f] :
             m \in Names /\ seen'[f][m] \in Entries
    BY <1>1, <2>2, <2>4, <2>6
  <2>8. /\ alive' \in BOOLEAN
        /\ call' \in [Goroutines -> Calls]
    BY <2>2
  <2>9. QED
    BY <2>3, <2>5, <2>7, <2>8
<1>13. ASSUME NEW g \in Goroutines, Unlock(g)
       PROVE  Types'
  BY <1>3, <1>13 DEF Unlock
<1>14. ASSUME NEW g \in Goroutines, Read(g)
       PROVE  Types'
  <2>1. call[g].name \in Names
    BY <1>14, HasName DEF Read
  <2>2. PICK how \in {"unknown", "found"} :
          /\ Goto(g, "runlock") /\ Decide(g, how, Restrict(registry, {call[g].name}))
          /\ UNCHANGED <<alive, registry, call>>
    BY <1>14 DEF Read
  <2>3. pc' \in [Goroutines -> Labels]
    BY <1>2, <2>2 DEF Labels
  <2>4. QED
    BY <1>1, <1>4, <2>1, <2>2, <2>3 DEF Outcomes
<1>15. ASSUME NEW g \in Goroutines, Copy(g)
       PROVE  Types'
  <2>1. PICK n \in Names \ DOMAIN seen[g] :
          LET copied == [m \in DOMAIN seen[g] \cup {n} |->
                           IF m = n THEN registry[n] ELSE seen[g][m]]
          IN  IF DOMAIN copied = Names
              THEN Goto(g, "runlock") /\ Decide(g, "found", copied)
              ELSE Decide(g, "none", copied) /\ UNCHANGED pc
    BY <1>15 DEF Copy
  <2> DEFINE copied == [m \in DOMAIN seen[g] \cup {n} |->
                          IF m = n THEN registry[n] ELSE seen[g][m]]
  <2>2. \A m \in DOMAIN copied : m \in Names /\ copied[m] \in Entries
    OBVIOUS
  <2>3. PICK how \in {"found", "none"} : Decide(g, how, copied)
    BY <2>1
  <2>4. pc' \in [Goroutines -> Labels]
    BY <1>2, <2>1 DEF Labels
  <2> HIDE DEF copied
  <2>5. UNCHANGED <<alive, registry, call>>
    BY <1>15 DEF Copy
  <2>6. QED
    BY <1>1, <2>2, <2>3, <2>4, <2>5 DEF Outcomes
<1>16. ASSUME NEW g \in Goroutines, RUnlock(g)
       PROVE  Types'
  <2>1. CASE Goto(g, "list") /\ UNCHANGED <<call, outcome, seen>>
    BY <1>2, <1>5, <1>16, <2>1 DEF RUnlock, Labels
  <2>2. CASE Return(g)
    BY <1>3, <1>16, <2>2 DEF RUnlock
  <2>3. QED
    BY <1>16, <2>1, <2>2 DEF RUnlock
<1>17. ASSUME NEW g \in Goroutines, ListNames(g)
       PROVE  Types'
  BY <1>3, <1>17 DEF ListNames
<1>18. CASE Throw
  BY <1>5, <1>18 DEF Throw
<1>19. CASE UNCHANGED vars
  BY <1>5, <1>19 DEF vars
<1>20. QED
  BY <1>6, <1>7, <1>8, <1>9, <1>10, <1>11, <1>12, <1>13, <1>14, <1>15, <1>16, <1>17,
     <1>18, <1>19 DEF Next, Step

-----------------------------------------------------------------------------
\* The lock excludes whom it should.
LEMMA ExclusionNext == Types /\ Exclusion /\ [Next]_vars => Exclusion'
<1> SUFFICES ASSUME Types, Exclusion, [Next]_vars
             PROVE  Exclusion'
  OBVIOUS
<1> USE Assumptions DEF Types, Exclusion, At, Goto, lockVars, Holding
\* Moving g to a place of the same kind: one of Register under the lock, one
\* of a reader, or one without the lock.
<1>1. ASSUME NEW g \in Goroutines, NEW label \in Labels, Goto(g, label), UNCHANGED lockVars,
             pc[g] \in Holding <=> label \in Holding,
             pc[g] \in {"read", "copy", "runlock"} <=> label \in {"read", "copy", "runlock"},
             label \in {"check", "write", "unlock"} =>
               pc[g] \in {"check", "write", "unlock"} \/ readers = {}
      PROVE  Exclusion'
  <2>1. \A f \in Goroutines : pc'[f] = IF f = g THEN label ELSE pc[f]
    BY <1>1
  <2>2. \A f \in Goroutines : pc'[f] \in Holding <=> pc[f] \in Holding
    BY <1>1, <2>1
  <2>3. \A f \in Goroutines :
          pc'[f] \in {"read", "copy", "runlock"} <=> pc[f] \in {"read", "copy", "runlock"}
    BY <1>1, <2>1
  <2>4. (\E f \in Goroutines : pc'[f] \in {"check", "write", "unlock"}) => readers = {}
    BY <1>1, <2>1
  <2> HIDE DEF Holding
  <2>5. {f \in Goroutines : pc'[f] \in Holding} = {f \in Goroutines : pc[f] \in Holding}
    BY <2>2
  <2>6. QED
    BY <1>1, <2>3, <2>4, <2>5
<1>2. ASSUME NEW g \in Goroutines, NEW op \in Uses[g], NEW n \in Names \cup {NoOne}, Begin(g, op, n)
      PROVE  Exclusion'
  BY <1>1, <1>2 DEF Begin, Labels
<1>3. ASSUME NEW g \in Goroutines, Lock(g)
      PROVE  Exclusion'
  <2>1. /\ pc[g] = "lock" /\ locker = NoOne /\ locker' = g /\ UNCHANGED readers
        /\ \A f \in Goroutines : pc'[f] = IF f = g THEN "drain" ELSE pc[f]
    BY <1>3 DEF Lock
  <2>2. \A f \in Goroutines : pc[f] \notin Holding
    BY <2>1
  <2>3. QED
    BY <2>1, <2>2
<1>4. ASSUME NEW g \in Goroutines, RLock(g)
      PROVE  Exclusion'
  <2>1. PICK label \in {"copy", "read"} :
          /\ locker = NoOne /\ pc[g] = "rlock"
          /\ readers' = readers \cup {g} /\ UNCHANGED locker
          /\ \A f \in Goroutines : pc'[f] = IF f = g THEN label ELSE pc[f]
    BY <1>4 DEF RLock
  <2>2. \A f \in Goroutines : pc[f] \notin Holding
    BY <2>1
  <2>3. QED
    BY <2>1, <2>2
<1>5. ASSUME NEW g \in Goroutines, Drained(g) \/ Absent(g) \/ Duplicate(g) \/ Write(g)
      PROVE  Exclusion'
  BY <1>1, <1>5 DEF Drained, Absent, Duplicate, Write, Labels
<1>6. ASSUME NEW g \in Goroutines, Unlock(g)
      PROVE  Exclusion'
  <2>1. /\ pc[g] = "unlock" /\ locker' = NoOne /\ UNCHANGED readers
        /\ \A f \in Goroutines : pc'[f] = IF f = g THEN "idle" ELSE pc[f]
    BY <1>6 DEF Unlock, Return
  <2>2. \A f \in Goroutines : pc[f] \in Holding => f = g
    BY <2>1
  <2>3. QED
    BY <2>1, <2>2
<1>7. ASSUME NEW g \in Goroutines, Read(g)
      PROVE  Exclusion'
  BY <1>1, <1>7 DEF Read, Labels
<1>8. ASSUME NEW g \in Goroutines, Copy(g)
      PROVE  Exclusion'
  <2>1. CASE Goto(g, "runlock")
    BY <1>1, <1>8, <2>1 DEF Copy, Labels
  <2>2. CASE UNCHANGED pc
    BY <1>8, <2>2 DEF Copy
  <2>3. QED
    BY <1>8, <2>1, <2>2 DEF Copy
<1>9. ASSUME NEW g \in Goroutines, RUnlock(g)
      PROVE  Exclusion'
  <2>1. PICK label \in {"list", "idle"} :
          /\ pc[g] = "runlock" /\ readers' = readers \ {g} /\ UNCHANGED locker
          /\ \A f \in Goroutines : pc'[f] = IF f = g THEN label ELSE pc[f]
    BY <1>9 DEF RUnlock, Return
  <2>2. QED
    BY <2>1
<1>10. ASSUME NEW g \in Goroutines, ListNames(g)
       PROVE  Exclusion'
  BY <1>1, <1>10 DEF ListNames, Return, Labels
<1>11. CASE Throw \/ UNCHANGED vars
  BY <1>11 DEF Throw, vars
<1>12. QED
  BY <1>2, <1>3, <1>4, <1>5, <1>6, <1>7, <1>8, <1>9, <1>10, <1>11 DEF Next, Step

\* At most one goroutine is at work in Register, and with readers none writes.
LEMMA Alone ==
  ASSUME Exclusion, NEW f \in Goroutines, NEW g \in Goroutines, pc[g] \in Holding
  PROVE  /\ pc[f] \in Holding => f = g
         /\ pc[g] \in {"check", "write", "unlock"} => pc[f] \notin {"read", "copy", "runlock"}
<1>1. g = locker
  BY DEF Exclusion
<1>2. pc[f] \in Holding => f = locker
  BY DEF Exclusion
<1>3. pc[g] \in {"check", "write", "unlock"} => pc[f] \notin {"read", "copy", "runlock"}
  BY DEF Exclusion
<1>4. QED
  BY <1>1, <1>2, <1>3

-----------------------------------------------------------------------------
CallInv(g) == Called(g) /\ Decided(g) /\ StillTrue(g)

\* A step of a goroutine's call, its beginning included.
CallStep(g) ==
  \/ \E op \in Uses[g], n \in Names \cup {NoOne} : Begin(g, op, n)
  \/ Lock(g)
  \/ RLock(g)
  \/ Step(g)

\* A goroutine's step leaves the others where they are; it changes the map
\* only while nobody else relies on it.
LEMMA OthersKeep ==
  ASSUME Types, Exclusion, NEW g \in Goroutines, CallStep(g), Called(g),
         NEW f \in Goroutines, f # g, CallInv(f)
  PROVE  CallInv(f)'
<1> USE DEF Types, At, Goto, Decide, Return, lockVars
<1>1. pc'[f] = pc[f] /\ call'[f] = call[f] /\ outcome'[f] = outcome[f] /\ seen'[f] = seen[f]
  <2>1. pc' = pc \/ \E label : pc' = [pc EXCEPT ![g] = label]
    BY DEF CallStep, Step, Begin, Lock, RLock, Drained, Duplicate, Absent, Write, Unlock,
       Read, Copy, RUnlock, ListNames
  <2>2. call' = call \/ \E new : call' = [call EXCEPT ![g] = new]
    BY DEF CallStep, Step, Begin, Lock, RLock, Drained, Duplicate, Absent, Write, Unlock,
       Read, Copy, RUnlock, ListNames
  <2>3. \/ UNCHANGED <<outcome, seen>>
        \/ \E how, map : outcome' = [outcome EXCEPT ![g] = how] /\ seen' = [seen EXCEPT ![g] = map]
    BY DEF CallStep, Step, Begin, Lock, RLock, Drained, Duplicate, Absent, Write, Unlock,
       Read, Copy, RUnlock, ListNames
  <2>4. QED
    BY <2>1, <2>2, <2>3 DEF SeenIsFunction
<1>2. CASE UNCHANGED registry
  BY <1>1, <1>2 DEF CallInv, Called, Decided, StillTrue
<1>3. CASE Write(g)
  <2>1. pc[g] = "write"
    BY <1>3 DEF Write
  <2>2. pc[f] # "write" /\ pc[f] # "copy"
    BY <2>1, Alone DEF Holding
  <2>3. QED
    BY <1>1, <2>2 DEF CallInv, Called, Decided, StillTrue
<1>4. QED
  BY <1>2, <1>3 DEF CallStep, Step, Begin, Lock, RLock, Drained, Duplicate, Absent, Unlock,
     Read, Copy, RUnlock, ListNames

LEMMA OwnKeeps ==
  ASSUME Types, Exclusion, NEW g \in Goroutines, CallInv(g), CallStep(g)
  PROVE  CallInv(g)'
<1> USE DEF Types, At, Goto, lockVars, CallInv, Holding
<1>1. ASSUME NEW how, NEW map, Decide(g, how, map)
      PROVE  outcome'[g] = how /\ seen'[g] = map
  BY <1>1 DEF Decide, SeenIsFunction
<1>2. ASSUME Return(g)
      PROVE  CallInv(g)'
  <2>1. pc'[g] = "idle" /\ call'[g] = NoCall /\ outcome'[g] = "none" /\ seen'[g] = Nothing
    BY <1>1, <1>2 DEF Return
  <2>2. QED
    BY <2>1 DEF Called, Decided, StillTrue
<1>3. ASSUME NEW op \in Uses[g], NEW n \in Names \cup {NoOne}, Begin(g, op, n)
      PROVE  CallInv(g)'
  <2>1. op \in Operations
    BY Assumptions
  <2>2. /\ pc[g] = "idle" /\ pc'[g] = IF op = "Register" THEN "lock" ELSE "rlock"
        /\ call'[g] = [op |-> op, name |-> n]
        /\ op = "All" <=> n = NoOne
        /\ UNCHANGED <<registry, outcome, seen>>
    BY <1>3 DEF Begin
  <2>3. call'[g].op = op /\ call'[g].name = n /\ call'[g] # NoCall
    BY <2>1, <2>2 DEF NoCall, Operations
  <2>4. Called(g)'
    BY <2>1, <2>2, <2>3 DEF Called, Operations
  <2>5. Decided(g)' /\ StillTrue(g)'
    BY <2>2 DEF Decided, StillTrue
  <2>6. QED
    BY <2>4, <2>5
<1>4. CASE Lock(g) \/ Drained(g) \/ Absent(g)
  BY <1>4 DEF Lock, Drained, Absent, Called, Decided, StillTrue, Entry
<1>5. CASE Duplicate(g) \/ Write(g) \/ Read(g)
  <2>1. PICK how, map : how \in {"panic", "ok", "found", "unknown"} /\ Decide(g, how, map)
    BY <1>5 DEF Duplicate, Write, Read
  <2>2. outcome'[g] # "none"
    BY <1>1, <2>1
  <2>3. /\ \/ pc[g] \in {"check", "write"} /\ pc'[g] = "unlock"
           \/ pc[g] = "read" /\ pc'[g] = "runlock"
        /\ call'[g] = call[g]
    BY <1>5 DEF Duplicate, Write, Read
  <2>4. QED
    BY <2>2, <2>3 DEF Called, Decided, StillTrue
<1>6. CASE Unlock(g) \/ ListNames(g)
  BY <1>2, <1>6 DEF Unlock, ListNames
<1>7. CASE RLock(g)
  <2>1. /\ pc[g] = "rlock" /\ pc'[g] = IF call[g].op = "All" THEN "copy" ELSE "read"
        /\ UNCHANGED <<registry, call, outcome, seen>>
    BY <1>7 DEF RLock
  <2>2. seen[g] = Nothing
    BY <2>1 DEF Decided
  <2>3. QED
    BY <2>1, <2>2, EmptyView DEF Called, Decided, StillTrue
<1>8. CASE Copy(g)
  <2>1. PICK n \in Names \ DOMAIN seen[g] :
          LET copied == [m \in DOMAIN seen[g] \cup {n} |->
                           IF m = n THEN registry[n] ELSE seen[g][m]]
          IN  IF DOMAIN copied = Names
              THEN Goto(g, "runlock") /\ Decide(g, "found", copied)
              ELSE Decide(g, "none", copied) /\ UNCHANGED pc
    BY <1>8 DEF Copy
  <2> DEFINE copied == [m \in DOMAIN seen[g] \cup {n} |->
                          IF m = n THEN registry[n] ELSE seen[g][m]]
  <2>2. pc[g] = "copy" /\ UNCHANGED <<registry, call>>
    BY <1>8 DEF Copy
  <2>3. \A m \in DOMAIN copied : copied[m] = registry[m]
    BY <2>2 DEF StillTrue
  <2>4. \/ pc'[g] = "runlock" /\ Decide(g, "found", copied)
        \/ pc'[g] = "copy" /\ Decide(g, "none", copied)
    BY <2>1, <2>2
  <2> HIDE DEF copied
  <2>5. \/ pc'[g] = "runlock" /\ outcome'[g] = "found" /\ seen'[g] = copied
        \/ pc'[g] = "copy" /\ outcome'[g] = "none" /\ seen'[g] = copied
    BY <1>1, <2>4
  <2>6. QED
    BY <2>2, <2>3, <2>5 DEF Called, Decided, StillTrue
<1>9. CASE RUnlock(g)
  <2>1. CASE Return(g)
    BY <1>2, <2>1
  <2>2. CASE ~Return(g)
    BY <1>9, <2>2 DEF RUnlock, Called, Decided, StillTrue
  <2>3. QED
    BY <2>1, <2>2
<1>10. QED
  BY <1>3, <1>4, <1>5, <1>6, <1>7, <1>8, <1>9 DEF CallStep, Step

-----------------------------------------------------------------------------
LEMMA InvNext == RegistryInv /\ [Next]_vars => RegistryInv'
<1> SUFFICES ASSUME RegistryInv, [Next]_vars
             PROVE  RegistryInv'
  OBVIOUS
<1>1. Types /\ Exclusion /\ \A g \in Goroutines : CallInv(g)
  BY PartsOfInv DEF CallInv
<1>2. Types' /\ Exclusion'
  BY <1>1, TypesNext, ExclusionNext DEF CallInv
<1>3. \A f \in Goroutines : CallInv(f)'
  <2>1. ASSUME NEW g \in Goroutines, CallStep(g), NEW f \in Goroutines
        PROVE  CallInv(f)'
    <3>1. CASE f = g
      BY <1>1, <2>1, <3>1, OwnKeeps
    <3>2. CASE f # g
      BY <1>1, <2>1, <3>2, OthersKeep DEF CallInv
    <3>3. QED
      BY <3>1, <3>2
  <2>2. CASE Throw \/ UNCHANGED vars
    BY <1>1, <2>2 DEF Throw, vars, lockVars, CallInv, Called, Decided, StillTrue
  <2>3. QED
    BY <2>1, <2>2 DEF Next, CallStep
<1>4. QED
  <2>1. \A g \in Goroutines : Called(g)' /\ Decided(g)' /\ StillTrue(g)'
    BY <1>3 DEF CallInv
  <2>2. QED
    BY <1>2, <2>1 DEF RegistryInv, TypeOK, Types, Exclusion, Labels, Outcomes, Entries, Holding

LEMMA InvAlways == Spec => []RegistryInv
  BY InvInit, InvNext, PTL DEF Spec

\* Every variable has its type, Register holds its lock alone, and lookups hold
\* theirs with other lookups only.
THEOREM TypeCorrect == Spec => []TypeOK
<1>1. RegistryInv => TypeOK
  BY DEF RegistryInv
<1>2. QED
  BY InvAlways, <1>1, PTL

\* No access of the map overlaps a write, but for the listing of the names
\* that New does after it has released the lock.
THEOREM OnlyListingRaces == Spec => []RacesOnlyInListing
<1>1. RegistryInv => RacesOnlyInListing
  <2> SUFFICES ASSUME RegistryInv, NEW g \in Reading, NEW w \in Writing, g # w
               PROVE  pc[g] = "list"
    BY DEF RacesOnlyInListing
  <2>1. Exclusion
    BY PartsOfInv
  <2>2. /\ g \in Goroutines /\ pc[g] \in {"check", "read", "copy", "list"}
        /\ w \in Goroutines /\ pc[w] = "write"
    BY DEF Reading, Writing
  <2>3. QED
    BY <2>1, <2>2, Alone DEF Holding
<1>2. QED
  BY InvAlways, <1>1, PTL

-----------------------------------------------------------------------------
\* The refinement.  What the atomic map's variables are here:
Status == [g \in Goroutines |-> CASE pc[g] = "idle" -> "idle"
                                  [] pc[g] # "idle" /\ outcome[g] = "none" -> "called"
                                  [] pc[g] # "idle" /\ outcome[g] # "none" -> "done"]
Seen   == [g \in Goroutines |-> IF outcome[g] = "none" THEN Nothing ELSE seen[g]]

LEMMA StatusCases ==
  ASSUME NEW g \in Goroutines
  PROVE  /\ pc[g] = "idle" => Status[g] = "idle"
         /\ pc[g] # "idle" /\ outcome[g] = "none" => Status[g] = "called"
         /\ pc[g] # "idle" /\ outcome[g] # "none" => Status[g] = "done"
  BY DEF Status

\* A step of g changes them for g only, to what g's new place says.
LEMMA AbstractChange ==
  ASSUME Types, NEW g \in Goroutines,
         \A f \in Goroutines \ {g} :
           pc'[f] = pc[f] /\ outcome'[f] = outcome[f] /\ seen'[f] = seen[f]
  PROVE  /\ \A new : Status'[g] = new => Status' = [Status EXCEPT ![g] = new]
         /\ \A new : Seen'[g] = new => Seen' = [Seen EXCEPT ![g] = new]
<1>1. \A f \in Goroutines \ {g} : Status'[f] = Status[f] /\ Seen'[f] = Seen[f]
  BY DEF Status, Seen
<1>2. /\ Status = [f \in Goroutines |-> Status[f]] /\ Status' = [f \in Goroutines |-> Status'[f]]
      /\ Seen = [f \in Goroutines |-> Seen[f]] /\ Seen' = [f \in Goroutines |-> Seen'[f]]
  BY DEF Status, Seen
<1>3. ASSUME NEW new, Status'[g] = new
      PROVE  Status' = [Status EXCEPT ![g] = new]
  <2>1. [Status EXCEPT ![g] = new] = [f \in Goroutines |-> Status'[f]]
    BY <1>1, <1>2, <1>3
  <2>2. QED
    BY <1>2, <2>1
<1>4. ASSUME NEW new, Seen'[g] = new
      PROVE  Seen' = [Seen EXCEPT ![g] = new]
  <2>1. [Seen EXCEPT ![g] = new] = [f \in Goroutines |-> Seen'[f]]
    BY <1>1, <1>2, <1>4
  <2>2. QED
    BY <1>2, <2>1
<1>5. QED
  BY <1>3, <1>4

LEMMA MapInit == Init => Map!Init
  BY DEF Init, Map!Init, Map!NoCall, NoCall, Map!Nothing, Nothing

\* The step of the atomic map in which a call takes effect.
Effect(g, how, view) ==
  /\ Status[g] = "called"
  /\ Status' = [Status EXCEPT ![g] = "done"]
  /\ outcome' = [outcome EXCEPT ![g] = how]
  /\ Seen' = [Seen EXCEPT ![g] = view]
  /\ UNCHANGED call

LEMMA EffectIsDone ==
  ASSUME NEW g, NEW how, NEW view, Effect(g, how, view),
         view = Map!View(registry', g)
  PROVE  Map!Done(g, how)
  BY DEF Effect, Map!Done, Status, Seen

\* An access of the map that decides the outcome of g's call is its effect.
LEMMA DecidingStep ==
  ASSUME Types, NEW g \in Goroutines, CallInv(g), NEW how, how # "none", NEW map, NEW label,
         Decide(g, how, map), Goto(g, label), UNCHANGED call,
         pc[g] \in {"check", "write", "read", "copy"}, label # "idle"
  PROVE  Effect(g, how, map)
<1>1. \A f \in Goroutines \ {g} :
        pc'[f] = pc[f] /\ outcome'[f] = outcome[f] /\ seen'[f] = seen[f]
  BY DEF Types, Decide, Goto, SeenIsFunction
<1>2. pc'[g] = label /\ outcome'[g] = how /\ seen'[g] = map
  BY DEF Types, Decide, Goto, SeenIsFunction
<1>3. outcome[g] = "none"
  BY DEF CallInv, Decided
<1>4. Status[g] = "called"
  BY <1>3, StatusCases
<1>5. Status'[g] = "done" /\ Seen'[g] = map
  BY <1>2 DEF Status, Seen
<1>6. QED
  BY <1>1, <1>4, <1>5, AbstractChange DEF Effect, Decide

\* The return of a call is one of the atomic map.
LEMMA ReturningStep ==
  ASSUME Types, NEW g \in Goroutines, CallInv(g), Return(g), UNCHANGED registry,
         pc[g] \in {"unlock", "runlock", "list"}
  PROVE  Map!Return(g)
<1>1. \A f \in Goroutines \ {g} :
        pc'[f] = pc[f] /\ outcome'[f] = outcome[f] /\ seen'[f] = seen[f]
  BY DEF Types, Return, Decide, Goto, SeenIsFunction
<1>2. pc'[g] = "idle" /\ outcome'[g] = "none"
  BY DEF Types, Return, Decide, Goto
<1>3. Status'[g] = "idle" /\ Seen'[g] = Nothing
  BY <1>2 DEF Status, Seen
<1>4. Status[g] = "done"
  BY StatusCases DEF CallInv, Decided
<1>5. Status' = [Status EXCEPT ![g] = "idle"] /\ Seen' = [Seen EXCEPT ![g] = Nothing]
  BY <1>1, <1>3, AbstractChange
<1>6. /\ call' = [call EXCEPT ![g] = NoCall]
      /\ outcome' = [outcome EXCEPT ![g] = "none"]
  BY DEF Return, Decide
<1>7. QED
  BY <1>4, <1>5, <1>6 DEF Map!Return, Map!NoCall, NoCall, Map!Nothing, Nothing, Status, Seen

\* A step between places where no outcome is decided does not show.
LEMMA SilentStep ==
  ASSUME Types, NEW g \in Goroutines, UNCHANGED <<registry, call, outcome>>,
         \A f \in Goroutines : pc'[f] = "idle" <=> pc[f] = "idle",
         \A f \in Goroutines : outcome[f] # "none" => seen'[f] = seen[f]
  PROVE  UNCHANGED Map!mapVars
<1>1. Status' = Status
  BY DEF Status
<1>2. Seen' = Seen
  BY DEF Seen
<1>3. QED
  BY <1>1, <1>2 DEF Map!mapVars, Status, Seen

LEMMA MapStep ==
  ASSUME RegistryInv, NEW g \in Goroutines, CallStep(g)
  PROVE  Map!Next \/ UNCHANGED Map!mapVars
<1> USE DEF At, lockVars
<1>1. Types /\ Exclusion /\ CallInv(g)
  BY PartsOfInv DEF CallInv
<1>2. ASSUME NEW op \in Uses[g], NEW n \in Names \cup {NoOne}, Begin(g, op, n)
      PROVE  Map!Next
  <2>1. op \in {"Register", "New", "Get", "All"}
    BY Assumptions DEF Operations
  <2>2. /\ pc[g] = "idle" /\ pc'[g] # "idle"
        /\ \A f \in Goroutines \ {g} : pc'[f] = pc[f]
        /\ call' = [call EXCEPT ![g] = [op |-> op, name |-> n]]
        /\ UNCHANGED <<registry, outcome, seen>>
    BY <1>1, <1>2 DEF Begin, Goto, Types
  <2>3. outcome[g] = "none" /\ outcome'[g] = "none"
    BY <1>1, <2>2 DEF CallInv, Decided
  <2>4. Status[g] = "idle" /\ Status'[g] = "called"
    BY <2>2, <2>3 DEF Status
  <2>5. Status' = [Status EXCEPT ![g] = "called"]
    BY <1>1, <2>2, <2>4, AbstractChange
  <2>6. Seen' = Seen
    BY <2>2 DEF Seen
  <2>7. Map!Begin(g, op, n)
    BY <2>2, <2>4, <2>5, <2>6 DEF Map!Begin, Status, Seen
  <2>8. QED
    BY <2>1, <2>7 DEF Map!Next
<1>3. CASE Lock(g) \/ RLock(g) \/ Drained(g) \/ Absent(g)
  BY <1>1, <1>3, SilentStep DEF Lock, RLock, Drained, Absent, Goto, Types
<1>4. CASE Duplicate(g)
  <2>1. /\ pc[g] = "check" /\ registry[call[g].name] # NoOne /\ call[g].op = "Register"
        /\ UNCHANGED <<registry, call>>
    BY <1>1, <1>4 DEF Duplicate, Entry, CallInv, Called, Holding
  <2>2. Effect(g, "panic", Restrict(registry, {call[g].name}))
    BY <1>1, <1>4, <2>1, DecidingStep DEF Duplicate
  <2>3. Restrict(registry, {call[g].name}) = Map!View(registry', g)
    BY <2>1 DEF Map!View, Map!Restrict, Restrict
  <2>4. Map!Refuse(g)
    BY <2>1, <2>2, <2>3, EffectIsDone DEF Map!Refuse
  <2>5. QED
    BY <2>4 DEF Map!Next
<1>5. CASE Write(g)
  <2>1. /\ pc[g] = "write" /\ registry[call[g].name] = NoOne /\ call[g].op = "Register"
        /\ registry' = [registry EXCEPT ![call[g].name] = g]
        /\ UNCHANGED call
    BY <1>1, <1>5 DEF Write, CallInv, Called, StillTrue, Holding
  <2>2. Effect(g, "ok", Restrict(registry', {call[g].name}))
    BY <1>1, <1>5, <2>1, DecidingStep DEF Write
  <2>3. Restrict(registry', {call[g].name}) = Map!View(registry', g)
    BY <2>1 DEF Map!View, Map!Restrict, Restrict
  <2>4. Map!Claim(g)
    BY <2>1, <2>2, <2>3, EffectIsDone DEF Map!Claim
  <2>5. QED
    BY <2>4 DEF Map!Next
<1>6. CASE Read(g)
  <2> PICK how \in {"unknown", "found"} : how = IF Entry(g) = NoOne THEN "unknown" ELSE "found"
    OBVIOUS
  <2>1. /\ pc[g] = "read" /\ call[g].op \in {"New", "Get"}
        /\ UNCHANGED <<registry, call>>
    BY <1>1, <1>6 DEF Read, CallInv, Called
  <2>2. Effect(g, how, Restrict(registry, {call[g].name}))
    BY <1>1, <1>6, <2>1, DecidingStep DEF Read
  <2>3. Restrict(registry, {call[g].name}) = Map!View(registry', g)
    BY <2>1 DEF Map!View, Map!Restrict, Restrict
  <2>4. Map!Done(g, how)
    BY <2>2, <2>3, EffectIsDone
  <2>5. how = IF registry[call[g].name] = NoOne THEN "unknown" ELSE "found"
    BY DEF Entry
  <2>6. Map!Look(g)
    BY <2>1, <2>4, <2>5 DEF Map!Look, Map!Done
  <2>7. QED
    BY <2>6 DEF Map!Next
<1>7. CASE Copy(g)
  <2>1. PICK n \in Names \ DOMAIN seen[g] :
          LET copied == [m \in DOMAIN seen[g] \cup {n} |->
                           IF m = n THEN registry[n] ELSE seen[g][m]]
          IN  IF DOMAIN copied = Names
              THEN Goto(g, "runlock") /\ Decide(g, "found", copied)
              ELSE Decide(g, "none", copied) /\ UNCHANGED pc
    BY <1>7 DEF Copy
  <2> DEFINE copied == [m \in DOMAIN seen[g] \cup {n} |->
                          IF m = n THEN registry[n] ELSE seen[g][m]]
  <2>2. /\ pc[g] = "copy" /\ call[g].op = "All" /\ outcome[g] = "none"
        /\ UNCHANGED <<registry, call>>
    BY <1>1, <1>7 DEF Copy, CallInv, Called, Decided
  <2>3. CASE DOMAIN copied = Names
    <3>1. Goto(g, "runlock") /\ Decide(g, "found", copied)
      BY <2>1, <2>3
    <3>2. copied = registry
      <4>1. \A m \in Names : copied[m] = registry[m]
        BY <1>1, <2>2, <2>3 DEF CallInv, StillTrue
      <4>2. copied = [m \in Names |-> copied[m]] /\ registry = [m \in Names |-> registry[m]]
        BY <1>1, <2>3 DEF Types
      <4> HIDE DEF copied
      <4>3. QED
        BY <4>1, <4>2
    <3> HIDE DEF copied
    <3>3. Effect(g, "found", copied)
      BY <1>1, <2>2, <3>1, DecidingStep
    <3>4. copied = Map!View(registry', g)
      BY <2>2, <3>2 DEF Map!View
    <3>5. Map!LookAtAll(g)
      BY <2>2, <3>3, <3>4, EffectIsDone DEF Map!LookAtAll
    <3>6. QED
      BY <3>5 DEF Map!Next
  <2>4. CASE DOMAIN copied # Names
    <3>1. Decide(g, "none", copied) /\ UNCHANGED pc
      BY <2>1, <2>4
    <3> HIDE DEF copied
    <3>2. outcome' = outcome
      BY <1>1, <2>2, <3>1 DEF Types, Decide
    <3>3. \A f \in Goroutines : outcome[f] # "none" => seen'[f] = seen[f]
      BY <1>1, <2>2, <3>1 DEF Types, SeenIsFunction, Decide
    <3>4. QED
      BY <1>1, <2>2, <3>1, <3>2, <3>3, SilentStep
  <2>5. QED
    BY <2>3, <2>4
<1>8. CASE Unlock(g) \/ ListNames(g)
  <2>1. Map!Return(g)
    BY <1>1, <1>8, ReturningStep DEF Unlock, ListNames
  <2>2. QED
    BY <2>1 DEF Map!Next
<1>9. CASE RUnlock(g)
  <2>1. CASE Return(g)
    <3>1. Map!Return(g)
      BY <1>1, <1>9, <2>1, ReturningStep DEF RUnlock
    <3>2. QED
      BY <3>1 DEF Map!Next
  <2>2. CASE ~Return(g)
    BY <1>1, <1>9, <2>2, SilentStep DEF RUnlock, Goto, Types
  <2>3. QED
    BY <2>1, <2>2
<1>10. QED
  BY <1>2, <1>3, <1>4, <1>5, <1>6, <1>7, <1>8, <1>9 DEF CallStep, Step

LEMMA MapNext == RegistryInv /\ [Next]_vars => [Map!Next]_(Map!mapVars)
<1> SUFFICES ASSUME RegistryInv, [Next]_vars
             PROVE  Map!Next \/ UNCHANGED Map!mapVars
  OBVIOUS
<1>1. CASE \E g \in Goroutines : CallStep(g)
  BY <1>1, MapStep
<1>2. CASE Throw \/ UNCHANGED vars
  <2>1. UNCHANGED <<registry, call, outcome>> /\ UNCHANGED <<pc, seen>>
    BY <1>2 DEF Throw, vars, lockVars
  <2>2. UNCHANGED <<Status, Seen>>
    BY <2>1 DEF Status, Seen
  <2>3. QED
    BY <2>1, <2>2 DEF Map!mapVars, Status, Seen
<1>3. QED
  BY <1>1, <1>2 DEF Next, CallStep

\* Both registries implement the atomic map: each call takes effect at one
\* moment between its beginning and its return.
THEOREM RegistryImplementsNameMap == Spec => ImplementsNameMap
<1>1. Init => Map!Init
  BY MapInit
<1>2. RegistryInv /\ [Next]_vars => [Map!Next]_(Map!mapVars)
  BY MapNext
<1>3. QED
  BY <1>1, <1>2, InvAlways, PTL DEF Spec, ImplementsNameMap, Map!Spec
=============================================================================
