--------------------------- MODULE McpServerProofs ---------------------------
(***************************************************************************)
(* Connections, hypothetical indexes and costs of the tools that look at a *)
(* live database, for any set of concurrent calls, finite or not, any      *)
(* databases and any limits; and the mcp command with these calls as its   *)
(* handlers: its main goroutine and their use of the pools are as Commands *)
(* has them, and so what is shown of the two holds of both together.       *)
(***************************************************************************)
EXTENDS McpServer, FiniteSetTheorems, TLAPS

Labels == {"idle", "lookup", "lookingUp", "connect", "acquire", "rows",
           "before", "create", "after", "reset", "release", "closePool"}
Results == {"none", "error", "failed", "report", "evaluated"}
BackendStates == {"none", "held", "returned", "dead"}
Costs == [before : {"none", "plain", "withIndex"}, after : {"none", "plain", "withIndex"}]

\* The types in TypeOK ...
Types ==
  /\ pc \in [Handlers -> Labels]
  /\ tool \in [Handlers -> ToolNames]
  /\ db \in [Handlers -> Databases]
  /\ statement \in [Handlers -> {"none", "CREATE INDEX", "another"}]
  /\ cancelled \in [Handlers -> BOOLEAN]
  /\ result \in [Handlers -> Results]
  /\ costs \in [Handlers -> Costs]
  /\ enabled \subseteq Databases
  /\ configConns \subseteq Handlers
  /\ backend \in [Handlers -> BackendStates]
  /\ index \in [Handlers -> BOOLEAN]
  /\ reachable \in [Handlers -> BOOLEAN]

\* ... and the limits.  That the sets are finite, which their cardinalities
\* need, is part of the induction: nothing is assumed of Handlers.
WithinLimits ==
  /\ IsFiniteSet(configConns)
  /\ Cardinality(configConns) <= MaxConfigConns
  /\ \A d \in Databases :
       IsFiniteSet(Backends(d)) /\ Cardinality(Backends(d)) <= MaxBackends

-----------------------------------------------------------------------------
\* What a call holds, by where it is.
Looking  == {"lookup", "lookingUp", "connect", "acquire"}
Working  == {"rows", "before", "create", "after", "reset", "release"}
Indexing == {"after", "reset", "release", "closePool"}

Holds(h) ==
  /\ h \in configConns => pc[h] = "lookingUp"
  /\ pc[h] \in Looking \cup {"idle"} => backend[h] = "none"
  /\ pc[h] \in Working => backend[h] \in {"held", "dead"}
  /\ pc[h] = "closePool" => backend[h] \in {"none", "returned"}

\* The index lives as long as its backend, and is there for the second plan if
\* the statement made one.
Indexed(h) ==
  /\ index[h] => backend[h] \in {"held", "returned"} /\ pc[h] \in Indexing
  /\ pc[h] = "after" /\ backend[h] = "held" => (index[h] <=> statement[h] = "CREATE INDEX")

\* A call has a result from the end of its work on, and its plans so far.
Explained(h) ==
  /\ pc[h] \in Looking \cup {"rows", "before", "create", "after"} => result[h] = "none"
  /\ pc[h] \in {"create", "after"} => costs[h].before = "plain"
  /\ costs[h].before # "withIndex"
  /\ result[h] = "evaluated" =>
       costs[h] = [before |-> "plain",
                   after  |-> IF statement[h] = "CREATE INDEX" THEN "withIndex" ELSE "plain"]

\* A source that a call finds enabled, or found so, was reachable for it.
Reachable(h) ==
  /\ pc[h] # "idle" /\ db[h] \in enabled => reachable[h]
  /\ pc[h] \notin {"idle", "lookup", "lookingUp"} => reachable[h]

CallInv(h) == Holds(h) /\ Indexed(h) /\ Explained(h) /\ Reachable(h)

LiveToolsInv == Types /\ WithinLimits /\ \A h \in Handlers : CallInv(h)

-----------------------------------------------------------------------------
LEMMA Assumptions ==
  MaxConfigConns \in Nat \ {0} /\ MaxBackends \in Nat /\ Databases # {}
  BY LiveToolsAssumption

LEMMA InvInit == Init => LiveToolsInv
<1> SUFFICES ASSUME Init
             PROVE  LiveToolsInv
  OBVIOUS
<1>1. (CHOOSE d \in Databases : TRUE) \in Databases
  BY Assumptions
<1>2. Types
  <2>1. NoCosts \in Costs
    BY DEF NoCosts, Costs
  <2>2. statement \in [Handlers -> {"none", "CREATE INDEX", "another"}]
    BY DEF Init
  <2>3. QED
    BY <1>1, <2>1, <2>2
    DEF Init, Types, Labels, Results, BackendStates, ToolNames, ListingTools
<1>3. configConns = {} /\ \A d \in Databases : Backends(d) = {}
  BY DEF Init, Backends
<1>4. WithinLimits
  BY <1>3, FS_EmptySet, Assumptions DEF WithinLimits
<1>5. ASSUME NEW h \in Handlers
      PROVE  CallInv(h)
  <2>1. Holds(h) /\ Indexed(h)
    BY DEF Init, Holds, Looking, Working, Indexed
  <2>2. Explained(h) /\ Reachable(h)
    BY DEF Init, Explained, NoCosts, Reachable
  <2>3. QED
    BY <2>1, <2>2 DEF CallInv
<1>6. QED
  BY <1>2, <1>4, <1>5 DEF LiveToolsInv

\* A step of one call by any of its actions.
CallStep(h) == Proceeds(h) \/ Served(h) \/ Fails(h) \/ Cleanup(h)

LEMMA TypesCall ==
  ASSUME Types, NEW h \in Handlers, CallStep(h)
  PROVE  Types'
<1> USE DEF Types, Labels, Results, BackendStates, Costs, Goto, GotoWith, callVars, serverVars
<1>1. CASE LookupStarts(h)
  BY <1>1 DEF LookupStarts
<1>2. CASE OpenPool(h)
  BY <1>2 DEF OpenPool
<1>3. CASE Acquire(h)
  BY <1>3 DEF Acquire
<1>4. CASE LookupReturns(h)
  BY <1>4 DEF LookupReturns
<1>5. CASE RowsEnd(h)
  BY <1>5 DEF RowsEnd
<1>6. CASE ExplainBefore(h)
  BY <1>6 DEF ExplainBefore, Plan
<1>7. CASE CreateIndex(h)
  BY <1>7 DEF CreateIndex
<1>8. CASE ExplainAfter(h)
  BY <1>8 DEF ExplainAfter, Plan
<1>9. CASE LookupNotStarted(h)
  BY <1>9 DEF LookupNotStarted
<1>10. CASE LookupFails(h)
  BY <1>10 DEF LookupFails
<1>11. CASE AcquireFails(h)
  BY <1>11 DEF AcquireFails
<1>12. CASE RowsFail(h)
  BY <1>12 DEF RowsFail
<1>13. CASE StatementFails(h)
  BY <1>13 DEF StatementFails
<1>14. CASE Reset(h)
  BY <1>14 DEF Reset
<1>15. CASE Release(h)
  BY <1>15 DEF Release
<1>16. CASE ClosePool(h)
  BY <1>16 DEF ClosePool
<1>17. QED
  BY <1>1, <1>2, <1>3, <1>4, <1>5, <1>6, <1>7, <1>8, <1>9, <1>10, <1>11, <1>12, <1>13, <1>14, <1>15, <1>16
     DEF CallStep, Proceeds, Served, Fails, Cleanup

\* Membership is a truth value, also to a prover without sorts.
LEMMA TruthValue == \A x, S : (x \in S) \in BOOLEAN
  OBVIOUS

LEMMA TypesEnvironment == Types /\ Environment => Types'
<1> SUFFICES ASSUME Types, Environment
             PROVE  Types'
  OBVIOUS
<1> USE DEF Types, Labels, Results, BackendStates, Costs, Goto, GotoWith, callVars, serverVars
<1>1. ASSUME NEW d \in Databases, Toggle(d)
      PROVE  Types'
  <2>1. enabled' \subseteq Databases
    BY <1>1 DEF Toggle
  <2>2. reachable' \in [Handlers -> BOOLEAN]
    BY <1>1 DEF Toggle
  <2>3. QED
    BY <1>1, <2>1, <2>2 DEF Toggle
<1>2. ASSUME NEW h \in Handlers, Cancel(h)
      PROVE  Types'
  BY <1>2 DEF Cancel
<1>3. ASSUME NEW h \in Handlers, BackendDies(h)
      PROVE  Types'
  BY <1>3 DEF BackendDies
<1>4. ASSUME NEW h \in Handlers, NEW t \in ToolNames, NEW d \in Databases, Execute(h, t, d)
      PROVE  Types'
  <2>1. NoCosts \in Costs
    BY DEF NoCosts
  <2>2. costs' \in [Handlers -> Costs]
    BY <1>4, <2>1 DEF Execute
  <2>3. reachable' \in [Handlers -> BOOLEAN]
    <3>1. reachable' = [reachable EXCEPT ![h] = d \in enabled]
      BY <1>4 DEF Execute
    <3>2. QED
      BY <3>1, TruthValue
  <2>4. statement' \in [Handlers -> {"none", "CREATE INDEX", "another"}]
    <3>1. PICK s \in Statements(t) : statement' = [statement EXCEPT ![h] = s]
      BY <1>4 DEF Execute
    <3>2. s \in {"none", "CREATE INDEX", "another"}
      BY DEF Statements
    <3>3. QED
      BY <3>1, <3>2
  <2>5. QED
    BY <1>4, <2>2, <2>3, <2>4 DEF Execute
<1>5. ASSUME NEW h \in Handlers, InvalidArguments(h)
      PROVE  Types'
  BY <1>5 DEF InvalidArguments
<1>6. QED
  BY <1>1, <1>2, <1>3, <1>4, <1>5 DEF Environment

-----------------------------------------------------------------------------
\* A set below its limit has room for one more element.
LEMMA RoomForOne ==
  ASSUME NEW S, IsFiniteSet(S), NEW x, NEW n \in Nat, Cardinality(S) < n
  PROVE  IsFiniteSet(S \cup {x}) /\ Cardinality(S \cup {x}) <= n
<1>1. Cardinality(S) \in Nat
  BY FS_CardinalityType
<1>2. /\ IsFiniteSet(S \cup {x})
      /\ Cardinality(S \cup {x}) = IF x \in S THEN Cardinality(S) ELSE Cardinality(S) + 1
  BY FS_AddElement
<1>3. QED
  BY <1>1, <1>2

\* Giving connections back keeps the limits.
LEMMA GivesBack ==
  ASSUME WithinLimits, configConns' \subseteq configConns,
         \A d \in Databases : Backends(d)' \subseteq Backends(d)
  PROVE  WithinLimits'
<1>1. IsFiniteSet(configConns') /\ Cardinality(configConns') <= MaxConfigConns
  <2>1. /\ IsFiniteSet(configConns')
        /\ Cardinality(configConns') <= Cardinality(configConns)
    BY FS_Subset DEF WithinLimits
  <2>2. Cardinality(configConns) \in Nat /\ Cardinality(configConns') \in Nat
    BY <2>1, FS_CardinalityType DEF WithinLimits
  <2>3. QED
    BY <2>1, <2>2, Assumptions DEF WithinLimits
<1>2. ASSUME NEW d \in Databases
      PROVE  IsFiniteSet(Backends(d)') /\ Cardinality(Backends(d)') <= MaxBackends
  <2>1. IsFiniteSet(Backends(d)) /\ Cardinality(Backends(d)) <= MaxBackends
    BY DEF WithinLimits
  <2>2. /\ IsFiniteSet(Backends(d)')
        /\ Cardinality(Backends(d)') <= Cardinality(Backends(d))
    BY <2>1, FS_Subset
  <2>3. Cardinality(Backends(d)) \in Nat /\ Cardinality(Backends(d)') \in Nat
    BY <2>1, <2>2, FS_CardinalityType
  <2>4. QED
    BY <2>1, <2>2, <2>3, Assumptions
<1>3. QED
  BY <1>1, <1>2 DEF WithinLimits

\* So does changing them for one call that has no connection afterwards, or
\* had it before.
LEMMA KeepsOrGivesBack ==
  ASSUME Types, WithinLimits, NEW h \in Handlers,
         configConns' \subseteq configConns,
         \A g \in Handlers \ {h} : backend'[g] = backend[g] /\ db'[g] = db[g],
         backend'[h] \in {"held", "returned"}
           => backend[h] \in {"held", "returned"} /\ db'[h] = db[h]
  PROVE  WithinLimits'
<1>1. \A d \in Databases : Backends(d)' \subseteq Backends(d)
  BY DEF Backends
<1>2. QED
  BY <1>1, GivesBack

LEMMA LimitsCall ==
  ASSUME Types, WithinLimits, NEW h \in Handlers, CallInv(h), CallStep(h)
  PROVE  WithinLimits'
<1> USE DEF Types, Goto, GotoWith, callVars, serverVars
<1>1. CASE LookupStarts(h)
  <2>1. /\ configConns' = configConns \cup {h}
        /\ Cardinality(configConns) < MaxConfigConns
        /\ UNCHANGED <<backend, db>>
    BY <1>1 DEF LookupStarts
  <2>2. IsFiniteSet(configConns') /\ Cardinality(configConns') <= MaxConfigConns
    BY <2>1, RoomForOne, Assumptions DEF WithinLimits
  <2>3. \A d \in Databases : Backends(d)' = Backends(d)
    BY <2>1 DEF Backends
  <2>4. QED
    BY <2>2, <2>3 DEF WithinLimits
<1>2. CASE Acquire(h)
  <2>1. /\ backend' = [backend EXCEPT ![h] = "held"]
        /\ Cardinality(Backends(db[h])) < MaxBackends
        /\ UNCHANGED <<configConns, db>>
    BY <1>2 DEF Acquire
  <2>2. ASSUME NEW d \in Databases
        PROVE  IsFiniteSet(Backends(d)') /\ Cardinality(Backends(d)') <= MaxBackends
    <3>1. IsFiniteSet(Backends(d)) /\ Cardinality(Backends(d)) <= MaxBackends
      BY DEF WithinLimits
    <3>2. CASE d = db[h]
      <4>1. Backends(d)' = Backends(d) \cup {h}
        BY <2>1, <3>2 DEF Backends
      <4>2. Cardinality(Backends(d)) < MaxBackends
        BY <2>1, <3>2
      <4>3. /\ IsFiniteSet(Backends(d) \cup {h})
            /\ Cardinality(Backends(d) \cup {h}) <= MaxBackends
        BY <3>1, <4>2, RoomForOne, Assumptions
      <4>4. QED
        BY <4>1, <4>3
    <3>3. CASE d # db[h]
      <4>1. Backends(d)' = Backends(d)
        BY <2>1, <3>3 DEF Backends
      <4>2. QED
        BY <3>1, <4>1
    <3>4. QED
      BY <3>2, <3>3
  <2>3. QED
    BY <2>1, <2>2 DEF WithinLimits
<1> USE DEF BackendStates
<1>3. CASE OpenPool(h)
  BY <1>3, KeepsOrGivesBack DEF OpenPool
<1>4. CASE LookupReturns(h)
  BY <1>4, KeepsOrGivesBack DEF LookupReturns
<1>5. CASE RowsEnd(h)
  BY <1>5, KeepsOrGivesBack DEF RowsEnd
<1>6. CASE ExplainBefore(h)
  BY <1>6, KeepsOrGivesBack DEF ExplainBefore
<1>7. CASE CreateIndex(h)
  BY <1>7, KeepsOrGivesBack DEF CreateIndex
<1>8. CASE ExplainAfter(h)
  BY <1>8, KeepsOrGivesBack DEF ExplainAfter
<1>9. CASE LookupNotStarted(h)
  BY <1>9, KeepsOrGivesBack DEF LookupNotStarted
<1>10. CASE LookupFails(h)
  BY <1>10, KeepsOrGivesBack DEF LookupFails
<1>11. CASE AcquireFails(h)
  BY <1>11, KeepsOrGivesBack DEF AcquireFails
<1>12. CASE RowsFail(h)
  BY <1>12, KeepsOrGivesBack DEF RowsFail
<1>13. CASE StatementFails(h)
  BY <1>13, KeepsOrGivesBack DEF StatementFails
<1>14. CASE Reset(h)
  BY <1>14, KeepsOrGivesBack DEF Reset
<1>15. CASE Release(h)
  BY <1>15, KeepsOrGivesBack DEF Release
<1>16. CASE ClosePool(h)
  BY <1>16, KeepsOrGivesBack DEF ClosePool
<1>17. QED
  BY <1>1, <1>2, <1>3, <1>4, <1>5, <1>6, <1>7, <1>8, <1>9, <1>10, <1>11, <1>12, <1>13, <1>14, <1>15, <1>16
     DEF CallStep, Proceeds, Served, Fails, Cleanup

LEMMA LimitsEnvironment ==
  ASSUME Types, WithinLimits, \A h \in Handlers : CallInv(h), Environment
  PROVE  WithinLimits'
<1> USE DEF Types, Goto, GotoWith, callVars, serverVars
<1>1. ASSUME NEW d \in Databases, Toggle(d)
      PROVE  WithinLimits'
  BY <1>1, GivesBack DEF Toggle, Backends
<1>2. ASSUME NEW h \in Handlers, Cancel(h)
      PROVE  WithinLimits'
  BY <1>2, KeepsOrGivesBack DEF Cancel
<1>3. ASSUME NEW h \in Handlers, BackendDies(h)
      PROVE  WithinLimits'
  BY <1>3, KeepsOrGivesBack DEF BackendDies
<1>4. ASSUME NEW h \in Handlers, NEW t \in ToolNames, NEW d \in Databases, Execute(h, t, d)
      PROVE  WithinLimits'
  <2>1. backend[h] = "none"
    BY <1>4 DEF Execute, CallInv, Holds
  <2>2. QED
    BY <1>4, <2>1, KeepsOrGivesBack DEF Execute
<1>5. ASSUME NEW h \in Handlers, InvalidArguments(h)
      PROVE  WithinLimits'
  BY <1>5, KeepsOrGivesBack DEF InvalidArguments
<1>6. QED
  BY <1>1, <1>2, <1>3, <1>4, <1>5 DEF Environment

-----------------------------------------------------------------------------
\* A call keeps its invariant as long as nothing of it changes.
LEMMA Untouched ==
  ASSUME NEW g \in Handlers, CallInv(g), UNCHANGED enabled,
         pc'[g] = pc[g], db'[g] = db[g], statement'[g] = statement[g],
         result'[g] = result[g], costs'[g] = costs[g],
         backend'[g] = backend[g], index'[g] = index[g], reachable'[g] = reachable[g],
         g \in configConns' => g \in configConns
  PROVE  CallInv(g)'
  BY DEF CallInv, Holds, Indexed, Explained, Reachable

\* A step of one call touches no other ...
LEMMA OtherCalls ==
  ASSUME Types, NEW h \in Handlers, CallStep(h), NEW g \in Handlers, g # h, CallInv(g)
  PROVE  CallInv(g)'
<1> USE DEF Types, Goto, GotoWith, callVars, serverVars
<1>1. CASE LookupStarts(h)
  BY <1>1, Untouched DEF LookupStarts
<1>2. CASE OpenPool(h)
  BY <1>2, Untouched DEF OpenPool
<1>3. CASE Acquire(h)
  BY <1>3, Untouched DEF Acquire
<1>4. CASE LookupReturns(h)
  BY <1>4, Untouched DEF LookupReturns
<1>5. CASE RowsEnd(h)
  BY <1>5, Untouched DEF RowsEnd
<1>6. CASE ExplainBefore(h)
  BY <1>6, Untouched DEF ExplainBefore
<1>7. CASE CreateIndex(h)
  BY <1>7, Untouched DEF CreateIndex
<1>8. CASE ExplainAfter(h)
  BY <1>8, Untouched DEF ExplainAfter
<1>9. CASE LookupNotStarted(h)
  BY <1>9, Untouched DEF LookupNotStarted
<1>10. CASE LookupFails(h)
  BY <1>10, Untouched DEF LookupFails
<1>11. CASE AcquireFails(h)
  BY <1>11, Untouched DEF AcquireFails
<1>12. CASE RowsFail(h)
  BY <1>12, Untouched DEF RowsFail
<1>13. CASE StatementFails(h)
  BY <1>13, Untouched DEF StatementFails
<1>14. CASE Reset(h)
  BY <1>14, Untouched DEF Reset
<1>15. CASE Release(h)
  BY <1>15, Untouched DEF Release
<1>16. CASE ClosePool(h)
  BY <1>16, Untouched DEF ClosePool
<1>17. QED
  BY <1>1, <1>2, <1>3, <1>4, <1>5, <1>6, <1>7, <1>8, <1>9, <1>10, <1>11, <1>12, <1>13, <1>14, <1>15, <1>16
     DEF CallStep, Proceeds, Served, Fails, Cleanup

\* ... and keeps the invariant of its own.
LEMMA OwnCall ==
  ASSUME Types, NEW h \in Handlers, CallStep(h), CallInv(h)
  PROVE  CallInv(h)'
<1> USE DEF Types, Labels, Results, BackendStates, Costs, Goto, GotoWith, callVars, serverVars,
        CallInv, Looking, Working, Indexing
<1>1. CASE LookupStarts(h)
  <2>1. Holds(h)'
    BY <1>1 DEF LookupStarts, Holds
  <2>2. Indexed(h)'
    BY <1>1 DEF LookupStarts, Holds, Indexed
  <2>3. Explained(h)'
    BY <1>1 DEF LookupStarts, Holds, Indexed, Explained
  <2>4. Reachable(h)'
    BY <1>1 DEF LookupStarts, Reachable
  <2>5. QED
    BY <2>1, <2>2, <2>3, <2>4
<1>2. CASE OpenPool(h)
  <2>1. Holds(h)'
    BY <1>2 DEF OpenPool, Holds
  <2>2. Indexed(h)'
    BY <1>2 DEF OpenPool, Holds, Indexed
  <2>3. Explained(h)'
    BY <1>2 DEF OpenPool, Holds, Indexed, Explained
  <2>4. Reachable(h)'
    BY <1>2 DEF OpenPool, Reachable
  <2>5. QED
    BY <2>1, <2>2, <2>3, <2>4
<1>3. CASE Acquire(h)
  <2>1. Holds(h)'
    BY <1>3 DEF Acquire, Holds
  <2>2. Indexed(h)'
    BY <1>3 DEF Acquire, Holds, Indexed
  <2>3. Explained(h)'
    BY <1>3 DEF Acquire, Holds, Indexed, Explained
  <2>4. Reachable(h)'
    BY <1>3 DEF Acquire, Reachable
  <2>5. QED
    BY <2>1, <2>2, <2>3, <2>4
<1>4. CASE LookupReturns(h)
  <2>1. Holds(h)'
    BY <1>4 DEF LookupReturns, Holds
  <2>2. Indexed(h)'
    BY <1>4 DEF LookupReturns, Holds, Indexed
  <2>3. Explained(h)'
    BY <1>4 DEF LookupReturns, Holds, Indexed, Explained
  <2>4. Reachable(h)'
    BY <1>4 DEF LookupReturns, Reachable
  <2>5. QED
    BY <2>1, <2>2, <2>3, <2>4
<1>5. CASE RowsEnd(h)
  <2>1. Holds(h)'
    BY <1>5 DEF RowsEnd, Holds, Succeeds
  <2>2. Indexed(h)'
    BY <1>5 DEF RowsEnd, Holds, Indexed, Succeeds
  <2>3. Explained(h)'
    BY <1>5 DEF RowsEnd, Holds, Indexed, Explained, Succeeds
  <2>4. Reachable(h)'
    BY <1>5 DEF RowsEnd, Reachable
  <2>5. QED
    BY <2>1, <2>2, <2>3, <2>4
<1>6. CASE ExplainBefore(h)
  <2>1. Holds(h)'
    BY <1>6 DEF ExplainBefore, Holds, Succeeds
  <2>2. Indexed(h)'
    BY <1>6 DEF ExplainBefore, Holds, Indexed, Succeeds
  <2>3. Explained(h)'
    BY <1>6 DEF ExplainBefore, Holds, Indexed, Explained, Succeeds, Plan
  <2>4. Reachable(h)'
    BY <1>6 DEF ExplainBefore, Reachable
  <2>5. QED
    BY <2>1, <2>2, <2>3, <2>4
<1>7. CASE CreateIndex(h)
  <2>1. Holds(h)'
    BY <1>7 DEF CreateIndex, Holds, Succeeds
  <2>2. Indexed(h)'
    BY <1>7 DEF CreateIndex, Holds, Indexed, Succeeds
  <2>3. Explained(h)'
    BY <1>7 DEF CreateIndex, Holds, Indexed, Explained, Succeeds
  <2>4. Reachable(h)'
    BY <1>7 DEF CreateIndex, Reachable
  <2>5. QED
    BY <2>1, <2>2, <2>3, <2>4
<1>8. CASE ExplainAfter(h)
  <2>1. Holds(h)'
    BY <1>8 DEF ExplainAfter, Holds, Succeeds
  <2>2. Indexed(h)'
    BY <1>8 DEF ExplainAfter, Holds, Indexed, Succeeds
  <2>3. Explained(h)'
    BY <1>8 DEF ExplainAfter, Holds, Indexed, Explained, Succeeds, Plan
  <2>4. Reachable(h)'
    BY <1>8 DEF ExplainAfter, Reachable
  <2>5. QED
    BY <2>1, <2>2, <2>3, <2>4
<1>9. CASE LookupNotStarted(h)
  <2>1. Holds(h)'
    BY <1>9 DEF LookupNotStarted, Holds
  <2>2. Indexed(h)'
    BY <1>9 DEF LookupNotStarted, Holds, Indexed
  <2>3. Explained(h)'
    BY <1>9 DEF LookupNotStarted, Holds, Indexed, Explained
  <2>4. Reachable(h)'
    BY <1>9 DEF LookupNotStarted, Reachable
  <2>5. QED
    BY <2>1, <2>2, <2>3, <2>4
<1>10. CASE LookupFails(h)
  <2>1. Holds(h)'
    BY <1>10 DEF LookupFails, Holds
  <2>2. Indexed(h)'
    BY <1>10 DEF LookupFails, Holds, Indexed
  <2>3. Explained(h)'
    BY <1>10 DEF LookupFails, Holds, Indexed, Explained
  <2>4. Reachable(h)'
    BY <1>10 DEF LookupFails, Reachable
  <2>5. QED
    BY <2>1, <2>2, <2>3, <2>4
<1>11. CASE AcquireFails(h)
  <2>1. Holds(h)'
    BY <1>11 DEF AcquireFails, Holds
  <2>2. Indexed(h)'
    BY <1>11 DEF AcquireFails, Holds, Indexed
  <2>3. Explained(h)'
    BY <1>11 DEF AcquireFails, Holds, Indexed, Explained
  <2>4. Reachable(h)'
    BY <1>11 DEF AcquireFails, Reachable
  <2>5. QED
    BY <2>1, <2>2, <2>3, <2>4
<1>12. CASE RowsFail(h)
  <2>1. Holds(h)'
    BY <1>12 DEF RowsFail, Holds
  <2>2. Indexed(h)'
    BY <1>12 DEF RowsFail, Holds, Indexed
  <2>3. Explained(h)'
    BY <1>12 DEF RowsFail, Holds, Indexed, Explained
  <2>4. Reachable(h)'
    BY <1>12 DEF RowsFail, Reachable
  <2>5. QED
    BY <2>1, <2>2, <2>3, <2>4
<1>13. CASE StatementFails(h)
  <2>1. Holds(h)'
    BY <1>13 DEF StatementFails, Holds
  <2>2. Indexed(h)'
    BY <1>13 DEF StatementFails, Holds, Indexed
  <2>3. Explained(h)'
    BY <1>13 DEF StatementFails, Holds, Indexed, Explained
  <2>4. Reachable(h)'
    BY <1>13 DEF StatementFails, Reachable
  <2>5. QED
    BY <2>1, <2>2, <2>3, <2>4
<1>14. CASE Reset(h)
  <2>1. Holds(h)'
    BY <1>14 DEF Reset, Holds, Succeeds
  <2>2. Indexed(h)'
    BY <1>14 DEF Reset, Holds, Indexed, Succeeds
  <2>3. Explained(h)'
    BY <1>14 DEF Reset, Holds, Indexed, Explained, Succeeds
  <2>4. Reachable(h)'
    BY <1>14 DEF Reset, Reachable
  <2>5. QED
    BY <2>1, <2>2, <2>3, <2>4
<1>15. CASE Release(h)
  <2>1. Holds(h)'
    BY <1>15 DEF Release, Holds
  <2>2. Indexed(h)'
    BY <1>15 DEF Release, Holds, Indexed
  <2>3. Explained(h)'
    BY <1>15 DEF Release, Holds, Indexed, Explained
  <2>4. Reachable(h)'
    BY <1>15 DEF Release, Reachable
  <2>5. QED
    BY <2>1, <2>2, <2>3, <2>4
<1>16. CASE ClosePool(h)
  <2>1. Holds(h)'
    BY <1>16 DEF ClosePool, Holds
  <2>2. Indexed(h)'
    BY <1>16 DEF ClosePool, Holds, Indexed
  <2>3. Explained(h)'
    BY <1>16 DEF ClosePool, Holds, Indexed, Explained
  <2>4. Reachable(h)'
    BY <1>16 DEF ClosePool, Reachable
  <2>5. QED
    BY <2>1, <2>2, <2>3, <2>4
<1>17. QED
  BY <1>1, <1>2, <1>3, <1>4, <1>5, <1>6, <1>7, <1>8, <1>9, <1>10, <1>11, <1>12, <1>13, <1>14, <1>15, <1>16
     DEF CallStep, Proceeds, Served, Fails, Cleanup

\* The environment keeps the invariant of every call.
LEMMA CallsEnvironment ==
  ASSUME Types, \A h \in Handlers : CallInv(h), Environment, NEW g \in Handlers
  PROVE  CallInv(g)'
<1> USE DEF Types, Goto, GotoWith, callVars, serverVars
<1>1. ASSUME NEW d \in Databases, Toggle(d)
      PROVE  CallInv(g)'
  <2>1. /\ UNCHANGED <<pc, tool, db, statement, cancelled, result, costs, configConns, backend, index>>
        /\ reachable'[g] = (reachable[g] \/ (pc[g] # "idle" /\ db[g] = d /\ d \in enabled'))
        /\ enabled' \subseteq enabled \cup {d}
    BY <1>1 DEF Toggle
  <2>2. Holds(g)' /\ Indexed(g)' /\ Explained(g)'
    BY <2>1 DEF CallInv, Holds, Indexed, Explained
  <2>3. Reachable(g)'
    BY <2>1 DEF CallInv, Reachable
  <2>4. QED
    BY <2>2, <2>3 DEF CallInv
<1>2. ASSUME NEW h \in Handlers, Cancel(h)
      PROVE  CallInv(g)'
  BY <1>2, Untouched DEF Cancel
<1>3. ASSUME NEW h \in Handlers, BackendDies(h)
      PROVE  CallInv(g)'
  <2>1. CASE g # h
    BY <1>3, <2>1, Untouched DEF BackendDies
  <2>2. CASE g = h
    BY <1>3, <2>2 DEF BackendDies, CallInv, Holds, Indexed, Explained, Reachable,
       Looking, Working
  <2>3. QED
    BY <2>1, <2>2
<1>4. ASSUME NEW h \in Handlers, NEW t \in ToolNames, NEW d \in Databases, Execute(h, t, d)
      PROVE  CallInv(g)'
  <2>1. CASE g # h
    BY <1>4, <2>1, Untouched DEF Execute
  <2>2. CASE g = h
    <3>1. /\ pc[g] = "idle" /\ pc'[g] = "lookup" /\ result'[g] = "none" /\ db'[g] = d
          /\ costs'[g] = NoCosts /\ reachable'[g] = (d \in enabled)
          /\ UNCHANGED <<enabled, configConns, backend, index>>
      BY <1>4, <2>2 DEF Execute
    <3>2. Holds(g)' /\ Indexed(g)'
      BY <3>1 DEF CallInv, Holds, Indexed, Looking, Working, Indexing
    <3>3. Explained(g)'
      <4>1. NoCosts.before # "withIndex"
        BY DEF NoCosts
      <4>2. pc'[g] \notin {"create", "after"} /\ result'[g] # "evaluated"
        BY <3>1
      <4>3. QED
        BY <3>1, <4>1, <4>2 DEF Explained
    <3>4. Reachable(g)'
      BY <3>1 DEF Reachable
    <3>5. QED
      BY <3>2, <3>3, <3>4 DEF CallInv
  <2>3. QED
    BY <2>1, <2>2
<1>5. ASSUME NEW h \in Handlers, InvalidArguments(h)
      PROVE  CallInv(g)'
  <2>1. CASE g # h
    BY <1>5, <2>1, Untouched DEF InvalidArguments
  <2>2. CASE g = h
    BY <1>5, <2>2 DEF InvalidArguments, CallInv, Holds, Indexed, Explained, Reachable, Looking
  <2>3. QED
    BY <2>1, <2>2
<1>6. QED
  BY <1>1, <1>2, <1>3, <1>4, <1>5 DEF Environment

-----------------------------------------------------------------------------
LEMMA InvNext == LiveToolsInv /\ [Next]_vars => LiveToolsInv'
<1> SUFFICES ASSUME LiveToolsInv, [Next]_vars
             PROVE  LiveToolsInv'
  OBVIOUS
<1>1. Types /\ WithinLimits /\ \A h \in Handlers : CallInv(h)
  BY DEF LiveToolsInv
<1>2. CASE Environment
  BY <1>1, <1>2, TypesEnvironment, LimitsEnvironment, CallsEnvironment DEF LiveToolsInv
<1>3. ASSUME NEW h \in Handlers, CallStep(h)
      PROVE  LiveToolsInv'
  <2>1. Types' /\ WithinLimits'
    BY <1>1, <1>3, TypesCall, LimitsCall
  <2>2. \A g \in Handlers : CallInv(g)'
    BY <1>1, <1>3, OwnCall, OtherCalls
  <2>3. QED
    BY <2>1, <2>2 DEF LiveToolsInv
<1>4. CASE UNCHANGED vars
  <2>1. Types' /\ WithinLimits'
    BY <1>1, <1>4 DEF vars, callVars, serverVars, Types, WithinLimits, Backends
  <2>2. \A g \in Handlers : CallInv(g)'
    BY <1>1, <1>4, Untouched DEF vars, callVars, serverVars
  <2>3. QED
    BY <2>1, <2>2 DEF LiveToolsInv
<1>5. QED
  BY <1>2, <1>3, <1>4 DEF Next, CallStep

LEMMA InvAlways == Spec => []LiveToolsInv
  BY InvInit, InvNext, PTL DEF Spec

\* Every variable has its type; the config pool stays within its limit, and a
\* monitored server is not asked for more connections than it accepts.
THEOREM TypeCorrect == Spec => []TypeOK
<1>1. LiveToolsInv => TypeOK
  BY DEF LiveToolsInv, Types, WithinLimits, TypeOK, Labels, Results, BackendStates, Costs
<1>2. QED
  BY InvAlways, <1>1, PTL

\* A call that ended, however it did, holds no connection and left no
\* hypothetical index.
THEOREM NothingIsLeftBehind == Spec => []NothingLeftBehind
<1>1. LiveToolsInv => NothingLeftBehind
  BY DEF LiveToolsInv, CallInv, Holds, Indexed, Indexing, NothingLeftBehind
<1>2. QED
  BY InvAlways, <1>1, PTL

\* costBefore is of a plan without a hypothetical index, and costAfter of one
\* with the index of the statement, or without it if the statement made none
\* (hypopg.go:89-111).
THEOREM CostsAreComparable == Spec => []CostsComparable
<1>1. LiveToolsInv => CostsComparable
  BY DEF LiveToolsInv, CallInv, Explained, CostsComparable
<1>2. QED
  BY InvAlways, <1>1, PTL

\* A call is connected only to a source that was enabled during the call.
THEOREM DisabledIsNotContacted == Spec => []DisabledNotContacted
<1>1. LiveToolsInv => DisabledNotContacted
  BY DEF LiveToolsInv, CallInv, Holds, Looking, Reachable, DisabledNotContacted
<1>2. QED
  BY InvAlways, <1>1, PTL

\* A call that waits for a connection has none, and pool.Close never waits for
\* its own call.
THEOREM NeverHoldsAndWaits == Spec => []NoHoldAndWait
<1>1. LiveToolsInv => NoHoldAndWait
  BY DEF LiveToolsInv, CallInv, Holds, Looking, NoHoldAndWait
<1>2. QED
  BY InvAlways, <1>1, PTL

-----------------------------------------------------------------------------
(***************************************************************************)
(* The server.                                                             *)
(***************************************************************************)
\* The theorems about Commands, for the main goroutine and these handlers.
Of == INSTANCE CommandsProofs WITH
  cmd <- "mcp", pc <- mainPc, result <- mainResult, using <- Using

\* A handler is asked for trends only while it has no other call.
TrendsAlone == trends \subseteq Handlers /\ \A h \in trends : pc[h] = "idle"

LEMMA RequestsAreTools ==
  ASSUME NEW h \in Handlers
  PROVE  Requests[h] \subseteq ToolNames
  BY McpServerAssumption

-----------------------------------------------------------------------------
(***************************************************************************)
(* Every step of the server is one of LiveTools or changes nothing there.  *)
(***************************************************************************)
LEMMA StepIsCall == [ServerNext]_serverProcess => [Next]_vars
<1> SUFFICES ASSUME [ServerNext]_serverProcess
             PROVE  [Next]_vars
  OBVIOUS
<1>1. CASE MainStep
  BY <1>1 DEF MainStep
<1>2. CASE Outside
  BY <1>2 DEF Outside, Next, Environment
<1>3. ASSUME NEW h \in Handlers, Request(h)
      PROVE  Next
  <2>1. CASE \E t \in Requests[h], d \in Databases : Execute(h, t, d)
    BY <2>1, RequestsAreTools DEF Next, Environment
  <2>2. CASE InvalidArguments(h)
    BY <2>2 DEF Next, Environment
  <2>3. QED
    BY <1>3, <2>1, <2>2 DEF Request
<1>4. ASSUME NEW h \in Handlers, Call(h)
      PROVE  Next
  BY <1>4 DEF Call, Next
<1>5. CASE InputEnds \/ ServeStdioReturns
  BY <1>5 DEF InputEnds, ServeStdioReturns
<1>6. ASSUME NEW h \in Handlers, TrendStarts(h) \/ TrendEnds(h)
      PROVE  UNCHANGED vars
  BY <1>6 DEF TrendStarts, TrendEnds
<1>7. CASE UNCHANGED serverProcess
  BY <1>7 DEF serverProcess
<1>8. QED
  BY <1>1, <1>2, <1>3, <1>4, <1>5, <1>6, <1>7 DEF ServerNext

\* The tools of the server are the tools of LiveTools (mcp.go:83-121) ...
THEOREM ServerRunsTools == ServerSpec => Spec
  BY StepIsCall, PTL DEF ServerSpec, ServerInit, Spec

\* ... so the calls of its handlers leave nothing behind, however they end and
\* whatever main does meanwhile (hypopg.go:83-119, active_queries.go:83-93) ...
THEOREM ServerLeavesNothing == ServerSpec => []NothingLeftBehind
  BY ServerRunsTools, NothingIsLeftBehind, PTL

\* ... and none of them waits while it keeps others waiting
\* (active_queries.go:87, 93).
THEOREM ServerNeverHoldsAndWaits == ServerSpec => []NoHoldAndWait
  BY ServerRunsTools, NeverHoldsAndWaits, PTL

-----------------------------------------------------------------------------
(***************************************************************************)
(* Of a call main sees the connection of the config pool alone: a step of  *)
(* one keeps that, takes one or gives it back.                             *)
(***************************************************************************)
LEMMA CallMoves ==
  ASSUME Types, NEW h \in Handlers, CallStep(h)
  PROVE  /\ pc[h] # "idle"
         /\ \A g \in Handlers \ {h} : pc'[g] = pc[g]
<1> USE DEF Types, Goto, GotoWith
<1>1. CASE Proceeds(h)
  BY <1>1 DEF Proceeds, LookupStarts, OpenPool, Acquire
<1>2. CASE Served(h)
  BY <1>2 DEF Served, LookupReturns, RowsEnd, ExplainBefore, CreateIndex, ExplainAfter
<1>3. CASE Fails(h)
  BY <1>3 DEF Fails, LookupNotStarted, LookupFails, AcquireFails, RowsFail, StatementFails
<1>4. CASE Cleanup(h)
  BY <1>4 DEF Cleanup, Reset, Release, ClosePool
<1>5. QED
  BY <1>1, <1>2, <1>3, <1>4 DEF CallStep

LEMMA CallLooksOrReturns ==
  ASSUME NEW h \in Handlers, CallStep(h)
  PROVE  \/ pc[h] = "lookup" /\ configConns' = configConns \cup {h}
         \/ UNCHANGED configConns
         \/ configConns' = configConns \ {h}
<1>1. CASE Proceeds(h)
  BY <1>1 DEF Proceeds, LookupStarts, OpenPool, Acquire, serverVars
<1>2. CASE Served(h)
  BY <1>2 DEF Served, LookupReturns, RowsEnd, ExplainBefore, CreateIndex, ExplainAfter, serverVars
<1>3. CASE Fails(h)
  BY <1>3 DEF Fails, LookupNotStarted, LookupFails, AcquireFails, RowsFail, StatementFails,
              serverVars
<1>4. CASE Cleanup(h)
  BY <1>4 DEF Cleanup, Reset, Release, ClosePool
<1>5. QED
  BY <1>1, <1>2, <1>3, <1>4 DEF CallStep

LEMMA TrendsAloneStep ==
  LiveToolsInv /\ TrendsAlone /\ [ServerNext]_serverProcess => TrendsAlone'
<1> SUFFICES ASSUME LiveToolsInv, TrendsAlone, [ServerNext]_serverProcess
             PROVE  TrendsAlone'
  OBVIOUS
<1>0. Types
  BY DEF LiveToolsInv
<1>1. ASSUME NEW h \in Handlers, h \notin trends, UNCHANGED trends,
             \A g \in Handlers \ {h} : pc'[g] = pc[g]
      PROVE  TrendsAlone'
  BY <1>1 DEF TrendsAlone
<1>2. ASSUME NEW h \in Handlers, CallStep(h), UNCHANGED trends
      PROVE  TrendsAlone'
  BY <1>0, <1>1, <1>2, CallMoves DEF TrendsAlone
<1>3. CASE MainStep
  BY <1>3 DEF MainStep, TrendsAlone, vars, callVars
<1>4. CASE Outside
  BY <1>4 DEF Outside, Toggle, Cancel, BackendDies, callVars, TrendsAlone
<1>5. ASSUME NEW h \in Handlers, Request(h)
      PROVE  TrendsAlone'
  <2>1. h \notin trends /\ UNCHANGED trends
    BY <1>5 DEF Request
  <2>2. \A g \in Handlers \ {h} : pc'[g] = pc[g]
    BY <1>0, <1>5 DEF Request, Execute, InvalidArguments, Goto, GotoWith, Types
  <2>3. QED
    BY <1>1, <2>1, <2>2
<1>6. CASE InputEnds \/ ServeStdioReturns
  BY <1>6 DEF InputEnds, ServeStdioReturns, TrendsAlone, vars, callVars
<1>7. ASSUME NEW h \in Handlers, Call(h)
      PROVE  TrendsAlone'
  BY <1>2, <1>7 DEF Call, CallStep
<1>8. ASSUME NEW h \in Handlers, TrendStarts(h) \/ TrendEnds(h)
      PROVE  TrendsAlone'
  BY <1>8 DEF TrendStarts, TrendEnds, TrendsAlone, vars, callVars
<1>9. CASE UNCHANGED serverProcess
  BY <1>9 DEF serverProcess, vars, callVars, TrendsAlone
<1>10. QED
  BY <1>3, <1>4, <1>5, <1>6, <1>7, <1>8, <1>9 DEF ServerNext

LEMMA ServerInvariant == ServerSpec => [](LiveToolsInv /\ TrendsAlone)
<1>1. ServerInit => TrendsAlone
  BY DEF ServerInit, TrendsAlone
<1>2. ServerSpec => []LiveToolsInv
  BY ServerRunsTools, InvAlways, PTL
<1>3. QED
  BY <1>1, <1>2, TrendsAloneStep, PTL DEF ServerSpec

-----------------------------------------------------------------------------
(***************************************************************************)
(* Every step of the server is one of Commands or changes nothing there.   *)
(***************************************************************************)
LEMMA UsingValues ==
  ASSUME NEW h \in Handlers, ~(h \in configConns /\ h \in trends)
  PROVE  /\ h \in configConns => Using[h] = "config"
         /\ h \in trends => Using[h] = "metrics"
         /\ h \notin configConns /\ h \notin trends => Using[h] = "none"
<1>1. CASE h \in configConns
  BY <1>1 DEF Using
<1>2. CASE h \in trends
  BY <1>2 DEF Using
<1>3. CASE h \notin configConns /\ h \notin trends
  BY <1>3 DEF Using
<1>4. QED
  BY <1>1, <1>2, <1>3

\* Where a handler's connections stay as they are, main sees no change of it.
LEMMA UsingKept ==
  ASSUME NEW h \in Handlers,
         h \in configConns' <=> h \in configConns,
         h \in trends' <=> h \in trends
  PROVE  Using'[h] = Using[h]
  BY DEF Using

\* A handler takes a connection ...
LEMMA Takes ==
  ASSUME NEW h \in Handlers, Serving, NEW pool \in {"config", "metrics"},
         h \notin configConns, h \notin trends, UNCHANGED mainVars,
         configConns' = IF pool = "config" THEN configConns \cup {h} ELSE configConns,
         trends' = IF pool = "metrics" THEN trends \cup {h} ELSE trends
  PROVE  Main!Next
<1>1. Using[h] = "none"
  BY UsingValues
<1>2. Using' = [Using EXCEPT ![h] = pool]
  <2>1. Using'[h] = pool
    BY DEF Using
  <2>2. \A g \in Handlers \ {h} : Using'[g] = Using[g]
    BY UsingKept
  <2>3. Using = [g \in Handlers |-> Using[g]] /\ Using' = [g \in Handlers |-> Using'[g]]
    BY DEF Using
  <2>4. QED
    BY <2>1, <2>2, <2>3
<1>3. Main!HandlerAcquires(h, pool)
  BY <1>1, <1>2 DEF Main!HandlerAcquires, Serving, mainVars
<1>4. QED
  BY <1>3 DEF Main!Next, Main!Pools

\* ... and gives it back.
LEMMA GivesBackToMain ==
  ASSUME NEW h \in Handlers, Serving, h \in configConns \/ h \in trends,
         ~(h \in configConns /\ h \in trends), UNCHANGED mainVars,
         configConns' = configConns \ {h}, trends' = trends \ {h}
  PROVE  Main!Next
<1>1. Using[h] # "none"
  BY UsingValues
<1>2. Using' = [Using EXCEPT ![h] = "none"]
  <2>1. Using'[h] = "none"
    BY DEF Using
  <2>2. \A g \in Handlers \ {h} : Using'[g] = Using[g]
    BY UsingKept
  <2>3. Using = [g \in Handlers |-> Using[g]] /\ Using' = [g \in Handlers |-> Using'[g]]
    BY DEF Using
  <2>4. QED
    BY <2>1, <2>2, <2>3
<1>3. Main!HandlerReleases(h)
  BY <1>1, <1>2 DEF Main!HandlerReleases, Serving, mainVars
<1>4. QED
  BY <1>3 DEF Main!Next

LEMMA StepIsCommand ==
  LiveToolsInv /\ TrendsAlone /\ [ServerNext]_serverProcess => [Main!Next]_(Main!vars)
<1> SUFFICES ASSUME LiveToolsInv, TrendsAlone, [ServerNext]_serverProcess
             PROVE  [Main!Next]_(Main!vars)
  OBVIOUS
<1>1. ASSUME UNCHANGED <<mainVars, configConns, trends>>
      PROVE  UNCHANGED Main!vars
  BY <1>1 DEF mainVars, Main!vars, Using
<1>2. CASE MainStep
  BY <1>2 DEF MainStep, Main!Next
<1>3. CASE Outside
  BY <1>1, <1>3 DEF Outside, Toggle, Cancel, BackendDies, serverVars
<1>4. ASSUME NEW h \in Handlers, Request(h)
      PROVE  UNCHANGED Main!vars
  BY <1>1, <1>4 DEF Request, Execute, InvalidArguments, serverVars
<1>5. CASE InputEnds
  BY <1>1, <1>5 DEF InputEnds, vars, serverVars
<1>5r. CASE ServeStdioReturns
  <2>1. \A h \in Handlers : h \notin configConns /\ h \notin trends
    BY <1>5r DEF ServeStdioReturns, LiveToolsInv, CallInv, Holds
  <2>2. \A h \in Handlers : Using[h] = "none"
    BY <2>1, UsingValues
  <2>3. Using' = Using
    BY <1>5r DEF ServeStdioReturns, vars, serverVars, Using
  <2>4. Main!WorkEnds
    BY <1>5r, <2>2, <2>3 DEF ServeStdioReturns, Serving, Main!WorkEnds
  <2>5. QED
    BY <2>4 DEF Main!Next, Main!Main
<1>6. ASSUME NEW h \in Handlers, Call(h)
      PROVE  Main!Next \/ UNCHANGED Main!vars
  <2>1. CallStep(h)
    BY <1>6 DEF Call, CallStep
  <2>2. Serving /\ UNCHANGED <<trends, mainVars>>
    BY <1>6 DEF Call
  <2>3. h \notin trends
    BY <2>1, CallMoves DEF LiveToolsInv, TrendsAlone
  <2>4. CASE h \in configConns /\ configConns' = configConns \ {h}
    BY <2>2, <2>3, <2>4, GivesBackToMain
  <2>5. CASE UNCHANGED configConns
    BY <1>1, <2>2, <2>5
  <2>6. CASE pc[h] = "lookup" /\ configConns' = configConns \cup {h}
    <3>1. h \notin configConns
      BY <2>6 DEF LiveToolsInv, CallInv, Holds
    <3>2. /\ configConns' = IF "config" = "config" THEN configConns \cup {h} ELSE configConns
          /\ trends' = IF "config" = "metrics" THEN trends \cup {h} ELSE trends
      BY <2>2, <2>6
    <3>3. QED
      BY <2>2, <2>3, <3>1, <3>2, Takes
  <2>7. h \notin configConns => configConns \ {h} = configConns
    OBVIOUS
  <2>8. QED
    BY <2>1, <2>4, <2>5, <2>6, <2>7, CallLooksOrReturns
<1>7. ASSUME NEW h \in Handlers, TrendStarts(h)
      PROVE  Main!Next
  <2>1. h \notin configConns
    BY <1>7 DEF TrendStarts, LiveToolsInv, CallInv, Holds
  <2>2. UNCHANGED configConns
    BY <1>7 DEF TrendStarts, vars, serverVars
  <2>3. /\ Serving /\ h \notin trends
        /\ trends' = trends \cup {h} /\ UNCHANGED mainVars
    BY <1>7 DEF TrendStarts
  <2>4. /\ configConns' = IF "metrics" = "config" THEN configConns \cup {h} ELSE configConns
        /\ trends' = IF "metrics" = "metrics" THEN trends \cup {h} ELSE trends
    BY <2>2, <2>3
  <2>5. QED
    BY <2>1, <2>2, <2>3, <2>4, Takes
<1>8. ASSUME NEW h \in Handlers, TrendEnds(h)
      PROVE  Main!Next
  <2>1. h \in trends /\ pc[h] = "idle"
    BY <1>8 DEF TrendEnds, TrendsAlone
  <2>2. h \notin configConns
    BY <2>1 DEF LiveToolsInv, CallInv, Holds
  <2>3. configConns' = configConns \ {h}
    BY <1>8, <2>2 DEF TrendEnds, vars, serverVars
  <2>4. Serving /\ trends' = trends \ {h} /\ UNCHANGED mainVars
    BY <1>8 DEF TrendEnds
  <2>5. QED
    BY <2>1, <2>2, <2>3, <2>4, GivesBackToMain
<1>9. CASE UNCHANGED serverProcess
  BY <1>1, <1>9 DEF serverProcess, vars, serverVars
<1>10. QED
  BY <1>2, <1>3, <1>4, <1>5, <1>5r, <1>6, <1>7, <1>8, <1>9 DEF ServerNext

\* The server implements the process of Commands: whatever its calls do, they
\* take connections of the pools only while main serves, and have returned
\* them when it ends (mcp.go:41-77).
THEOREM ServerImplementsCommands == ServerSpec => ImplementsCommands
<1>1. ServerInit => Main!Init
  BY DEF ServerInit
<1>2. QED
  BY <1>1, StepIsCommand, ServerInvariant, PTL DEF ServerSpec, ImplementsCommands, Main!Spec

-----------------------------------------------------------------------------
(***************************************************************************)
(* What CommandsProofs shows of main and its handlers holds of the server. *)
(***************************************************************************)
LEMMA SameInit == Main!Init <=> Of!Init
  BY DEF Main!Init, Of!Init

LEMMA SameNext == [Main!Next]_(Main!vars) => [Of!Next]_(Of!vars)
<1> USE DEF Main!ClientOf, Of!ClientOf, Main!AfterClient, Of!AfterClient, Main!Unwind,
            Of!Unwind, Main!Defer, Of!Defer
<1>1. /\ Main!ReadConfiguration => Of!ReadConfiguration
      /\ Main!NotifyContext => Of!NotifyContext
      /\ Main!CreatePool => Of!CreatePool
      /\ Main!PingPool => Of!PingPool
      /\ Main!NewProvider => Of!NewProvider
      /\ Main!NewTicker => Of!NewTicker
      /\ Main!AddTools => Of!AddTools
      /\ Main!WorkEnds => Of!WorkEnds
  BY DEF Main!ReadConfiguration, Main!NotifyContext, Main!CreatePool, Main!PingPool,
         Main!NewProvider, Main!NewTicker, Main!AddTools, Main!WorkEnds,
         Of!ReadConfiguration, Of!NotifyContext, Of!CreatePool, Of!PingPool,
         Of!NewProvider, Of!NewTicker, Of!AddTools, Of!WorkEnds
<1>2. /\ Main!RunDeferred => Of!RunDeferred
      /\ Main!Exit => Of!Exit
      /\ Main!SignalArrives => Of!SignalArrives
  BY DEF Main!RunDeferred, Main!Exit, Main!SignalArrives, Main!SignalHandled,
         Of!RunDeferred, Of!Exit, Of!SignalArrives, Of!SignalHandled
<1>3. ASSUME NEW h \in Handlers
      PROVE  /\ Main!HandlerReleases(h) => Of!HandlerReleases(h)
             /\ \A pool \in Main!Pools : Main!HandlerAcquires(h, pool) => Of!HandlerAcquires(h, pool)
  BY DEF Main!HandlerReleases, Of!HandlerReleases, Main!HandlerAcquires, Of!HandlerAcquires
<1>4. Main!Pools = Of!Pools /\ Main!vars = Of!vars /\ Main!vars' = Of!vars'
  BY DEF Main!Pools, Of!Pools, Main!vars, Of!vars
<1>5. Main!Main => Of!Main
  BY <1>1, <1>2 DEF Main!Main, Of!Main
<1>6. QED
  BY <1>2, <1>3, <1>4, <1>5 DEF Main!Next, Of!Next

LEMMA CommandsInvariant == ServerSpec => []Of!Inv
<1>1. Main!Init => Of!Inv
  BY SameInit, Of!InvInit
<1>2. Of!Inv /\ [Main!Next]_(Main!vars) => Of!Inv'
  BY SameNext, Of!InvNext
<1>3. ServerSpec => Main!Spec
  BY ServerImplementsCommands DEF ImplementsCommands
<1>4. QED
  BY <1>1, <1>2, <1>3, PTL DEF Main!Spec

PoolsOutliveCalls ==
  /\ configConns # {} => "config" \in open
  /\ trends # {} => "metrics" \in open

ClosedAtExit ==
  mainPc = "exited" /\ mainResult # "killed" => open = {} /\ configConns = {} /\ trends = {}

\* No pool is closed under a call (mcp.go:41-77, db.go:55-57).
THEOREM ServerPoolsOutliveCalls == ServerSpec => []PoolsOutliveCalls
<1>1. LiveToolsInv /\ TrendsAlone /\ Of!Inv => PoolsOutliveCalls
  <2> SUFFICES ASSUME LiveToolsInv, TrendsAlone, Of!Inv, NEW h \in Handlers
               PROVE  /\ h \in configConns => "config" \in open
                      /\ h \in trends => "metrics" \in open
    BY DEF LiveToolsInv, Types, TrendsAlone, PoolsOutliveCalls
  <2>1. ~(h \in configConns /\ h \in trends)
    BY DEF LiveToolsInv, CallInv, Holds, TrendsAlone
  <2>2. Using[h] # "none" => open = {"metrics", "config"}
    BY DEF Of!Inv, Of!CommandsInv, Of!UsedWhileWorking, Of!Pools
  <2>3. QED
    BY <2>1, <2>2, UsingValues
<1>2. QED
  BY <1>1, ServerInvariant, CommandsInvariant, PTL

\* A server that is not killed exits with both pools closed, wherever its
\* start-up failed and whatever its calls were doing: none of them has a
\* connection of a pool then (mcp.go:41-51, 77).
THEOREM ServerPoolsClosedAtExit == ServerSpec => []ClosedAtExit
<1>1. ServerSpec => Of!Spec
  BY ServerImplementsCommands, SameInit, SameNext, PTL
  DEF ImplementsCommands, Main!Spec, Of!Spec
<1>2. ServerSpec => []Of!PoolsClosedAtExit
  BY <1>1, Of!PoolsAreClosedAtExit, PTL
<1>3. Of!PoolsClosedAtExit /\ PoolsOutliveCalls => ClosedAtExit
  BY DEF Of!PoolsClosedAtExit, PoolsOutliveCalls, ClosedAtExit
<1>4. QED
  BY <1>2, <1>3, ServerPoolsOutliveCalls, PTL
=============================================================================
