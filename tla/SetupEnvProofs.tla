--------------------------- MODULE SetupEnvProofs ---------------------------
(***************************************************************************)
(* Theorems about SetupEnv for every number of tenants and of failures:    *)
(* what a run, or the runs before it, registered is ready, and a completed *)
(* run covers all tenants.                                                 *)
(***************************************************************************)
EXTENDS SetupEnv, TLAPS

\* The tenants whose body the current loop has been through.
Before == 1..(tenant - 1)

\* How far the loops have come.  Nothing that exists is ever dropped, so what
\* one loop did for a tenant still holds in the next.
Progress ==
  /\ phase = "create database" => Before \subseteq databases
  /\ phase \in {"create statements", "create hypopg", "register", "complete"} =>
       Tenants \subseteq databases
  /\ phase = "create statements" => Before \subseteq statements
  /\ phase = "create hypopg" => Before \cup {tenant} \subseteq statements
  /\ phase \in {"register", "complete"} => Tenants \subseteq statements
  /\ phase = "register" => \A t \in Before : source[t] # "absent"
  /\ phase = "complete" => \A t \in Tenants : source[t] # "absent"

IInv == TypeOK /\ Progress /\ SourcesReady

-----------------------------------------------------------------------------
LEMMA InitInv == Init => IInv
<1> SUFFICES ASSUME Init PROVE IInv
  OBVIOUS
<1>1. 1 \in Tenants /\ 0 \in 0..MaxFailures
  BY SetupAssumption DEF SetupAssumption, Tenants
<1>2. TypeOK
  BY <1>1 DEF Init, TypeOK
<1>3. Progress /\ SourcesReady
  BY DEF Init, Progress, SourcesReady
<1>4. QED
  BY <1>2, <1>3 DEF IInv

\* The end of a loop body moves to the next tenant, or past the last one.
LEMMA EndOfBodyFacts ==
  ASSUME TypeOK, NEW body \in Loops, NEW next \in Loops \cup {"complete"},
         EndOfBody(body, next)
  PROVE  /\ tenant' \in Tenants
         /\ phase' \in Loops \cup {"complete"}
         /\ \/ phase' = body /\ tenant' = tenant + 1 /\ Before' = Before \cup {tenant}
            \/ phase' = next /\ tenant' = 1 /\ Before' = {} /\ Tenants = Before \cup {tenant}
<1>1. tenant \in 1..tenantCount /\ tenantCount \in Nat
  BY SetupAssumption DEF SetupAssumption, TypeOK, Tenants
<1>2. CASE tenant < tenantCount
  BY <1>1, <1>2 DEF EndOfBody, Tenants, Before
<1>3. CASE ~(tenant < tenantCount)
  BY <1>1, <1>3 DEF EndOfBody, Tenants, Before
<1>4. QED
  BY <1>2, <1>3

\* The INSERT leaves a row, and adds one only where there was none.
LEMMA InsertFacts ==
  ASSUME TypeOK, Insert
  PROVE  /\ source' \in [Tenants -> {"absent", "enabled", "disabled"}]
         /\ added' \subseteq added \cup {tenant}
         /\ source'[tenant] # "absent"
         /\ \A t \in Tenants : source[t] # "absent" => source'[t] = source[t]
<1>1. tenant \in Tenants
  BY DEF TypeOK
<1>2. CASE source[tenant] = "absent"
  BY <1>1, <1>2 DEF Insert, TypeOK
<1>3. CASE source[tenant] # "absent"
  BY <1>1, <1>3 DEF Insert, TypeOK
<1>4. QED
  BY <1>2, <1>3

LEMMA StepInv == IInv /\ [Next]_vars => IInv'
<1> SUFFICES ASSUME IInv, [Next]_vars PROVE IInv'
  OBVIOUS
<1> USE DEF IInv
<1>0. Before \subseteq Tenants /\ tenant \in Tenants
  <2>1. tenant \in 1..tenantCount /\ tenantCount \in Nat
    BY SetupAssumption DEF SetupAssumption, TypeOK, Tenants
  <2>2. \A t \in 1..(tenant - 1) : t \in 1..tenantCount
    BY <2>1
  <2>3. QED
    BY <2>1, <2>2 DEF Tenants, Before
<1>1. CASE Start
  <2>1. 1 \in Tenants /\ 1..(1 - 1) = {}
    BY SetupAssumption DEF SetupAssumption, Tenants
  <2>2. TypeOK'
    BY <1>1, <2>1 DEF Start, TypeOK, Loops
  <2>3. Progress'
    BY <1>1, <2>1 DEF Start, Progress, Before
  <2>4. SourcesReady'
    BY <1>1 DEF Start, SourcesReady
  <2>5. QED
    BY <2>2, <2>3, <2>4
<1>2. CASE CreateDatabase
  <2>1. EndOfBody("create database", "create statements")
    BY <1>2 DEF CreateDatabase
  <2>2. databases' = databases \cup {tenant}
    BY <1>2 DEF CreateDatabase
  <2>3. TypeOK'
    BY <1>0, <1>2, <2>1, <2>2, EndOfBodyFacts DEF CreateDatabase, TypeOK, Loops
  <2>4. Progress'
    <3>1. CASE phase' = "create database" /\ Before' = Before \cup {tenant}
      BY <1>2, <2>2, <3>1 DEF CreateDatabase, Progress
    <3>2. CASE phase' = "create statements" /\ Before' = {} /\ Tenants = Before \cup {tenant}
      BY <1>2, <2>2, <3>2 DEF CreateDatabase, Progress
    <3>3. QED
      BY <2>1, <3>1, <3>2, EndOfBodyFacts DEF Loops
  <2>5. SourcesReady'
    BY <1>2, <2>2 DEF CreateDatabase, SourcesReady
  <2>6. QED
    BY <2>3, <2>4, <2>5
<1>3. CASE CreateStatements
  <2>1. TypeOK'
    BY <1>0, <1>3 DEF CreateStatements, TypeOK, Loops
  <2>2. Progress'
    BY <1>3 DEF CreateStatements, Progress, Before
  <2>3. SourcesReady'
    BY <1>3 DEF CreateStatements, SourcesReady
  <2>4. QED
    BY <2>1, <2>2, <2>3
<1>4. CASE CreateHypopg
  <2>1. EndOfBody("create statements", "register")
    BY <1>4 DEF CreateHypopg
  <2>2. tenant \in databases
    BY <1>0, <1>4 DEF CreateHypopg, Progress
  <2>3. TypeOK'
    BY <1>0, <1>4, <2>1, <2>2, EndOfBodyFacts DEF CreateHypopg, TypeOK, Loops
  <2>4. Progress'
    <3>1. CASE phase' = "create statements" /\ Before' = Before \cup {tenant}
      BY <1>4, <3>1 DEF CreateHypopg, Progress
    <3>2. CASE phase' = "register" /\ Before' = {} /\ Tenants = Before \cup {tenant}
      BY <1>4, <3>2 DEF CreateHypopg, Progress
    <3>3. QED
      BY <2>1, <3>1, <3>2, EndOfBodyFacts DEF Loops
  <2>5. SourcesReady'
    BY <1>4 DEF CreateHypopg, SourcesReady
  <2>6. QED
    BY <2>3, <2>4, <2>5
<1>5. CASE Register
  <2>1. EndOfBody("register", "complete") /\ Insert
    BY <1>5 DEF Register
  <2>2. TypeOK'
    BY <1>0, <1>5, <2>1, EndOfBodyFacts, InsertFacts DEF Register, TypeOK, Loops
  <2>3. Progress'
    BY <1>0, <1>5, <2>1, EndOfBodyFacts, InsertFacts DEF Register, Progress, Loops
  <2>4. SourcesReady'
    BY <1>0, <1>5, <2>1, InsertFacts DEF Register, Progress, SourcesReady
  <2>5. QED
    BY <2>2, <2>3, <2>4
<1>6. CASE RunFails
  <2>1. phase' = "failed" /\ tenant' = tenant /\ failures' \in 0..MaxFailures
    <3>1. failures \in 0..MaxFailures /\ MaxFailures \in Nat
      BY SetupAssumption DEF SetupAssumption, TypeOK
    <3>2. /\ failures < MaxFailures /\ failures' = failures + 1
          /\ phase' = "failed" /\ UNCHANGED tenant
      BY <1>6 DEF RunFails
    <3>3. QED
      BY <3>1, <3>2
  <2>2. Progress'
    BY <2>1 DEF Progress
  <2>3. CASE UNCHANGED <<databases, statements, hypopg, source, added>>
    BY <2>1, <2>2, <2>3 DEF TypeOK, SourcesReady
  <2>4. CASE /\ phase = "create database" /\ databases' = databases \cup {tenant}
             /\ UNCHANGED <<statements, hypopg, source, added>>
    BY <1>0, <2>1, <2>2, <2>4 DEF TypeOK, SourcesReady
  <2>5. CASE /\ phase = "create statements"
             /\ statements' = statements \cup ({tenant} \cap databases)
             /\ UNCHANGED <<databases, hypopg, source, added>>
    BY <1>0, <2>1, <2>2, <2>5 DEF TypeOK, SourcesReady
  <2>6. CASE /\ phase = "create hypopg" /\ hypopg' = hypopg \cup {tenant}
             /\ UNCHANGED <<databases, statements, source, added>>
    BY <1>0, <2>1, <2>2, <2>6 DEF TypeOK, SourcesReady, Progress
  <2>7. CASE phase = "register" /\ Insert /\ UNCHANGED <<databases, statements, hypopg>>
    BY <1>0, <2>1, <2>2, <2>7, InsertFacts DEF TypeOK, SourcesReady, Progress
  <2>8. QED
    BY <1>6, <2>3, <2>4, <2>5, <2>6, <2>7 DEF RunFails
<1>7. ASSUME NEW t \in Tenants, Switch(t)
      PROVE  IInv'
  <2>1. source' \in [Tenants -> {"absent", "enabled", "disabled"}]
    BY <1>7 DEF Switch, TypeOK
  <2>2. \A u \in Tenants : source[u] # "absent" => source'[u] # "absent"
    BY <1>7 DEF Switch, TypeOK
  <2>3. TypeOK'
    BY <1>7, <2>1 DEF Switch, TypeOK
  <2>4. Progress'
    BY <1>0, <1>7, <2>2 DEF Switch, Progress, Before
  <2>5. SourcesReady'
    BY <1>7 DEF Switch, SourcesReady
  <2>6. QED
    BY <2>3, <2>4, <2>5
<1>8. CASE UNCHANGED vars
  BY <1>8 DEF vars, TypeOK, Progress, SourcesReady, Before
<1>9. QED
  BY <1>1, <1>2, <1>3, <1>4, <1>5, <1>6, <1>7, <1>8 DEF Next, Program

LEMMA Invariance == Spec => []IInv
  BY InitInv, StepInv, PTL DEF Spec

-----------------------------------------------------------------------------
\* Every variable has its type, whatever fails and however often the program is
\* run again; an extension exists only in a database that does
\* (main.go:48-118).
THEOREM TypeCorrect == Spec => []TypeOK
<1>1. IInv => TypeOK
  BY DEF IInv
<1>2. QED
  BY <1>1, Invariance, PTL

\* Whatever fails and however often the program is run again, a tenant that it
\* added to pgwatch has its database and pg_stat_statements (main.go:48-118).
THEOREM AddedSourcesReady == Spec => []SourcesReady
<1>1. IInv => SourcesReady
  BY DEF IInv
<1>2. QED
  BY <1>1, Invariance, PTL

\* A completed run leaves no tenant without database, extension or row, whatever
\* was there before it (main.go:120).
THEOREM CompletedRunsCover == Spec => []CompleteCoversAll
<1>1. IInv => CompleteCoversAll
  BY DEF IInv, Progress, CompleteCoversAll
<1>2. QED
  BY <1>1, Invariance, PTL

\* No step of the program, as opposed to its operator, changes the row of a
\* source that exists (main.go:100-103).
THEOREM OperatorsChoiceKept == Spec => SwitchesKept
<1> DEFINE Kept == phase # phase' \/ tenant # tenant' =>
             \A t \in Tenants : source[t] # "absent" => source'[t] = source[t]
<1>1. IInv /\ [Next]_vars => [Kept]_vars
  <2> SUFFICES ASSUME IInv, [Next]_vars, phase # phase' \/ tenant # tenant',
                      NEW t \in Tenants, source[t] # "absent"
               PROVE  source'[t] = source[t]
    OBVIOUS
  <2>1. TypeOK
    BY DEF IInv
  <2>2. CASE Insert
    BY <2>1, <2>2, InsertFacts
  <2>3. CASE ~Insert
    BY <2>3 DEF Next, Program, Start, CreateDatabase, CreateStatements, CreateHypopg,
                Register, RunFails, Switch, vars
  <2>4. QED
    BY <2>2, <2>3
<1>2. QED
  BY <1>1, Invariance, PTL DEF Spec, SwitchesKept
=============================================================================
