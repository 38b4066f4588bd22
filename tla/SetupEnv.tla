------------------------------- MODULE SetupEnv ------------------------------
(***************************************************************************)
(* cmd/setup_env: three loops over the tenants, which create a database    *)
(* for each, enable its extensions, and register it as a source of         *)
(* pgwatch.  The program is meant to be run again after a failure, on      *)
(* whatever the runs before left behind.                                   *)
(*                                                                         *)
(* A tenant is its number.  The operator's part is to run the program and  *)
(* to switch the sources on and off in pgwatch while it may be running.    *)
(***************************************************************************)
EXTENDS Integers

CONSTANTS
  tenantCount,  \* the number of tenants
  MaxFailures   \* bound on the runs that end early

ASSUME SetupAssumption ==
  /\ tenantCount \in Nat \ {0}
  /\ MaxFailures \in Nat

Tenants == 1..tenantCount

VARIABLES
  phase,       \* the loop the program is in, or how it ended
  tenant,      \* the loop's variable i
  databases,   \* the tenants whose database exists
  statements,  \* the databases with pg_stat_statements
  hypopg,      \* the databases with hypopg
  source,      \* pgwatch.source: the state of each tenant's row
  added,       \* the tenants whose row a run inserted (history)
  failures     \* the runs that ended early

vars == <<phase, tenant, databases, statements, hypopg, source, added, failures>>

Loops == {"create database", "create statements", "create hypopg", "register"}

\* Anything may be there before the first run.
Init ==
  /\ phase = "not started"
  /\ tenant = 1
  /\ databases \in SUBSET Tenants
  /\ statements \in SUBSET databases
  /\ hypopg \in SUBSET databases
  /\ source \in [Tenants -> {"absent", "enabled", "disabled"}]
  /\ added = {}
  /\ failures = 0

Start ==
  /\ phase \in {"not started", "failed", "complete"}
  /\ phase' = "create database"
  /\ tenant' = 1
  /\ UNCHANGED <<databases, statements, hypopg, source, added, failures>>

\* Mutants of EndOfBody: the loop ends one tenant late, or one early.
EndOfBodyLate(body, next) ==
  IF tenant <= tenantCount
  THEN phase' = body /\ tenant' = tenant + 1
  ELSE phase' = next /\ tenant' = 1

EndOfBodyEarly(body, next) ==
  IF tenant + 1 < tenantCount
  THEN phase' = body /\ tenant' = tenant + 1
  ELSE phase' = next /\ tenant' = 1

\* The loop body that begins with phase `body` is done for this tenant.
EndOfBody(body, next) ==
  IF tenant < tenantCount
  THEN phase' = body /\ tenant' = tenant + 1
  ELSE phase' = next /\ tenant' = 1

-----------------------------------------------------------------------------
\* Mutant of CreateDatabase: error 42P04 is fatal like the others.
CreateDatabaseOnce ==
  /\ phase = "create database"
  /\ databases' = databases \cup {tenant}
  /\ IF tenant \in databases
     THEN phase' = "failed" /\ UNCHANGED tenant
     ELSE EndOfBody("create database", "create statements")
  /\ UNCHANGED <<statements, hypopg, source, added, failures>>

\* A database that exists (error 42P04) is skipped.
CreateDatabase ==
  /\ phase = "create database"
  /\ databases' = databases \cup {tenant}
  /\ EndOfBody("create database", "create statements")
  /\ UNCHANGED <<statements, hypopg, source, added, failures>>

\* Mutant of CreateStatements: its failure is only a warning, like hypopg's.
CreateStatementsWarns ==
  /\ phase = "create statements"
  /\ tenant \in databases
  /\ statements' \in {statements, statements \cup {tenant}}
  /\ phase' = "create hypopg"
  /\ UNCHANGED <<tenant, databases, hypopg, source, added, failures>>

\* CREATE EXTENSION IF NOT EXISTS, in the tenant's own database.
CreateStatements ==
  /\ phase = "create statements"
  /\ tenant \in databases
  /\ statements' = statements \cup {tenant}
  /\ phase' = "create hypopg"
  /\ UNCHANGED <<tenant, databases, hypopg, source, added, failures>>

\* Where hypopg cannot be created (no package) a warning is logged.
CreateHypopg ==
  /\ phase = "create hypopg"
  /\ hypopg' \in {hypopg, hypopg \cup {tenant}}
  /\ EndOfBody("create statements", "register")
  /\ UNCHANGED <<databases, statements, source, added, failures>>

\* The row of the INSERT, which ON CONFLICT DO NOTHING drops if one exists.
Insert ==
  IF source[tenant] = "absent"
  THEN source' = [source EXCEPT ![tenant] = "enabled"] /\ added' = added \cup {tenant}
  ELSE UNCHANGED <<source, added>>

\* Mutant of Register: ON CONFLICT DO UPDATE.
RegisterOverwrites ==
  /\ phase = "register"
  /\ source' = [source EXCEPT ![tenant] = "enabled"]
  /\ added' = IF source[tenant] = "absent" THEN added \cup {tenant} ELSE added
  /\ EndOfBody("register", "complete")
  /\ UNCHANGED <<databases, statements, hypopg, failures>>

Register ==
  /\ phase = "register"
  /\ Insert
  /\ EndOfBody("register", "complete")
  /\ UNCHANGED <<databases, statements, hypopg, failures>>

(***************************************************************************)
(* A statement fails, the 60 seconds are over, or the process is killed:   *)
(* log.Fatalf ends the run.  The server may have executed the statement    *)
(* all the same.                                                           *)
(***************************************************************************)
RunFails ==
  /\ phase \in Loops
  /\ failures < MaxFailures
  /\ failures' = failures + 1
  /\ phase' = "failed"
  /\ \/ phase = "create database" /\ databases' = databases \cup {tenant}
        /\ UNCHANGED <<statements, hypopg, source, added>>
     \/ phase = "create statements" /\ statements' = statements \cup ({tenant} \cap databases)
        /\ UNCHANGED <<databases, hypopg, source, added>>
     \/ phase = "create hypopg" /\ hypopg' = hypopg \cup {tenant}
        /\ UNCHANGED <<databases, statements, source, added>>
     \/ phase = "register" /\ Insert
        /\ UNCHANGED <<databases, statements, hypopg>>
     \/ UNCHANGED <<databases, statements, hypopg, source, added>>
  /\ UNCHANGED tenant

\* The operator switches a source on or off in pgwatch.
Switch(t) ==
  /\ source[t] # "absent"
  /\ source' = [source EXCEPT ![t] = IF @ = "enabled" THEN "disabled" ELSE "enabled"]
  /\ UNCHANGED <<phase, tenant, databases, statements, hypopg, added, failures>>

Program ==
  \/ CreateDatabase
  \/ CreateStatements
  \/ CreateHypopg
  \/ Register

Next ==
  \/ Start
  \/ Program
  \/ RunFails
  \/ \E t \in Tenants : Switch(t)

Spec == Init /\ [][Next]_vars

(***************************************************************************)
(* Every statement ends, for ctx has a deadline, and the operator runs the *)
(* program again whenever a run is over.                                   *)
(***************************************************************************)
FairSpec == Spec /\ WF_vars(Start \/ Program)

-----------------------------------------------------------------------------
\* Every variable has its type, and an extension is in a database that exists.
TypeOK ==
  /\ phase \in Loops \cup {"not started", "failed", "complete"}
  /\ tenant \in Tenants
  /\ databases \subseteq Tenants
  /\ statements \subseteq databases
  /\ hypopg \subseteq databases
  /\ source \in [Tenants -> {"absent", "enabled", "disabled"}]
  /\ added \subseteq Tenants
  /\ failures \in 0..MaxFailures

(***************************************************************************)
(* A tenant that a run added to pgwatch is ready to be monitored: its      *)
(* database is there with pg_stat_statements, wherever that run, or one    *)
(* before it, failed (main.go:48-118).                                     *)
(***************************************************************************)
SourcesReady == added \subseteq databases \cap statements

(***************************************************************************)
(* A completed run leaves no tenant out: all have a database, an extension *)
(* and a row in pgwatch.source, whichever of them it found (main.go:120).  *)
(***************************************************************************)
CompleteCoversAll ==
  phase = "complete" =>
    \A t \in Tenants : t \in databases \cap statements /\ source[t] # "absent"

(***************************************************************************)
(* The operator's choice stands: no run switches a source that it finds,   *)
(* nor one that an earlier run added (main.go:100-103).                    *)
(***************************************************************************)
SwitchesKept ==
  [][phase # phase' \/ tenant # tenant' =>
       \A t \in Tenants : source[t] # "absent" => source'[t] = source[t]]_vars

(***************************************************************************)
(* The program can be run until it succeeds: whatever a failed run left    *)
(* behind does not make the runs after it fail (main.go:53-59).            *)
(***************************************************************************)
EventuallyComplete == []<>(phase = "complete")

(***************************************************************************)
(* What the final message says, "Extensions enabled : pg_stat_statements,  *)
(* hypopg" (main.go:122): on every tenant, as the counts around it.        *)
(***************************************************************************)
AnnouncedExtensions ==
  phase = "complete" => databases \subseteq statements \cap hypopg
=============================================================================
