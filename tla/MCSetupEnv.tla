------------------------------ MODULE MCSetupEnv -----------------------------
(* Three tenants: a loop has a first, a middle and a last one.  Failures are *)
(* bounded by MaxFailures, which the configurations set.                   *)
EXTENDS SetupEnv

=============================================================================
