----------------------------- MODULE MCRegistry -----------------------------
(* Three goroutines and two names: two registrations, or a registration, a *)
(* lookup and a copy may all be in progress, and a copy may straddle the   *)
(* registrations of both names.                                            *)
EXTENDS Registry, TLC

CONSTANTS g1, g2, g3, n1, n2

MCGoroutines == {g1, g2, g3}
MCNames      == {n1, n2}
MCUses       == (g1 :> {"Register"}) @@ (g2 :> {"Register", "New"})
                  @@ (g3 :> {"New", "Get", "All"})
=============================================================================
