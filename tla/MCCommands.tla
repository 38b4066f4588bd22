------------------------------ MODULE MCCommands -----------------------------
(* Two handlers, so that each may hold a connection of a different pool.   *)
EXTENDS Commands

CONSTANTS h1, h2

MCHandlers == {h1, h2}
=============================================================================
