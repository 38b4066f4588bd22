----------------------------- MODULE MCMcpServer -----------------------------
(* Two handlers, one that evaluates indexes and one that lists locks, both *)
(* also asked for trends, over one monitored database and one config       *)
(* connection.                                                             *)
EXTENDS McpServer, TLC

CONSTANTS h1, h2, d1

MCHandlers  == {h1, h2}
MCDatabases == {d1}
MCRequests  == (h1 :> {"evaluate_hypothetical_index"}) @@ (h2 :> {"get_active_locks"})
=============================================================================
