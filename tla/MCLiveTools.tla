----------------------------- MODULE MCLiveTools -----------------------------
(* Two concurrent calls over one config connection; each monitored server *)
(* accepts fewer connections than there are calls.                         *)
EXTENDS LiveTools

CONSTANTS h1, h2, d1, d2

MCHandlers  == {h1, h2}
MCDatabases == {d1, d2}
=============================================================================
