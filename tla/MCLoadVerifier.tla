---------------------------- MODULE MCLoadVerifier ----------------------------
(* A small and a large load test; the window is short enough for scrapes   *)
(* to leave it, and small loads can add up to more than the threshold.     *)
EXTENDS LoadVerifier

MCLoadSizes == {1, 3}
=============================================================================
