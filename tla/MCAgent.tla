------------------------------ MODULE MCAgent ------------------------------
(***************************************************************************)
(* Values for TLC: one tick of the scaled runs is 4 s, so that one request *)
(* and one Send differ; MCReal* count in 500 ms, the values of the code.   *)
(***************************************************************************)
EXTENDS Agent

MCBackoff == <<1>>
MCBudgets == 0 .. 3
MCRealBackoff == <<1, 2, 4>>
MCRealBudgets == 0 .. 24
=============================================================================
