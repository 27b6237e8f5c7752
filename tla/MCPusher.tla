------------------------------ MODULE MCPusher ------------------------------
(***************************************************************************)
(* Values for TLC.  The scaled delays keep what decides the behaviour: a   *)
(* Send has time for one full request and a little more.                   *)
(***************************************************************************)
EXTENDS Pusher

MCBackoff == <<1>>
MCBudgets == {3}
=============================================================================
