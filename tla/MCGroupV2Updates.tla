---------------------------- MODULE MCGroupV2Updates ----------------------------
(***************************************************************************)
(* Small instances of GroupV2Updates: the timer is changed at the second   *)
(* revision, and a message names the third.                                *)
(***************************************************************************)
EXTENDS GroupV2Updates

TimerIsChanged == [r \in Revisions |-> IF r = 1 THEN "off" ELSE "week"]

OneMessage == <<3>>
==============================================================================
