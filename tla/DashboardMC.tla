---------------------------- MODULE DashboardMC -----------------------------
(***************************************************************************)
(* A small instance of Dashboard: an int of 16 values and a minute of two  *)
(* milliseconds, so that three minutes still fit, four overflow to a       *)
(* negative number and nine to another duration.                           *)
(***************************************************************************)
EXTENDS Dashboard

SomeDurations == {0, 1, 3, 4, 9}
=============================================================================
