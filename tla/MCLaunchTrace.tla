---------------------------- MODULE MCLaunchTrace ----------------------------
(***************************************************************************)
(* Two backends with Debug spaces, one of them an accelerator, and one     *)
(* backend without a Debug space.                                          *)
(***************************************************************************)
EXTENDS LaunchTrace

CONSTANTS cuda, openmp, serial

MCBackends == {cuda, openmp, serial}
MCPromoted == {cuda, openmp}
MCAccelerators == {cuda}
=============================================================================
