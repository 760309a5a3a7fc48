--------------------------- MODULE MCBreakpoints ---------------------------
(***************************************************************************)
(* Instances of Breakpoints for TLC: two files that share a line number,   *)
(* and two lines.                                                          *)
(***************************************************************************)
EXTENDS Breakpoints

CONSTANTS main, lib, k1, n1, n2

MCFiles == {main, lib}
MCLines == {n1, n2}
MCStepLines == {n2}
=============================================================================
