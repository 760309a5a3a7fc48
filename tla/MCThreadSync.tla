----------------------------- MODULE MCThreadSync -----------------------------
(***************************************************************************)
(* Threads in a kernel with a branch, a loop and a barrier: 1 to 3 or by   *)
(* way of 2; 3 back to 1, on to the barrier 4 or out.                      *)
(***************************************************************************)
EXTENDS ThreadSync

MCFlow == <<{2, 3}, {3}, {1, 4, 5}, {5}, {5}>>
=============================================================================
