-------------------------- MODULE MCKernelHotswap ---------------------------
(***************************************************************************)
(* Instances of KernelHotswap for TLC: a call of two lines in the script,  *)
(* which a jump can skip or not; in an imported module a call of one line  *)
(* and, on the next, the last of its function; two kernels.                *)
(***************************************************************************)
EXTENDS KernelHotswap

CONSTANTS main, lib, work, lazy

MCFiles == {main, lib}
MCKernels == {work, lazy}
MCCalls ==
  {[file |-> main, first |-> 1, last |-> 2, kernel |-> work, skippable |-> s] : s \in BOOLEAN}
  \cup {[file |-> lib, first |-> 1, last |-> 1, kernel |-> work, skippable |-> TRUE],
        [file |-> lib, first |-> 2, last |-> 2, kernel |-> work, skippable |-> FALSE]}
=============================================================================
