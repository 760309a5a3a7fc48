----------------------------- MODULE MCKernelCache -----------------------------
(***************************************************************************)
(* A host space, its debug variant and an accelerator's.                   *)
(***************************************************************************)
EXTENDS KernelCache

CONSTANTS OpenMP, DebugOpenMP, DebugCuda
=============================================================================
