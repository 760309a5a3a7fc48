-------------------------- MODULE MCNativeSessions --------------------------
(***************************************************************************)
(* Instances of NativeSessions for TLC: one gdb kind, whose helper is a    *)
(* GDBController, and one cuda-gdb kind.                                   *)
(***************************************************************************)
EXTENDS NativeSessions

CONSTANTS cpu, cuda

MCKinds == {cpu, cuda}
MCAccelerators == {cuda}
=============================================================================
