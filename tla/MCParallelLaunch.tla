-------------------------- MODULE MCParallelLaunch --------------------------
(***************************************************************************)
(* Instances of ParallelLaunch for TLC: two arrays of the device, of which *)
(* one is big, one of the host, and a kernel of every sort: explicit,      *)
(* policy and default space, arguments of both kinds, marked and unmarked. *)
(***************************************************************************)
EXTENDS ParallelLaunch

CONSTANTS big, small, onHost

MCArrays == {big, small, onHost}
MCCupy == {big, small}
MCBig == {big}

Kernel(space, policy, args, mutable) ==
  [space |-> space, policy |-> policy, args |-> args, mutable |-> mutable]

MCKernels == {
  Kernel("none", "int", {small, onHost}, {}),
  Kernel("none", "host", {big, onHost}, {big}),
  Kernel("none", "device", {small, onHost}, {small, onHost}),
  Kernel("host", "int", {big, small, onHost}, {small}),
  Kernel("device", "int", {small}, {}),
  Kernel("device", "device", {small}, {small}),
  Kernel("device", "host", {big, small}, {big, small})}
=============================================================================
