CONSTANTS
  cpu = cpu
  cuda = cuda
  Kinds <- MCKinds
  Accelerators <- MCAccelerators
  Breakpoints = {b1}
  MaxHelpers = 3
  MaxLost = 1
SPECIFICATION FairSpec
INVARIANTS SessionsInv OneAttachedSession KernelIsDebugged RefusedOnlyAfterFailure
PROPERTIES HandoffEnds RunEnds
CHECK_DEADLOCK FALSE
