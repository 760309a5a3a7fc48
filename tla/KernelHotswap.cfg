CONSTANTS
  main = main
  lib = lib
  work = work
  lazy = lazy
  None = None
  Files <- MCFiles
  Main = main
  Lines = {1, 2}
  Kernels <- MCKernels
  Calls <- MCCalls
  MaxDepth = 2
  MaxFailures = 1
  MaxKept = 1
SPECIFICATION Spec
INVARIANTS OneLaunchPerCall
PROPERTY TracedCallsSwapped
