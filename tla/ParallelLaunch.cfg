CONSTANTS
  big = big
  small = small
  onHost = onHost
  Arrays <- MCArrays
  Cupy <- MCCupy
  Big <- MCBig
  Kernels <- MCKernels
  MaxSlots = 2
SPECIFICATION FairSpec
INVARIANTS UnmarkedIsolated ResultsAreTrue NoWorkerLeft
PROPERTY CommandEnds
