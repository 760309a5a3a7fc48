CONSTANTS
  cuda = cuda
  openmp = openmp
  serial = serial
  Int = Int
  None = None
  Backends <- MCBackends
  Promoted <- MCPromoted
  Accelerators <- MCAccelerators
  Teams = {team}
  Workunits = {w1, w2}
SPECIFICATION Spec
INVARIANTS KernelsAreDebug KindMatches HandedIsThisLaunch
