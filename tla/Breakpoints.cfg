CONSTANTS
  main = main
  lib = lib
  k1 = k1
  n1 = n1
  n2 = n2
  Files <- MCFiles
  Script = main
  Lines <- MCLines
  Kernels = {k1}
  AllLocs <- MCStepLines
SPECIFICATION Spec
INVARIANTS ExpectedMatches ArmedIsMapped
PROPERTY LostOnlyToDelete
