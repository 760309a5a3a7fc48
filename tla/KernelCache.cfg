CONSTANTS
  OpenMP = OpenMP
  DebugOpenMP = DebugOpenMP
  DebugCuda = DebugCuda
  Spaces = {OpenMP, DebugOpenMP, DebugCuda}
  DebugSpaces = {DebugOpenMP, DebugCuda}
  None = None
  MaxVersion = 2
SPECIFICATION Spec
INVARIANTS ImportsABinary RunsParsedText LinesAreTheKernels
