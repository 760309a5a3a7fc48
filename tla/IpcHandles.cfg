CONSTANTS
  x = x
  y = y
  z = z
  a1 = a1
  a2 = a2
  NoArray = NoArray
  Expr = Expr
  Names <- MCNames
  Arrays <- MCArrays
  Calls <- MCCalls
  line <- MCLine
SPECIFICATION IpcSpec
SYMMETRY MCSymmetry
INVARIANTS LocalIsFresh ParameterIsGiven
