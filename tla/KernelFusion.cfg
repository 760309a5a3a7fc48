CONSTANTS
  x = x
  y = y
  sub = sub
  zero = zero
  inc = inc
  bump = bump
  copy = copy
  mirror = mirror
  first = first
  scale = scale
  scatter = scatter
  part = part
  sum = sum
  fill = fill
  None = None
  All = All
  Data = {x, y}
  Views = {x, y, sub}
  Base <- MCBase
  Indices = {"i", "next", "back", "held", "const"}
  Class <- MCClass
  Threads = {0, 1}
  Touches <- MCTouches
  Kernels = {zero, inc, bump, copy, mirror, first, scale, scatter, part, sum, fill}
  Kind <- MCKind
  Policy <- MCPolicy
  Accesses <- MCAccesses
  Takes = {scale}
  Strategy = "naive"
  MaxOps = 3
  MaxFailures = 1
SPECIFICATION Spec
INVARIANTS ReadsProgramOrder LookSeesLastWrite RunsOnce NeighboursDoNotRace
