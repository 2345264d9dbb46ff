SPECIFICATION StepsSpec
CONSTANTS
  p1 = p1
  p2 = p2
  p3 = p3
  f1 = f1
  f2 = f2
  Page <- ThreePages
  NoPage = NoPage
  Fiber <- TwoFibers
  Serial = FALSE
  MaxStops = 0
INVARIANT
  TreeStaysATree
CHECK_DEADLOCK FALSE
