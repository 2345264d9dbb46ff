SPECIFICATION FairStepsSpec
CONSTANTS
  p1 = p1
  p2 = p2
  p3 = p3
  f1 = f1
  f2 = f2
  Page <- ThreePages
  NoPage = NoPage
  Fiber <- OneFiber
  Serial = TRUE
  MaxStops = 2
PROPERTIES
  ImplementsPageTree
  RequestsEnd
  NothingTrashedForGood
CHECK_DEADLOCK FALSE
