SPECIFICATION Spec
CONSTANTS
  p1 = p1
  p2 = p2
  p3 = p3
  Page <- ThreePages
  NoPage = NoPage
INVARIANTS
  TreeStaysATree
  NoDanglingParent
  TrashAccounted
PROPERTIES
  RestoreUndoesDelete
  PurgeTakesTheSubtree
  NothingHidden
CHECK_DEADLOCK FALSE
