SPECIFICATION RecordSpec
CONSTANTS
  p1 = p1
  p2 = p2
  p3 = p3
  d1 = d1
  r1 = r1
  r2 = r2
  Page <- ThreePages
  NoPage = NoPage
  Database <- OneDatabase
  Record <- TwoRecords
  NoRow = NoRow
SYMMETRY RecordSymmetry
INVARIANTS
  NoOrphanRows
  NoGhostPage
  OneBackingPage
PROPERTY
  PurgeSparesVisible
CHECK_DEADLOCK FALSE
