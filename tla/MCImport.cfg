SPECIFICATION ImportSpec
CONSTANTS
  p1 = p1
  p2 = p2
  p3 = p3
  p4 = p4
  d1 = d1
  d2 = d2
  r1 = r1
  r2 = r2
  a = a
  b = b
  t = t
  r = r
  Page <- FourPages
  NoPage = NoPage
  Database <- TwoDatabases
  Record <- TwoRecords
  NoRow = NoRow
  Item <- Items
  Root = Root
  NoKey = NoKey
  Exports <- SomeExports
  MaxImports = 3
  MaxRequests = 3
INVARIANTS
  OneCopy
  TreeStaysATree
PROPERTIES
  ImportSparesOthers
  ImportShows
CHECK_DEADLOCK FALSE
