SPECIFICATION FairInstanceSpec
CONSTANTS
  w1 = w1
  w2 = w2
  a = a
  x = x
  f1 = f1
  f2 = f2
  Workspace = {w1, w2}
  User = {a}
  Anonymous = {a}
  Upload = {x}
  Fiber = {f1, f2}
  KeepLast = 1
  MaxEvents = 6
INVARIANTS
  RowsHaveFiles
  OwnersExist
  TornIsRecoverable
PROPERTIES
  RestoreKeepsTheOld
  RestoresTheArchive
  DemosReclaimed
CHECK_DEADLOCK FALSE
