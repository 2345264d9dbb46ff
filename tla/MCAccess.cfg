SPECIFICATION AccessSpec
CONSTANTS
  p1 = p1
  p2 = p2
  p3 = p3
  w = w
  u1 = u1
  Page <- ThreePages
  NoPage = NoPage
  User <- TwoUsers
  Founder = w
  Writes <- SomeWrites
  MaxLocks = 2
SYMMETRY PageSymmetry
INVARIANTS
  ListAgreesWithCheck
PROPERTY
  WriteIsLocal
CHECK_DEADLOCK FALSE
