SPECIFICATION TornSpec
CONSTANTS
  p1 = p1
  p2 = p2
  w = w
  u1 = u1
  u2 = u2
  Page <- OnePage
  NoPage = NoPage
  User <- TwoUsers
  Founder = w
  Writes <- Owners
  MaxLocks = 2
  MaxWrites = 2
SYMMETRY MemberSymmetry
INVARIANT
  TokenNamesContent
CHECK_DEADLOCK FALSE
