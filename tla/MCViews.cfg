SPECIFICATION ViewsSpec
CONSTANTS
  a = a
  b = b
  n = n
  yes = yes
  no = no
  f = f
  g = g
  r1 = r1
  r2 = r2
  r3 = r3
  v1 = v1
  v2 = v2
  t1 = t1
  t2 = t2
  Word <- Words
  Numeral <- Numerals
  True = yes
  False = no
  Place <- Places
  NoCell = NoCell
  Gone = Gone
  Field <- Columns
  Row <- AllRows
  FirstType <- TextAndCheckbox
  FirstRows <- TwoRows
  FirstCell <- SomeCells
  Tab <- Tabs
  View <- TwoViews
  None = None
  Missing = Missing
  Failed = Failed
  Loading = Loading
  All = All
  Unset = Unset
  Query <- SomeQueries
  Inputs <- SomeInputs
  Offered <- SomeTypes
  Referred = v1
  FirstViews <- OneView
  Budgets <- SomeBudgets
  MaxOut = 2
  MaxLoads = 2
INVARIANTS
  MultiHoldsLists
  ShownIsTheQuery
PROPERTIES
  ChoiceIsKept
  ReferenceCatchesUp
CHECK_DEADLOCK FALSE
