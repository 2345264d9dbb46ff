SPECIFICATION FairEditorSpec
CONSTANTS
  MaxBlock = 4
  Block <- Blocks
  Html <- Htmls
  BlockType = {"paragraph", "bulletList"}
  MaxIndex = 6
  NoBlock = 0
  MaxOpening = 2
  MaxEvents = 4
INVARIANTS
  NothingHidden
  ScreenIsSaved
  PastLeadsBack
PROPERTIES
  RestructuringKeepsTheText
  SavingKeepsTheText
  EverythingSettles
CHECK_DEADLOCK FALSE
