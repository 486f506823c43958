SPECIFICATION Spec
CONSTANTS
  one = one
  two = two
  three = three
  four = four
  five = five
  Modes = {"compare"}
  Kinds = {"list"}
  PairsOf <- MCPairsOf
  OthersOf <- MCOthersOf
  NoItem <- MCNoItem
  MaxCalls = 1
  UseAfterError = FALSE
INVARIANTS
  SubtractionGivesT1
CHECK_DEADLOCK FALSE
