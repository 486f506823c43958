SPECIFICATION Spec
CONSTANTS
  one = one
  two = two
  three = three
  four = four
  five = five
  Modes = {"basic"}
  Kinds = {"tuple"}
  PairsOf <- MCTuplePairs
  OthersOf <- MCOthersOf
  NoItem <- MCNoItem
  MaxCalls = 1
  UseAfterError = FALSE
INVARIANTS
  AdditionGivesT2
CHECK_DEADLOCK FALSE
