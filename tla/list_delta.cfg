SPECIFICATION Spec
CONSTANTS
  one = one
  two = two
  three = three
  four = four
  five = five
  Modes = {"basic", "zip", "dict", "compare", "unordered"}
  Kinds = {"list", "tuple"}
  PairsOf <- MCPairsOf
  OthersOf <- MCOthersOf
  NoItem <- MCNoItem
  MaxCalls = 3
  UseAfterError = FALSE
INVARIANTS
  ChangesAreVerified
  NoPlaceholderIsLeft
PROPERTIES
  MeetsContract
  RemovesWhatItNames
CHECK_DEADLOCK FALSE
