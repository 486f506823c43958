SPECIFICATION Spec
CONSTANTS
  Heap <- MCHeap
  Private <- MCPrivate
  Cases <- MCCases
INVARIANTS
  NestingIsBounded
  OnlySelectedIsReported
  SelectedIsReported
  SilentMeansSame
  PatternsDenote
PROPERTY
  Terminates
