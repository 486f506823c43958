SPECIFICATION Spec
CONSTANTS
  one = one
  oneFloat = oneFloat
  two = two
  pair = pair
  pairFloat = pairFloat
  list = list
  Members <- MembersOf
  TypeOf <- TypesOf
  Value <- ValuesOf
  Numbers <- AllNumbers
  Unhashable <- Lists
  Inputs <- SomeInputs
  Filters <- SomeFilters
  NoValue = NoValue
  NotHashed = NotHashed
INVARIANTS
  HashesAreOwnUnlessShared
  EqualItemsMeet
