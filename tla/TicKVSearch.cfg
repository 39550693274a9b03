CONSTANTS
  k1 = k1
  k2 = k2
  small = small
  large = large
  NumRegions = 2
  S = 13
  HEADER_LENGTH = 2
  CHECK_SUM_LEN = 2
  Keys = {k1, k2}
  MainKey = MainKey
  Home <- MCHome
  Values = {small, large}
  Length <- MCLength
  NoValue = NoValue
  Orphan = Orphan
  Foreign = Foreign
SPECIFICATION Spec
INVARIANT FoundUnlessEmpty
