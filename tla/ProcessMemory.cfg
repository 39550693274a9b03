CONSTANTS
  g1 = g1
  g2 = g2
  g3 = g3
  d1 = d1
  d2 = d2
  H = 32
  MemStart = 16
  MemEnd = 36
  Word = 4
  MinApp = 6
  KernSize = 4
  FlashStart = 4
  FlashEnd = 12
  Grants = {g1, g2, g3}
  Drivers = {d1, d2}
  DriverOf <- MCDriverOf
  GrantSize <- MCGrantSize
  GrantAlign <- MCGrantAlign
  Customs <- MCCustoms
  Addrs <- MCAddrs
  Ranges <- MCRanges
  MpuEnds = {24, 32}
  MaxIdent = 2
SPECIFICATION Spec
INVARIANTS LayoutOrdered BuffersAccessible GrantsIsolated EnteredFlagExact
PROPERTY MarksMoveOneWay
CHECK_DEADLOCK FALSE
