CONSTANTS
  Length = 2
  NoProcess = NoProcess
  MaxFooters = 2
  Kinds <- MCKinds
  Layouts <- MCLayouts
SPECIFICATION CheckerSpec
INVARIANT VerdictsFollowScan
CHECK_DEADLOCK FALSE
