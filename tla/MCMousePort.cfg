SPECIFICATION PortSpec
CONSTANTS
  MaxX = 5
  MaxY = 4
  IntMax = 511
  Reports <- MCReports
  Points <- MCPoints
  Sens <- MCSens
  MaxReports = 3
  MaxCalls = 1
  Configs <- MCConfigs
  Stray <- MCStray
  MaxBusy = 1
  MaxRefusals = 3
  MaxStray = 1
  Room = 4
INVARIANTS
  PointerOnScreen
  JunkIsBounded
  ReadyMeansReporting
  KeyboardIsKept
PROPERTIES
  ClearReportsAreTaken
  InitReturns
CHECK_DEADLOCK FALSE
