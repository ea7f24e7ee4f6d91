SPECIFICATION SFairSpec
CONSTANTS
  FatStart = 1
  FatSize = 2
  RootSectors = 1
  SPC = 1
  TotalSecs = 10
  Window = 10
  EPS = 3
  DPS = 3
  FileNames <- MCFiles
  DirNames <- MCDirs
  Sizes <- MCSizes
  MaxOps = 2
  Images <- MCImages
  MaxFails = 1
  MaxLosses = 1
INVARIANTS
  HaltIsSafe
CHECK_DEADLOCK FALSE
