SPECIFICATION FairSpec
CONSTANTS
  FatStart = 1
  FatSize = 2
  RootSectors = 1
  SPC = 2
  TotalSecs = 16
  Window = 15
  EPS = 4
  DPS = 4
  FileNames <- MCFiles
  DirNames <- MCDirs
  Sizes <- MCSizes
  MaxOps = 3
  Images <- MCImages
INVARIANTS
  OthersSurvive
  ChainsSound
  NoLeak
  CacheCoherent
PROPERTIES
  CallsReturn
CHECK_DEADLOCK FALSE
