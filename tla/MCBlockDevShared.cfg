SPECIFICATION Spec
CONSTANTS
  PartStart <- MCPartStart
  DiskSectors <- MCDiskSectors
  FatSectors <- MCFatSectors
  MaxDirty = 3
  Values = {v1, v2}
  Shared = {1}
  LateFaults = FALSE
PROPERTIES
  RamDiskIsPrivate
