CONSTANTS
  FopenMax = 2
  Names = {F, G}
  Bytes <- MCBytes
  Blocks = {b1, b2, b3}
  Null = Null
  Stale = Stale
  Wrap = 64
  Chunks <- MCChunks
  Lengths <- MCLengths
  Offsets <- MCOffsets
  MaxSize = 2
  Width = 8
  Words <- MCWords
  Strings <- MCStrings
  Needles <- MCNeedles
  Numbers <- MCNumbers
  Formats <- MCFormats
  Paths <- MCPaths
  Arrays <- MCArrays
SPECIFICATION LibrarySpec
SYMMETRY MCSymmetry
INVARIANTS CleanMeansSaved BuffersAreHeld ReadsTheFile CallsKeepTheirWord
CHECK_DEADLOCK FALSE
