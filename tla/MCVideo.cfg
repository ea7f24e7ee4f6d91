SPECIFICATION VideoSpec
CONSTANTS
  Cols = 10
  Rows = 6
  BufferSize = 4
  Styles <- MCStyles
  MaxLens <- MCMaxLens
  Keys <- MCKeys
  MaxKeys = 5
  MenuWidth = 10
  Xs <- MCXs
  Ys <- MCYs
  Ws <- MCWs
  Hs <- MCHs
  Texts <- MCTexts
  Lists <- MCLists
  Percents <- MCPercents
  Numbers <- MCNumbers
  Width = 24
  Height = 20
  Depth = 32
  Points <- MCPoints
  Radii <- MCRadii
  Sizes <- MCSizes
  BarXs <- MCBarXs
  BarYs <- MCBarYs
  Background <- MCBackground
INVARIANTS
  LineIsShown
  WidgetsAreWhole
  ShapeIsDrawn
  CursorLeavesNoTrace
PROPERTIES
  StaysInside
  DrawingEnds
CHECK_DEADLOCK FALSE
