SPECIFICATION Spec
CONSTANTS
  va = va
  vb = vb
  NoValue = NoValue
  MaxVersion = 5
  Value <- MCValue
INVARIANTS
  TypeOK
  NothingForgotten
  DirtyAboveClean
PROPERTY
  LatestNeverDecreases
