CONSTANTS
  r = r  a1 = a1  b1 = b1  a2 = a2  c2 = c2
  None = None
  Block <- Blocks1
  Num <- Num1
  Parent <- Parent1
  Line <- Line1
  Root = r
  MaxHeight = 2
  MaxReorgs = 2
  Seeded = TRUE
  StartBlock = 0
  BatchSize = 2
  TurboMode = TRUE
  MaxFaults = 1
SPECIFICATION Spec
CHECK_DEADLOCK FALSE
INVARIANTS
  TypeOK
  OneActiveRow
  StoredWithoutGaps
  FinalityAgrees
  FinalIsCanonical
  AnchorIsFinal
PROPERTIES
  CheckpointMoves
  LogSpec
