CONSTANTS
  r = r  a1 = a1  b1 = b1  a2 = a2  c2 = c2
  None = None
  Block <- Blocks1
  Num <- Num1
  Parent <- Parent1
  Line <- Line1
  Root = r
  MaxHeight = 2
  MaxReorgs = 3
  Seeded = TRUE
  StartBlock = 0
  BatchSize = 2
  TurboMode = FALSE
  MaxFaults = 0
SPECIFICATION FairSpec
CHECK_DEADLOCK FALSE
PROPERTY ConvergesOnStoredAnchor
