CONSTANTS
  r = r  a1 = a1  b1 = b1  a2 = a2  b2 = b2  c2 = c2  a3 = a3  b3 = b3
  None = None
  Block <- Blocks3
  Num <- Num3
  Parent <- Parent3
  Line <- Line3
  Root = r
  MaxHeight = 3
  MaxReorgs = 3
  Seeded = FALSE
  StartBlock = 1
  BatchSize = 3
  TurboMode = TRUE
  MaxFaults = 2
SPECIFICATION AloneSpec
CHECK_DEADLOCK FALSE
INVARIANT LinkedChain
