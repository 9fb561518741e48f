CONSTANTS
  r = r  a1 = a1  b1 = b1  a2 = a2  b2 = b2  a3 = a3  a4 = a4  b3 = b3
  w1 = w1  w2 = w2  w3 = w3
  None = None  Dead = Dead
  Block <- Blocks4
  Num <- Num4
  Parent <- Parent4
  Line <- Line4
  Root = r
  MaxHeight = 4
  MaxReorgs = 0
  Worker <- Workers3
  TotalWorkers = 2
  BackfillStart = 1
  BackfillEnd = 3
  ChunkSize = 2
  Lookahead = 1
  UseUnlogged = FALSE
  RestoreLogged = FALSE
  Operator = TRUE
  MaxFaults = 1
SPECIFICATION FairBackfillSpec
CHECK_DEADLOCK FALSE
PROPERTY CompletesOrExits
