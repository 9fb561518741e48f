CONSTANTS
  r = r  a1 = a1  a2 = a2  b2 = b2  a3 = a3  a4 = a4
  usd = usd  eth = eth  alt = alt  pe = pe  pd = pd  pa = pa
  None = None
  Block <- BlocksM
  Num <- NumM
  Parent <- ParentM
  Line <- LineM
  Root = r
  MaxHeight = 4
  Token = {usd, eth, alt}
  Stable = {usd}
  Bridge = {eth}
  Pool = {pe, pd, pa}
  Token0 <- Token0M
  Token1 <- Token1M
  Clmm = {pe}
  Depth <- DepthM
  MinDepth = 2
  StaleAfter = 1
  Minute <- MinuteM
  MaxMinute = 3
  Events <- EventsM
  Unresolved = {alt}
  MaxRewinds = 2
  MaxStrays = 1
SPECIFICATION Spec
CHECK_DEADLOCK FALSE
INVARIANT MarketTypeOK
INVARIANT LatestIsNewest
INVARIANT RewindIsInvisible
INVARIANT PricesHaveAnOrigin
INVARIANT CandlesCountEachTradeOnce
INVARIANT CandlesAreContiguous
INVARIANT PendingCandlesAreFlagged
