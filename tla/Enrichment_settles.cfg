CONSTANTS
    eth = eth
    usdc = usdc
    meme = meme
    w1 = w1
    user = user
    core = core
    pool = pool
    other = other
    Address = {user, core, pool, other}
    Height <- OneHeight
    Contents <- Reexecuted
    Listed = {eth, usdc}
    Token = {meme}
    Resolvable = {meme}
    JitterBps = 1
    Chainer = {}
    ChainBatch = 1
    SyncBatch = 1
    SeedLimit = 3
    RouteLimit = 1
    MatchBps = 2
    MaxRewinds = 1
    MaxFaults = 1
SPECIFICATION FairSpec
CHECK_DEADLOCK FALSE
PROPERTY DecimalsAreFound
