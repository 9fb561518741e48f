CONSTANTS
    alice = alice
    trade = trade
    Deposit <- TwoDeposits
    Undecodable = {}
    EthBatch = 2
    MaxEthBlocks = 2
    MaxUpsets = 1
    Wallet = {alice}
    WalletOf <- Alice
    AmountOf <- Equal
    UsdOf <- Equal
    RequireL1 = TRUE
    StarkTime <- ArriveLate
    Trade = {trade}
    Trader <- TradeOfAlice
    TradeBlock <- InFirstBlock
    TradeTime <- AfterArrival
    EthTime <- EthMinutes
    MatchWindow = 30
    LinkWindow = 1440
SPECIFICATION Spec
CHECK_DEADLOCK FALSE
INVARIANT BridgeTypeOK
INVARIANT MatchesAreMutual
INVARIANT EveryLogIsStored
INVARIANT VerifiedIsMatched
