CONSTANTS
    alice = alice
    bob = bob
    dai0 = dai0
    dai = dai
    eth = eth
    None = None
    Wallet = {alice, bob}
    Token = {dai0, dai, eth}
    Successor <- Migrated
    Dust <- DustOf
    Transactions <- SmallTransactions
    MaxBlocks = 5
SPECIFICATION Spec
CHECK_DEADLOCK FALSE
INVARIANT LedgerTypeOK
INVARIANT HoldingsAreFlows
INVARIANT PnlIsProven
PROPERTY ReliefIsFifo
