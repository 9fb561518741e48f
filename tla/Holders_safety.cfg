CONSTANTS
    alice = alice
    bob = bob
    zero = zero
    Holder = {alice, bob}
    Zero = zero
    Variants <- MintMoveBack
    UpgradedFrom = 2
    RpcAnswers = {3}
    StrikeLimit = 3
    MaxRestarts = 12
    MaxRewinds = 1
    MaxFaults = 1
SPECIFICATION Spec
CHECK_DEADLOCK FALSE
INVARIANT HoldersTypeOK
INVARIANT BalancesAreReplayed
INVARIANT StrikesAddUp
PROPERTY FatalIsFinal
PROPERTY HoldersCatchUp
