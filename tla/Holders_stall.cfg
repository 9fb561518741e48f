CONSTANTS
    alice = alice
    bob = bob
    zero = zero
    Holder = {alice, bob}
    Zero = zero
    Variants <- FourGaps
    UpgradedFrom = 1
    RpcAnswers = {}
    StrikeLimit = 3
    MaxRestarts = 12
    MaxRewinds = 0
    MaxFaults = 0
SPECIFICATION Spec
CHECK_DEADLOCK FALSE
PROPERTY HoldersCatchUp
