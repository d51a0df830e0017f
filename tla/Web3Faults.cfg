SPECIFICATION Web3Spec
CONSTANTS
    Addr <- MCAddr
    Controlled <- MCControlled
    Scenarios <- Faults
    MaxBlockTxs = 2
    MaxLost = 1
    MaxFaults = 0
    Second = 4
    DurationLimit = 32
    DefaultUnlock = 3
    Free = Free
    Engine = Engine
    Genesis = Genesis
    Unset = Unset
CHECK_DEADLOCK FALSE
INVARIANTS Web3TypeOK NonceNotAhead NonceAssignedAlone Web3InOnePlace NotForGood
PROPERTIES Web3Answered OnlyPanicsBlock UnlockEnds BlocksGoOn
