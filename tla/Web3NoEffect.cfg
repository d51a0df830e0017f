SPECIFICATION Web3Spec
CONSTANTS
    Addr <- MCAddr
    Controlled <- MCControlled
    Scenarios <- OneRaw
    MaxBlockTxs = 2
    MaxLost = 0
    MaxFaults = 0
    Second = 4
    DurationLimit = 32
    DefaultUnlock = 3
    Free = Free
    Engine = Engine
    Genesis = Genesis
    Unset = Unset
CHECK_DEADLOCK FALSE
PROPERTY Web3TxTakesEffect
