SPECIFICATION Spec
CONSTANTS
    Addr <- MCAddr
    Controlled <- MCControlled
    Scenarios <- PreferredInput
    MaxBlockTxs = 2
    MaxLost = 1
    MaxFaults = 0
    Free = Free
    Engine = Engine
    Genesis = Genesis
    Unset = Unset
CHECK_DEADLOCK FALSE
PROPERTY EveryRequestAnswered
