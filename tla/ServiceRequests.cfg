SPECIFICATION Spec
CONSTANTS
    Addr <- MCAddr
    Controlled <- MCControlled
    Scenarios <- AllRequests
    MaxBlockTxs = 2
    MaxLost = 1
    MaxFaults = 1
    Free = Free
    Engine = Engine
    Genesis = Genesis
    Unset = Unset
CHECK_DEADLOCK FALSE
INVARIANTS TypeOK InOnePlace 
PROPERTIES EveryRequestAnswered NonceUsedOrFree
