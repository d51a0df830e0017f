SPECIFICATION Spec
CONSTANTS
    Addr <- MCAddr
    Coinbase = "z"
    Tx <- MCTx
    Garbage = Garbage
    IntrinsicGas = 1
    GasLimit = 10
    Start <- MCStart
    Blocks <- OneBlock
    Handler = "h"
    Web3 <- NoCall
    Unset = Unset
INVARIANT TransfersConserve
