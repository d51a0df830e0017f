SPECIFICATION Spec
CONSTANTS
    Callers <- Two
    Kinds <- ProgramKinds
    FaultyStop <- OneKind
    Enabled <- AllEndpoints
    MaxFuncs = 2
    MaxEpochs = 2
    MaxFaults = 2
CHECK_DEADLOCK FALSE
INVARIANTS TypeOK NoPanic NothingLeftOpen
PROPERTY WaitersReleased
