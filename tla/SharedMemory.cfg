CONSTANTS
    Modes <- MCModes
    COUNT = 3
SPECIFICATION FairSpec
INVARIANTS TypeOK AtMostOneAhead NeverBehind SizedBeforeUse
PROPERTIES Completes ReceiverEnds
CHECK_DEADLOCK FALSE
