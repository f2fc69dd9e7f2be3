CONSTANTS
    SyncModes   <- MCCond
    NCONSUMERS  = 2
    PRODUCE_CNT = 1
    CreateOutcomes <- MCNeverFails
    UINT        = 2
    MaxSpurious = 0
SPECIFICATION FairSpec
PROPERTY StopWakesConsumers
CHECK_DEADLOCK FALSE
