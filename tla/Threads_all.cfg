CONSTANTS
    SyncModes   <- MCAllModes
    NCONSUMERS  = 2
    PRODUCE_CNT = 2
    CreateOutcomes <- MCMayFail
    UINT        = 4
    MaxSpurious = 1
SPECIFICATION FairSpec
INVARIANTS TypeOK ExclusiveCounters Conservation NoOverconsumption
PROPERTIES ShutdownCompletes WokenByBroadcast LedgerSpec
CHECK_DEADLOCK FALSE
