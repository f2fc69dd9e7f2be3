CONSTANTS
    Modes <- MCModes
    COUNT = 10  CAPACITY = 10
    WIDTH = 9  READ = 55
    MaxStale = 4  MaxKills = 1
SPECIFICATION FairSpec
INVARIANTS TypeOK PipeReadToTheEnd RemovedWhenEmpty
PROPERTIES ChannelSpec SenderEnds ReceiverEnds
CHECK_DEADLOCK FALSE
