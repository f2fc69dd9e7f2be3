CONSTANTS
    c1 = c1  c2 = c2  Listener = Listener  Nul = Nul
    Modes <- MCModes
    Clients <- MCClients
    ROUNDS = 2  TEXT = 2  CNT_TRYOUTS = 7
    MAX_FDS = 9  SIZE_BUFFER = 7  BACKLOG = 10
    MaxSplits = 1  MaxFaults = 1
SPECIFICATION FairSpec
INVARIANTS TypeOK OwnEcho EchoPerRound NotCutShort ServerSurvives
PROPERTIES ClientsEnd
CHECK_DEADLOCK FALSE
