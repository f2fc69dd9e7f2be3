CONSTANTS
    c1 = c1  c2 = c2
    Clients <- MCClients
    Transports <- MCTransports
    Group = Group  Nobody = Nobody  BACKLOG = 10
    COUNT = 2  MaxStarts <- MCStarts   MaxFaults = 1
SPECIFICATION FairSpec
INVARIANTS TypeOK ReadMeansAnswered PathLeftMeansKilled
PROPERTIES ExchangeEnds ReceiverEnds
CHECK_DEADLOCK FALSE
