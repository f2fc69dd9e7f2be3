CONSTANTS
    d1 = d1  d2 = d2  c1 = c1  c2 = c2
    Daemons <- MCDaemons
    Clients <- OneClient
    Configs <- MCConfigs
    ClientPath = "ots.socket"
    NoConfig = NoConfig  Nobody = Nobody
    MaxEdits = 1  MaxHups = 1  MaxKills = 1
SPECIFICATION FairSpec
PROPERTY ReloadKeepsServing
CHECK_DEADLOCK FALSE
