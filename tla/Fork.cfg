\* ex21, ex22 and ex23 with all their rounds; more lines than the pipe holds.
CONSTANTS
    Programs <- MCPrograms
    ROUNDS = 6  LISTING = 3  ROOM = 2
SPECIFICATION FairSpec
PROPERTIES PrintedInFull
CHECK_DEADLOCK FALSE
