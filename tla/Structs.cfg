CONSTANTS
    SIZE_LIST = 10  Junk = Junk
    Hashes <- MCHashes
SPECIFICATION Spec
INVARIANTS TypeOK FreeSlot Kept Reachable
CHECK_DEADLOCK FALSE
