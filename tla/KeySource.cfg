SPECIFICATION FairKeySpec
CONSTANTS
    r1 = r1
    r2 = r2
    Readers = {r1, r2}
    Programs <- MCPrograms
    MaxWakes <- MCWakes
INVARIANTS KeysIntact BytesInTurn
PROPERTIES KeysArrive
CHECK_DEADLOCK FALSE
