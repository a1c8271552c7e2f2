SPECIFICATION FairSpec
CONSTANTS
    Engines = {e1}
    Senders = {s1}
    Requesters = {r1}
    Chip = chip
    NULL = NULL
    OBD_GATE_WAIT_MS = 2
    OBD_GATE_HOLD_MS = 2
    OG_RESERVE_MS = 2
    OG_POLL_MS = 1
    MaxPending = 1
    Punctual = TRUE
INVARIANTS TypeOK ReservedTurn Serialized RefusedIsNext
PROPERTIES AcquireReturns
