\* One writer thread, one buffer, the checkpointer, write-back and syncs.
CONSTANTS
    w1 = w1
    w2 = w2
    b1 = b1
    b2 = b2
    Writers = {w1}
    Bufs = {b1}
    Freemap = Freemap
    NoThread = NoThread
    MaxLsn = 6
    CheckpointBound = 2
SPECIFICATION Spec
INVARIANTS TypeOK NeededRetained TrimSafe
CHECK_DEADLOCK FALSE
