\* Two writer threads share one buffer: a trim drops the START of a
\* committed transaction whose change is still only in memory.
CONSTANTS
    w1 = w1
    w2 = w2
    b1 = b1
    b2 = b2
    Writers = {w1, w2}
    Bufs = {b1}
    Freemap = Freemap
    NoThread = NoThread
    MaxLsn = 6
    CheckpointBound = 2
SPECIFICATION Spec
INVARIANT NeededRetained
CHECK_DEADLOCK FALSE
