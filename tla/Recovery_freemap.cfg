\* One writer, one block: a transaction frees a block a committed one
\* allocated, sfs_sync runs, a checkpoint trims.
CONSTANTS
    w1 = w1
    w2 = w2
    Writers = {w1}
    Blocks = {1}
    ObjTypes = {1}
    MaxLog = 6
SPECIFICATION Spec
INVARIANT RecoveredAllocated
CHECK_DEADLOCK FALSE
