\* One writer, one block: a committed transaction reuses a data block, a
\* later transaction writes it and does not commit.
CONSTANTS
    w1 = w1
    w2 = w2
    Writers = {w1}
    Blocks = {1}
    ObjTypes = {1}
    MaxLog = 10
SPECIFICATION Spec
INVARIANT NoStaleData
CHECK_DEADLOCK FALSE
