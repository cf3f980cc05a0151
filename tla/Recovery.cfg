\* One writer, two blocks, checkpoints: the crash image after every prefix
\* of every run of at most MaxLog records.
CONSTANTS
    w1 = w1
    w2 = w2
    Writers = {w1}
    Blocks = {1, 2}
    ObjTypes = {1}
    MaxLog = 9
SPECIFICATION Spec
INVARIANTS TypeOK CommittedNoStaleData CommittedMetadataRecovered
CHECK_DEADLOCK FALSE
