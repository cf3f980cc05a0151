\* p1 starts with stdout open; it may open the seekable file f1 and fork p2,
\* which may exit. Two descriptors per process and three file-table slots:
\* the two processes can share a handle, dup2 it and close it in any order.
CONSTANTS
    p1 = p1
    p2 = p2
    p3 = p3
    f1 = f1
    f2 = f2
    Procs = {p1, p2}
    FirstProc = p1
    BootFds = {1}
    Exiting = {p2}
    Vnodes = {Console, f1}
    Console = Console
    Seekable = {f1}
    OPEN_MAX = 2
    FD_FREE = 3
    MaxOff = 1
    OpenModes = {"O_RDWR"}
    NULL = NULL
    NoProc = NoProc
SPECIFICATION FairSpec
INVARIANTS
    TypeOK
    RefCountExact
    OffsetNotClobbered
PROPERTY
    RwCompletes
