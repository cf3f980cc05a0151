\* Two CPUs: one process with two pages on c1, the paging daemon on c2,
\* two frames, no stores (write faults dirty frames); write-outs shoot
\* the owner's TLB entries down by IPI.  Under the kernel's fairness
\* every write-out returns.
CONSTANTS
    Procs = {p1}
    VAs = {a1, a2}
    ReadOnlyVAs = {}
    CPUs = {c1, c2}
    Affinity <- DaemonApart
    Daemon = Daemon
    Daemons = {Daemon}
    NumFrames = 2
    KernelPages = 0
    NumSlots = 2
    TLBSize = 1
    MaxWrites = 0
    PagingDaemonThreshold = 50
    NoAS = NoAS
    NoVA = NoVA
    NoCPU = NoCPU
    NoThread = NoThread
    p1 = p1
    p2 = p2
    c1 = c1
    c2 = c2
    a1 = a1
    a2 = a2
    a3 = a3
    Heap <- HeapA2
    Exiting = {p1}
    Forks = {}
    MaxSbrk = 2
SPECIFICATION FairSpec
INVARIANTS
    NumDirtyCovers
    FrameMapConsistent
    BusyHeldByOne
    CleanFrameNotWritable
    SwapAccounted
PROPERTIES
    WriteOutReturns
    DestroyCompletes
