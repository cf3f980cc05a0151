\* One CPU, no daemon, no stores.  p1 has two pages and forks p2, which
\* then runs beside it; 3 frames for 4 pages, so the two processes evict
\* each other's pages and the copy's frames, and share the one TLB.
CONSTANTS
    Procs = {p1, p2}
    VAs = {a1, a2}
    ReadOnlyVAs = {}
    CPUs = {c1}
    Affinity <- AnyCPU
    Daemon = Daemon
    Daemons = {}
    NumFrames = 3
    KernelPages = 1
    NumSlots = 4
    TLBSize = 1
    MaxWrites = 0
    PagingDaemonThreshold = 50
    NoAS = NoAS
    NoVA = NoVA
    NoCPU = NoCPU
    NoThread = NoThread
    p1 = p1
    p2 = p2
    c1 = c1
    c2 = c2
    a1 = a1
    a2 = a2
    a3 = a3
    Exiting = {p2}
    Forks <- P1ForksP2
    Heap <- NoHeap
    MaxSbrk = 0
SPECIFICATION Spec
INVARIANTS
    FrameMapConsistent
    BusyHeldByOne
    TLBIsolation
    CleanFrameNotWritable
    SwapAccounted
    NoEvictionSpin
