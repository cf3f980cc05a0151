\* One CPU, one process with three pages, the paging daemon, two frames:
\* eviction by the clock and write-out by the daemon race on one frame set.
CONSTANTS
    Procs = {p1}
    VAs = {a1, a2, a3}
    ReadOnlyVAs = {}
    CPUs = {c1}
    Affinity <- AnyCPU
    Daemon = Daemon
    Daemons = {Daemon}
    NumFrames = 2
    KernelPages = 0
    NumSlots = 3
    TLBSize = 1
    MaxWrites = 1
    PagingDaemonThreshold = 50
    NoAS = NoAS
    NoVA = NoVA
    NoCPU = NoCPU
    NoThread = NoThread
    p1 = p1
    p2 = p2
    c1 = c1
    c2 = c2
    a1 = a1
    a2 = a2
    a3 = a3
    Heap <- NoHeap
    Exiting = {}
    Forks = {}
    MaxSbrk = 0
SPECIFICATION Spec
SYMMETRY PageSymmetry
INVARIANTS
    TypeOK
    FrameMapConsistent
    BusyHeldByOne
    NoLostWrite
    TLBIsolation
    CleanFrameNotWritable
    NoEvictionSpin
