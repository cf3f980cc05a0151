\* One CPU, one process with two pages and two frames: p1 forks p2.  The
\* copy of the first page keeps the child's frame busy until as_copy ends,
\* so page_get for the copy of the second page finds every frame busy.
CONSTANTS
    Procs = {p1, p2}
    VAs = {a1, a2}
    ReadOnlyVAs = {}
    CPUs = {c1}
    Affinity <- AnyCPU
    Daemon = Daemon
    Daemons = {}
    NumFrames = 2
    KernelPages = 0
    NumSlots = 4
    TLBSize = 1
    MaxWrites = 0
    PagingDaemonThreshold = 50
    NoAS = NoAS
    NoVA = NoVA
    NoCPU = NoCPU
    NoThread = NoThread
    p1 = p1
    p2 = p2
    c1 = c1
    c2 = c2
    a1 = a1
    a2 = a2
    a3 = a3
    Exiting = {}
    Forks <- P1ForksP2
    Heap <- NoHeap
    MaxSbrk = 0
SPECIFICATION Spec
INVARIANT NoEvictionSpin
