\* Two CPUs, two processes with one page each, one frame, no stores: a
\* process that moves to another CPU leaves a TLB entry behind.
CONSTANTS
    Procs = {p1, p2}
    VAs = {a1}
    ReadOnlyVAs = {}
    CPUs = {c1, c2}
    Affinity <- AnyCPU
    Daemon = Daemon
    Daemons = {}
    NumFrames = 1
    KernelPages = 0
    NumSlots = 2
    TLBSize = 1
    MaxWrites = 0
    PagingDaemonThreshold = 50
    NoAS = NoAS
    NoVA = NoVA
    NoCPU = NoCPU
    NoThread = NoThread
    p1 = p1
    p2 = p2
    c1 = c1
    c2 = c2
    a1 = a1
    a2 = a2
    a3 = a3
    Heap <- NoHeap
    Exiting = {}
    Forks = {}
    MaxSbrk = 0
SPECIFICATION Spec
SYMMETRY ProcCPUSymmetry
INVARIANT TLBIsolation
