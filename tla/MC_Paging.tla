------------------------------ MODULE MC_Paging ------------------------------
(* Model-checking instance of Paging: model values for processes, pages,  *)
(* CPUs and the sentinels, and the symmetry of processes and of CPUs.     *)
EXTENDS Paging, TLC

CONSTANTS p1, p2, c1, c2, a1, a2, a3

\* Processes are interchangeable, and so are CPUs: nothing in Paging
\* orders them (frames and slots are ordered and are not permuted).
ProcCPUSymmetry == Permutations(Procs) \cup Permutations(CPUs)

\* Pages are interchangeable while no process forks or exits and there is no
\* heap: only as_copy, pgt_destroy and sbrk pick pages in an order.
PageSymmetry == Permutations(VAs)

\* Threads may run on any CPU (thread_consider_migration may move them).
AnyCPU == [t \in Threads |-> CPUs]

\* Threads stay on the CPU they were created on, as they do while the
\* load stays balanced: p1 and the daemon on c1, p2 on c2.
Pinned == [t \in Threads |-> IF t = p2 THEN {c2} ELSE {c1}]

\* The daemon runs on c2 and every process on c1: the daemon's write-outs
\* then shoot down the owner's entries by IPI.
DaemonApart == [t \in Threads |-> IF t = Daemon THEN {c2} ELSE {c1}]

\* No heap: every page is defined by as_define_region.
NoHeap == <<>>

\* One heap page, a2, above the defined page a1.
HeapA2 == <<a2>>

\* p2 is created by a fork of p1.
P1ForksP2 == {<<p1, p2>>}

=============================================================================
