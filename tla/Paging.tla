------------------------------- MODULE Paging -------------------------------
(***************************************************************************)
(* The demand-paging core of the kernel: the coremap, the per-process page *)
(* tables, page_get's clock eviction, page_write_out, page_swapin,         *)
(* vm_fault, TLB shootdown (inline or by IPI), the paging daemon, and the  *)
(* TLB flush that as_activate does when a thread with an address space is  *)
(* switched onto a CPU.                                                    *)
(*                                                                         *)
(* Every kernel step that runs with the coremap spinlock held is one       *)
(* action, and the spinlock is a variable: steps that need it wait for it, *)
(* and a thread holding it cannot be switched off its CPU.  User-mode      *)
(* loads and stores never take it: a store through a writable TLB entry    *)
(* goes straight to the frame, which is what makes the TLB protocol hard.  *)
(*                                                                         *)
(* Page contents are abstracted to a per-page write count: the n-th store  *)
(* to a page writes the value n, so a lost or misdirected store is visible *)
(* as a page whose content differs from the count its owner expects.       *)
(***************************************************************************)
EXTENDS Naturals, FiniteSets, FiniteSetsExt, Sequences

CONSTANTS
    Procs,        \* single-threaded user processes, one address space each
    VAs,          \* user pages defined (as_define_region) in every address space
    ReadOnlyVAs,  \* the pages among VAs defined without write permission
    CPUs,
    Affinity,     \* Affinity[t]: the CPUs thread t may be scheduled on
    Daemon,       \* the paging daemon kernel thread (paging_daemon_thread)
    Daemons,      \* {Daemon}, or {} to check the fault path without the daemon
    NumFrames,    \* user frames 1..NumFrames of the coremap
    KernelPages,  \* cm_num_kpages: counted in cm_num_pages, never paged
    NumSlots,     \* swap slots 1..NumSlots; slot 0 is reserved by swap_init
    TLBSize,      \* NUM_TLB entries per CPU
    MaxWrites,    \* bound on user stores to one page
    PagingDaemonThreshold, \* PAGING_DAEMON_THRESHOLD, in percent
    Heap,         \* the heap pages from as_heap_start up to STACK_MIN, in order
    MaxSbrk,      \* bound on sbrk calls per process
    Exiting,      \* the processes that exit (kern__exit) in a run
    Forks,        \* <<parent, child>>: the child is created by the parent's fork
    NoAS, NoVA, NoCPU, NoThread

ASSUME /\ ReadOnlyVAs \subseteq VAs
       /\ Daemon \notin Procs /\ Daemons \subseteq {Daemon}
       /\ NumFrames \in Nat \ {0} /\ NumSlots \in Nat \ {0}
       /\ TLBSize \in Nat \ {0} /\ MaxWrites \in Nat
       /\ Heap \in Seq(VAs \ ReadOnlyVAs) /\ MaxSbrk \in Nat
       /\ Exiting \subseteq Procs
       /\ Forks \subseteq Procs \X Procs

Frames  == 1..NumFrames
Slots   == 1..NumSlots
Threads == Procs \cup Daemons
Vals    == 0..MaxWrites
TLBIdx  == 1..TLBSize
NumPages == NumFrames + KernelPages   \* cm_num_pages
Children == {pc2[2] : pc2 \in Forks}  \* processes that start unborn

VARIABLES
    pt,          \* pt[p][v]: the pt_entry of page v in p's address space
    cm,          \* cm[f]: the cm_entry of frame f
    clockHead,   \* cm_clock_head
    numDirty,    \* cm_num_dirty
    swapUsed,    \* the swap bitmap, as the set of marked slots
    tlb,         \* tlb[c][i]: entry i of CPU c's TLB
    ipi,         \* ipi[c]: shootdown requests (vaddrs) queued for CPU c
    running,     \* running[c]: the thread on CPU c, or NoThread
    host,        \* host[t]: the CPU thread t runs on (curcpu), or NoCPU
    mem,         \* mem[f]: content of frame f
    disk,        \* disk[s]: content of swap slot s
    expected,    \* expected[p][v]: the last value p stored to v (ghost)
    pc,          \* pc[t]: where thread t is in the code
    loc,         \* loc[t]: thread t's locals
    cmLock,      \* holder of the coremap spinlock cm_lock, or NoThread
    coreWaiters, \* threads asleep on cm_wchan (busy bits)
    tlbWaiters,  \* threads asleep on cm_tlb_wchan (tlb bits)
    heap         \* heap[p]: as_heap_size in pages, and sbrk calls so far

vars == <<pt, cm, clockHead, numDirty, swapUsed, tlb, ipi, running, host,
          mem, disk, expected, pc, loc, cmLock, coreWaiters, tlbWaiters, heap>>

PTE == [valid: BOOLEAN, present: BOOLEAN, zeroed: BOOLEAN,
        writeable: BOOLEAN, ppn: 0..(NumFrames + NumSlots)]
CME == [as: Procs \cup {NoAS}, va: VAs \cup {NoVA}, swap: 0..NumSlots,
        cpu: CPUs \cup {NoCPU}, dirty: BOOLEAN, tlb: BOOLEAN, busy: BOOLEAN]
TLBE == [valid: BOOLEAN, va: VAs \cup {NoVA}, frame: 0..NumFrames, dirty: BOOLEAN]
Loc == [va: VAs \cup {NoVA}, kind: {"read", "write", "readonly", "fork", "forkIn"},
        rel: 0..NumFrames, frame: 0..NumFrames, slot: 0..NumSlots,
        ret: {"none", "woShoot", "getFinal"}, cursor: 1..NumFrames + Len(Heap) + 1,
        pages: 0..Len(Heap)]

\* A thread's locals outside vm_fault and the daemon loop (they are dead there).
NoLocals == [va |-> NoVA, kind |-> "read", rel |-> 0, frame |-> 0, slot |-> 0,
             ret |-> "none", cursor |-> 1, pages |-> 0]
InvalidTLBE == [valid |-> FALSE, va |-> NoVA, frame |-> 0, dirty |-> FALSE]
\* The coremap entry page_get leaves behind: only cme_exists (not modelled) and busy survive.
WipedCME(e) == [as |-> NoAS, va |-> NoVA, swap |-> 0, cpu |-> NoCPU,
                dirty |-> FALSE, tlb |-> FALSE, busy |-> e.busy]

-----------------------------------------------------------------------------
(* Helpers                                                                 *)

\* tlb_probe: the TLB index holding vaddr v on CPU c (no ASIDs are used).
Probe(c, v) == {i \in TLBIdx : tlb[c][i].valid /\ tlb[c][i].va = v}

\* vm_tlbshootdown for frame f of the coremap value cmv, called by thread t.
\* On the caller's own CPU the matching entry is invalidated at once and the
\* tlb waiters are woken; when no entry matches, the code jumps to cleanup
\* without clearing anything or waking anyone.  For another CPU the request
\* is queued and handled there later by HandleIPI.
Shootdown(t, f, cmv) ==
    LET target == cmv[f].cpu
        v == cmv[f].va
        hit == Probe(target, v)
    IN IF target = host[t]
       THEN IF hit = {}
            THEN [tlb |-> tlb, cm |-> cmv, ipi |-> ipi, tw |-> tlbWaiters]
            ELSE LET i == CHOOSE j \in hit : TRUE
                 IN [tlb |-> [tlb EXCEPT ![target][i] = InvalidTLBE],
                     cm |-> [cmv EXCEPT ![tlb[target][i].frame].tlb = FALSE],
                     ipi |-> ipi, tw |-> {}]
       ELSE [tlb |-> tlb, cm |-> cmv,
             ipi |-> [ipi EXCEPT ![target] = @ \cup {v}], tw |-> tlbWaiters]

\* as_activate's flush-all shootdown on CPU c: every entry is invalidated and
\* the coremap tlb bit of every frame it named is cleared.
FlushedCM(c) ==
    [f \in Frames |-> IF \E i \in TLBIdx : tlb[c][i].valid /\ tlb[c][i].frame = f
                      THEN [cm[f] EXCEPT !.tlb = FALSE] ELSE cm[f]]

\* pte_acquire's two tests on a PTE: it sleeps while the PTE is present and
\* its frame busy, and after waking it takes the frame only if the frame is
\* still present and owned by the caller's address space.
pte_acquire_waits(pte) == pte.present /\ cm[pte.ppn].busy
pte_acquire_takes(p, pte) == pte.present /\ cm[pte.ppn].as = p

\* swap_destroy_block: the slot's bit is cleared (if it was set).
swap_destroy_block(s) == swapUsed \ {s}

\* The heap pages, and the index of heap page v (1 at as_heap_start).
HeapPages == {Heap[i] : i \in 1..Len(Heap)}
HeapIndex(v) == CHOOSE i \in 1..Len(Heap) : Heap[i] = v

\* vm_fault's first test: a page at or above the heap top (and below the
\* stack) is no page of the process, and the fault fails with EFAULT.
OutOfHeap(p, v) == v \in HeapPages /\ HeapIndex(v) > heap[p].size

\* The page sbrk's shrink loop is at: heap top minus loc.cursor pages.
ShrinkVA(p) == Heap[heap[p].size - loc[p].cursor + 1]

\* swap_find_free: bitmap_alloc hands out the lowest clear bit.
swap_find_free == Min(Slots \ swapUsed)

\* Page v exists in p's address space: a defined or swapped-in page (valid),
\* or a heap page grown and not touched yet (demand-zero).
Exists(p, v) == pt[p][v].valid \/ pt[p][v].zeroed

\* Where page_get and page_swapin return to: vm_fault, or as_copy's copy
\* (page_get(0) for the child's frame) and swap-in of a parent page.
AfterGet(p) == IF loc[p].kind = "fork" THEN "forkCopy" ELSE "swapin"
AfterSwapin(p) == IF loc[p].kind = "forkIn" THEN "forkHave" ELSE "install"

\* The value page p of v holds now: in its frame, in swap, or demand-zero.
Content(p, v) ==
    IF pt[p][v].present THEN mem[pt[p][v].ppn]
    ELSE IF pt[p][v].zeroed THEN 0 ELSE disk[pt[p][v].ppn]

\* After page_write_out returns: the daemon goes on with its loop, a
\* faulting thread goes on with the rest of page_get.
WriteOutReturn(t) == IF t = Daemon THEN "dRet" ELSE "getFinal"

-----------------------------------------------------------------------------
Init ==
    \* Heap pages, and every page of a child before as_copy, start invalid
    \* (pgt_init); their other fields are left unset by the code.
    /\ pt = [p \in Procs |-> [v \in VAs |->
              IF v \in HeapPages \/ p \in Children
              THEN [valid |-> FALSE, present |-> FALSE, zeroed |-> FALSE,
                    writeable |-> FALSE, ppn |-> 0]
              ELSE [valid |-> TRUE, present |-> FALSE, zeroed |-> TRUE,
                    writeable |-> v \notin ReadOnlyVAs, ppn |-> 0]]]
    /\ cm = [f \in Frames |-> WipedCME([busy |-> FALSE])]
    /\ clockHead = 1
    /\ numDirty = 0
    /\ swapUsed = {}
    /\ tlb = [c \in CPUs |-> [i \in TLBIdx |-> InvalidTLBE]]
    /\ ipi = [c \in CPUs |-> {}]
    /\ running = [c \in CPUs |-> NoThread]
    /\ host = [t \in Threads |-> NoCPU]
    /\ mem = [f \in Frames |-> 0]
    /\ disk = [s \in Slots |-> 0]
    /\ expected = [p \in Procs |-> [v \in VAs |-> 0]]
    /\ pc = [t \in Threads |-> CASE t = Daemon -> "dIdle"
                                 [] t \in Children -> "unborn"
                                 [] OTHER -> "user"]
    /\ loc = [t \in Threads |-> NoLocals]
    /\ cmLock = NoThread
    /\ coreWaiters = {}
    /\ tlbWaiters = {}
    /\ heap = [p \in Procs |-> [size |-> 0, calls |-> 0]]

-----------------------------------------------------------------------------
(* User mode and scheduling                                                *)

\* A user load or store of page v by process p on its CPU.  A store through
\* a valid dirty entry reaches the frame with no kernel involvement; a miss
\* traps as VM_FAULT_READ or VM_FAULT_WRITE, a store to a clean entry as
\* VM_FAULT_READONLY.  A load that hits changes nothing and is not a step.
UserAccess(p, v) ==
    /\ pc[p] = "user" /\ host[p] # NoCPU
    /\ LET c == host[p]
           hit == Probe(c, v)
           Trap(k) == /\ pc' = [pc EXCEPT ![p] = "fault"]
                      /\ loc' = [loc EXCEPT ![p] = [@ EXCEPT !.va = v, !.kind = k,
                                                     !.rel = 0, !.frame = 0, !.slot = 0]]
                      /\ UNCHANGED <<mem, expected>>
       IN \/ /\ hit = {}
             /\ \E k \in {"read", "write"} : Trap(k)
          \/ /\ hit # {}
             /\ LET e == tlb[c][CHOOSE i \in hit : TRUE]
                IN \/ /\ e.dirty /\ expected[p][v] < MaxWrites
                      /\ mem' = [mem EXCEPT ![e.frame] = expected[p][v] + 1]
                      /\ expected' = [expected EXCEPT ![p][v] = @ + 1]
                      /\ UNCHANGED <<pc, loc>>
                   \/ /\ ~e.dirty /\ expected[p][v] < MaxWrites
                      /\ Trap("readonly")
    /\ UNCHANGED <<pt, cm, clockHead, numDirty, swapUsed, tlb, ipi, running, host,
                   disk, cmLock, coreWaiters, tlbWaiters, heap>>

\* thread_switch puts runnable thread t on idle CPU c; for a thread of a
\* process with an address space, as_activate flushes c's whole TLB
\* (vm_tlbshootdown with tlbs_flush_all, which takes cm_lock).  Kernel-only
\* threads such as the daemon have no address space and flush nothing.
Schedule(c, t) ==
    /\ running[c] = NoThread /\ host[t] = NoCPU
    /\ c \in Affinity[t]
    /\ pc[t] \notin {"segv", "destroy", "destroyFree", "dead", "unborn"}
    /\ ~(pc[t] \in {"fault", "sbrk"} /\ t \in coreWaiters)
    /\ ~(pc[t] = "tlbSleep" /\ t \in tlbWaiters)
    /\ running' = [running EXCEPT ![c] = t]
    /\ host' = [host EXCEPT ![t] = c]
    /\ IF t \in Procs
       THEN /\ cmLock = NoThread
            /\ tlb' = [tlb EXCEPT ![c] = [i \in TLBIdx |-> InvalidTLBE]]
            /\ cm' = FlushedCM(c)
            /\ tlbWaiters' = {}
       ELSE UNCHANGED <<tlb, cm, tlbWaiters>>
    /\ UNCHANGED <<pt, clockHead, numDirty, swapUsed, ipi, mem, disk, expected,
                   pc, loc, cmLock, coreWaiters, heap>>

\* Preemption or blocking takes a thread off its CPU, never while it holds
\* the spinlock (spinlock_acquire raises the interrupt level).
Deschedule(c) ==
    /\ running[c] # NoThread
    /\ cmLock # running[c]
    /\ running' = [running EXCEPT ![c] = NoThread]
    /\ host' = [host EXCEPT ![running[c]] = NoCPU]
    /\ UNCHANGED <<pt, cm, clockHead, numDirty, swapUsed, tlb, ipi, mem, disk,
                   expected, pc, loc, cmLock, coreWaiters, tlbWaiters, heap>>

\* Mutant: the shootdown handler clears the entry but wakes nobody.
HandleIPI_no_wake(c, v) ==
    /\ v \in ipi[c]
    /\ cmLock = NoThread
    /\ LET hit == Probe(c, v)
       IN IF hit = {}
          THEN UNCHANGED <<tlb, cm, tlbWaiters>>
          ELSE LET i == CHOOSE j \in hit : TRUE
               IN /\ tlb' = [tlb EXCEPT ![c][i] = InvalidTLBE]
                  /\ cm' = [cm EXCEPT ![tlb[c][i].frame].tlb = FALSE]
                  /\ UNCHANGED tlbWaiters
    /\ ipi' = [ipi EXCEPT ![c] = @ \ {v}]
    /\ UNCHANGED <<pt, clockHead, numDirty, swapUsed, running, host, mem, disk,
                   expected, pc, loc, cmLock, coreWaiters, heap>>

\* The shootdown IPI for vaddr v handled on CPU c: vm_tlbshootdown on the
\* target CPU, which takes cm_lock.  Without a matching entry it neither
\* clears a tlb bit nor wakes the waiters.
HandleIPI(c, v) ==
    /\ v \in ipi[c]
    /\ cmLock = NoThread
    /\ LET hit == Probe(c, v)
       IN IF hit = {}
          THEN UNCHANGED <<tlb, cm, tlbWaiters>>
          ELSE LET i == CHOOSE j \in hit : TRUE
               IN /\ tlb' = [tlb EXCEPT ![c][i] = InvalidTLBE]
                  /\ cm' = [cm EXCEPT ![tlb[c][i].frame].tlb = FALSE]
                  /\ tlbWaiters' = {}
    /\ ipi' = [ipi EXCEPT ![c] = @ \ {v}]
    /\ UNCHANGED <<pt, clockHead, numDirty, swapUsed, running, host, mem, disk,
                   expected, pc, loc, cmLock, coreWaiters, heap>>

-----------------------------------------------------------------------------
(* vm_fault and the paging path                                           *)

\* Mutant: pte_acquire does not wait for a busy frame.
vm_fault_acquire_ignores_busy(p) ==
    /\ pc[p] = "fault" /\ host[p] # NoCPU
    /\ p \notin coreWaiters
    /\ \/ /\ OutOfHeap(p, loc[p].va)
          /\ pc' = [pc EXCEPT ![p] = "segv"]
          /\ UNCHANGED <<cm, loc, cmLock, coreWaiters>>
       \/ /\ ~OutOfHeap(p, loc[p].va)
          /\ cmLock = NoThread
          /\ LET pte == pt[p][loc[p].va]
             IN IF FALSE
                THEN /\ coreWaiters' = coreWaiters \cup {p}
                     /\ UNCHANGED <<cm, pc, loc, cmLock>>
                ELSE LET owned == pte_acquire_takes(p, pte)
                     IN /\ cmLock' = p
                        /\ cm' = IF owned THEN [cm EXCEPT ![pte.ppn].busy = TRUE] ELSE cm
                        /\ loc' = [loc EXCEPT ![p].rel = IF owned THEN pte.ppn ELSE 0]
                        /\ pc' = [pc EXCEPT ![p] = IF ~pte.present \/ pte.zeroed
                                                   THEN "get" ELSE "install"]
                        /\ UNCHANGED coreWaiters
    /\ UNCHANGED <<pt, clockHead, numDirty, swapUsed, tlb, ipi, running, host,
                   mem, disk, expected, tlbWaiters, heap>>

\* vm_fault up to pte_acquire: a page above the heap top fails with EFAULT
\* (the process is killed).  Otherwise take cm_lock, and if the PTE is present but
\* its frame busy, sleep on cm_wchan (to re-run pte_acquire when woken).
\* Otherwise mark the owned frame busy and either fault the page in
\* (absent or demand-zero) or go straight to the TLB install.
vm_fault_acquire(p) ==
    /\ pc[p] = "fault" /\ host[p] # NoCPU
    /\ p \notin coreWaiters
    /\ \/ /\ OutOfHeap(p, loc[p].va)
          /\ pc' = [pc EXCEPT ![p] = "segv"]
          /\ UNCHANGED <<cm, loc, cmLock, coreWaiters>>
       \/ /\ ~OutOfHeap(p, loc[p].va)
          /\ cmLock = NoThread
          /\ LET pte == pt[p][loc[p].va]
             IN IF pte_acquire_waits(pte)
                THEN /\ coreWaiters' = coreWaiters \cup {p}
                     /\ UNCHANGED <<cm, pc, loc, cmLock>>
                ELSE LET owned == pte_acquire_takes(p, pte)
                     IN /\ cmLock' = p
                        /\ cm' = IF owned THEN [cm EXCEPT ![pte.ppn].busy = TRUE] ELSE cm
                        /\ loc' = [loc EXCEPT ![p].rel = IF owned THEN pte.ppn ELSE 0]
                        /\ pc' = [pc EXCEPT ![p] = IF ~pte.present \/ pte.zeroed
                                                   THEN "get" ELSE "install"]
                        /\ UNCHANGED coreWaiters
    /\ UNCHANGED <<pt, clockHead, numDirty, swapUsed, tlb, ipi, running, host,
                   mem, disk, expected, tlbWaiters, heap>>

\* Mutant: the swap slot is chosen without looking at the bitmap.
StartWriteOut_ignores_bitmap(t, f, cmv) ==
    LET e == cmv[f]
        slot == IF e.swap = 0 THEN Min(Slots) ELSE e.swap
    IN /\ e.swap = 0 => swapUsed # Slots
       /\ swapUsed' = swapUsed \cup {slot}
       /\ pt' = IF e.swap = 0 THEN [pt EXCEPT ![e.as][e.va].zeroed = FALSE] ELSE pt
       /\ cm' = cmv
       /\ cmLock' = NoThread
       /\ pc' = [pc EXCEPT ![t] = "woIO"]
       /\ loc' = [loc EXCEPT ![t].frame = f, ![t].slot = slot]

\* page_write_out up to the swap write, with the victim already busy in cmv:
\* a frame without a swap slot gets the lowest free one (swap_find_free),
\* and its PTE stops being demand-zero; then cm_lock is released for the I/O.
StartWriteOut(t, f, cmv) ==
    LET e == cmv[f]
        slot == IF e.swap = 0 THEN swap_find_free ELSE e.swap
    IN /\ e.swap = 0 => swapUsed # Slots
       /\ swapUsed' = swapUsed \cup {slot}
       /\ pt' = IF e.swap = 0 THEN [pt EXCEPT ![e.as][e.va].zeroed = FALSE] ELSE pt
       /\ cm' = cmv
       /\ cmLock' = NoThread
       /\ pc' = [pc EXCEPT ![t] = "woIO"]
       /\ loc' = [loc EXCEPT ![t].frame = f, ![t].slot = slot]

\* page_get(1), called from page_swapin with both locks held.  First pass:
\* the lowest free frame.  The second (clean page) pass looks for a frame
\* with no owner and a swap slot: any such frame not busy was already taken
\* by the first pass, so it never finds one and its loop brings the clock
\* hand back to where it started.  Third pass: the first frame from the
\* clock hand on that is not busy, written out by page_write_out; when
\* every frame is busy the do-while loop spins with cm_lock held.
page_get(p) ==
    /\ pc[p] = "get" /\ cmLock = p
    /\ LET free == {f \in Frames : cm[f].as = NoAS /\ ~cm[f].busy}
           order == [k \in 0..NumFrames - 1 |-> ((clockHead - 1 + k) % NumFrames) + 1]
           cand == {k \in 0..NumFrames - 1 : ~cm[order[k]].busy}
       IN \/ /\ free # {}
             /\ LET f == Min(free)
                IN /\ cm' = [cm EXCEPT ![f].busy = TRUE]
                   /\ loc' = [loc EXCEPT ![p].frame = f]
                   /\ pc' = [pc EXCEPT ![p] = AfterGet(p)]
             /\ UNCHANGED <<pt, clockHead, swapUsed, cmLock>>
          \/ /\ free = {} /\ cand = {}
             /\ pc' = [pc EXCEPT ![p] = "spin"]
             /\ UNCHANGED <<pt, cm, clockHead, swapUsed, loc, cmLock>>
          \/ /\ free = {} /\ cand # {}
             /\ LET f == order[Min(cand)]
                IN /\ clockHead' = (f % NumFrames) + 1
                   /\ StartWriteOut(p, f, [cm EXCEPT ![f].busy = TRUE])
    /\ UNCHANGED <<numDirty, tlb, ipi, running, host, mem, disk, expected,
                   coreWaiters, tlbWaiters, heap>>

\* Mutant: cm_num_dirty is decremented whether or not the frame was dirty.
page_write_out_io_undirty_always(t) ==
    /\ pc[t] = "woIO" /\ host[t] # NoCPU
    /\ cmLock = NoThread
    /\ LET f == loc[t].frame
       IN /\ disk' = [disk EXCEPT ![loc[t].slot] = mem[f]]
          /\ numDirty' = numDirty - 1
          /\ cm' = [cm EXCEPT ![f].dirty = FALSE, ![f].swap = loc[t].slot]
    /\ cmLock' = t
    /\ pc' = [pc EXCEPT ![t] = "woShoot"]
    /\ UNCHANGED <<pt, clockHead, swapUsed, tlb, ipi, running, host, mem,
                   expected, loc, coreWaiters, tlbWaiters, heap>>

\* page_write_out after swap_write: the frame is copied to its slot, cm_lock
\* is taken again, and the frame is marked clean with its slot recorded.
page_write_out_io(t) ==
    /\ pc[t] = "woIO" /\ host[t] # NoCPU
    /\ cmLock = NoThread
    /\ LET f == loc[t].frame
       IN /\ disk' = [disk EXCEPT ![loc[t].slot] = mem[f]]
          /\ numDirty' = IF cm[f].dirty THEN numDirty - 1 ELSE numDirty
          /\ cm' = [cm EXCEPT ![f].dirty = FALSE, ![f].swap = loc[t].slot]
    /\ cmLock' = t
    /\ pc' = [pc EXCEPT ![t] = "woShoot"]
    /\ UNCHANGED <<pt, clockHead, swapUsed, tlb, ipi, running, host, mem,
                   expected, loc, coreWaiters, tlbWaiters, heap>>

\* Mutant: page_write_out returns without shooting the TLB entry down.
page_write_out_shoot_skipped(t) ==
    /\ pc[t] = "woShoot" /\ cmLock = t
    /\ LET f == loc[t].frame
       IN IF FALSE
          THEN LET r == Shootdown(t, f, cm)
               IN /\ tlb' = r.tlb /\ cm' = r.cm /\ ipi' = r.ipi /\ tlbWaiters' = r.tw
                  /\ pc' = [pc EXCEPT ![t] = "tlbWait"]
                  /\ loc' = [loc EXCEPT ![t].ret = "woShoot"]
          ELSE /\ pc' = [pc EXCEPT ![t] = WriteOutReturn(t)]
               /\ UNCHANGED <<tlb, cm, ipi, tlbWaiters, loc>>
    /\ UNCHANGED <<pt, clockHead, numDirty, swapUsed, running, host, mem, disk,
                   expected, cmLock, coreWaiters, heap>>

\* page_write_out's tail: "update tlb as clean" by shooting down the entry
\* of a frame whose tlb bit is set and waiting for the bit to clear.
page_write_out_shoot(t) ==
    /\ pc[t] = "woShoot" /\ cmLock = t
    /\ LET f == loc[t].frame
       IN IF cm[f].tlb
          THEN LET r == Shootdown(t, f, cm)
               IN /\ tlb' = r.tlb /\ cm' = r.cm /\ ipi' = r.ipi /\ tlbWaiters' = r.tw
                  /\ pc' = [pc EXCEPT ![t] = "tlbWait"]
                  /\ loc' = [loc EXCEPT ![t].ret = "woShoot"]
          ELSE /\ pc' = [pc EXCEPT ![t] = WriteOutReturn(t)]
               /\ UNCHANGED <<tlb, cm, ipi, tlbWaiters, loc>>
    /\ UNCHANGED <<pt, clockHead, numDirty, swapUsed, running, host, mem, disk,
                   expected, cmLock, coreWaiters, heap>>

\* while (cme->cme_tlb) wchan_sleep(cm_tlb_wchan, cm_lock)
TlbWait(t) ==
    /\ pc[t] = "tlbWait" /\ cmLock = t
    /\ IF cm[loc[t].frame].tlb
       THEN /\ tlbWaiters' = tlbWaiters \cup {t}
            /\ cmLock' = NoThread
            /\ pc' = [pc EXCEPT ![t] = "tlbSleep"]
       ELSE /\ pc' = [pc EXCEPT ![t] = loc[t].ret]
            /\ UNCHANGED <<tlbWaiters, cmLock>>
    /\ UNCHANGED <<pt, cm, clockHead, numDirty, swapUsed, tlb, ipi, running, host,
                   mem, disk, expected, loc, coreWaiters, heap>>

\* Woken from cm_tlb_wchan: wchan_sleep takes cm_lock again.
TlbWake(t) ==
    /\ pc[t] = "tlbSleep" /\ t \notin tlbWaiters /\ host[t] # NoCPU
    /\ cmLock = NoThread
    /\ cmLock' = t
    /\ pc' = [pc EXCEPT ![t] = "tlbWait"]
    /\ UNCHANGED <<pt, cm, clockHead, numDirty, swapUsed, tlb, ipi, running, host,
                   mem, disk, expected, loc, coreWaiters, tlbWaiters, heap>>

\* Mutant: the evicted page's PTE keeps pte_present set.
page_get_final_keeps_present(p) ==
    /\ pc[p] = "getFinal" /\ cmLock = p
    /\ LET f == loc[p].frame
           e == cm[f]
       IN IF e.tlb
          THEN LET r == Shootdown(p, f, cm)
               IN /\ tlb' = r.tlb /\ cm' = r.cm /\ ipi' = r.ipi /\ tlbWaiters' = r.tw
                  /\ pc' = [pc EXCEPT ![p] = "tlbWait"]
                  /\ loc' = [loc EXCEPT ![p].ret = "getFinal"]
                  /\ UNCHANGED pt
          ELSE /\ pt' = [pt EXCEPT ![e.as][e.va].ppn = e.swap]
               /\ cm' = [cm EXCEPT ![f] = WipedCME(e)]
               /\ pc' = [pc EXCEPT ![p] = AfterGet(p)]
               /\ UNCHANGED <<tlb, ipi, tlbWaiters, loc>>
    /\ UNCHANGED <<clockHead, numDirty, swapUsed, running, host, mem, disk,
                   expected, cmLock, coreWaiters, heap>>

\* The end of page_get for an evicted frame: shoot down a TLB entry still
\* marked, then point the owner's PTE at the swap slot and wipe the entry.
page_get_final(p) ==
    /\ pc[p] = "getFinal" /\ cmLock = p
    /\ LET f == loc[p].frame
           e == cm[f]
       IN IF e.tlb
          THEN LET r == Shootdown(p, f, cm)
               IN /\ tlb' = r.tlb /\ cm' = r.cm /\ ipi' = r.ipi /\ tlbWaiters' = r.tw
                  /\ pc' = [pc EXCEPT ![p] = "tlbWait"]
                  /\ loc' = [loc EXCEPT ![p].ret = "getFinal"]
                  /\ UNCHANGED pt
          ELSE /\ pt' = [pt EXCEPT ![e.as][e.va].ppn = e.swap,
                                   ![e.as][e.va].present = FALSE]
               /\ cm' = [cm EXCEPT ![f] = WipedCME(e)]
               /\ pc' = [pc EXCEPT ![p] = AfterGet(p)]
               /\ UNCHANGED <<tlb, ipi, tlbWaiters, loc>>
    /\ UNCHANGED <<clockHead, numDirty, swapUsed, running, host, mem, disk,
                   expected, cmLock, coreWaiters, heap>>

\* Mutant: page_swapin does not set pte_present.
Published_keeps_absent(p, f, slot) ==
    /\ cm' = [cm EXCEPT ![f] = [as |-> p, va |-> loc[p].va, swap |-> slot,
                                cpu |-> host[p], dirty |-> FALSE, tlb |-> FALSE,
                                busy |-> FALSE]]
    /\ pt' = [pt EXCEPT ![p][loc[p].va] = [@ EXCEPT !.ppn = f, !.valid = TRUE,
                          !.writeable = TRUE, !.zeroed = FALSE]]
    /\ coreWaiters' = {}

\* page_swapin publishes the filled frame: coremap entry owned by (p, v) on
\* the current CPU, PTE present and writeable, cm_wchan woken.
Published(p, f, slot) ==
    /\ cm' = [cm EXCEPT ![f] = [as |-> p, va |-> loc[p].va, swap |-> slot,
                                cpu |-> host[p], dirty |-> FALSE, tlb |-> FALSE,
                                busy |-> FALSE]]
    /\ pt' = [pt EXCEPT ![p][loc[p].va] = [@ EXCEPT !.ppn = f, !.valid = TRUE,
                          !.writeable = TRUE, !.present = TRUE, !.zeroed = FALSE]]
    /\ coreWaiters' = {}

\* page_swapin with the frame from page_get: a page with a swap slot is
\* read in with cm_lock released; a demand-zero page is zeroed and
\* published at once.
page_swapin(p) ==
    /\ pc[p] = "swapin" /\ cmLock = p
    /\ LET pte == pt[p][loc[p].va]
           slot == IF pte.valid /\ ~pte.zeroed THEN pte.ppn ELSE 0
           f == loc[p].frame
       IN IF slot # 0
          THEN /\ cmLock' = NoThread
               /\ pc' = [pc EXCEPT ![p] = "siIO"]
               /\ loc' = [loc EXCEPT ![p].slot = slot]
               /\ UNCHANGED <<pt, cm, mem, coreWaiters>>
          ELSE /\ mem' = [mem EXCEPT ![f] = 0]
               /\ Published(p, f, 0)
               /\ pc' = [pc EXCEPT ![p] = AfterSwapin(p)]
               /\ UNCHANGED <<cmLock, loc>>
    /\ UNCHANGED <<clockHead, numDirty, swapUsed, tlb, ipi, running, host, disk,
                   expected, tlbWaiters, heap>>

\* page_swapin after swap_read: the slot's content is in the frame, cm_lock
\* is taken again and the frame published with its slot.
page_swapin_io(p) ==
    /\ pc[p] = "siIO" /\ host[p] # NoCPU
    /\ cmLock = NoThread
    /\ mem' = [mem EXCEPT ![loc[p].frame] = disk[loc[p].slot]]
    /\ Published(p, loc[p].frame, loc[p].slot)
    /\ cmLock' = p
    /\ pc' = [pc EXCEPT ![p] = AfterSwapin(p)]
    /\ UNCHANGED <<clockHead, numDirty, swapUsed, tlb, ipi, running, host, disk,
                   expected, loc, tlbWaiters, heap>>

\* Mutant: the installed entry's frame does not get cme_tlb set.
vm_fault_install_no_tlb_bit(p) ==
    /\ pc[p] = "install" /\ cmLock = p
    /\ LET v == loc[p].va
           f == pt[p][v].ppn
           c == host[p]
           store == loc[p].kind \in {"write", "readonly"}
           rel == loc[p].rel
       IN IF store /\ ~pt[p][v].writeable
          THEN /\ cm' = [g \in Frames |-> IF g = f \/ g = rel
                                         THEN [cm[g] EXCEPT !.busy = (g = f /\ g # rel)]
                                         ELSE cm[g]]
               /\ coreWaiters' = IF rel # 0 THEN {} ELSE coreWaiters
               /\ pc' = [pc EXCEPT ![p] = "segv"]
               /\ UNCHANGED <<numDirty, tlb, tlbWaiters>>
          ELSE \E i \in (IF Probe(c, v) # {} THEN Probe(c, v) ELSE TLBIdx) :
                 LET old == tlb[c][i]
                     cm1 == IF old.valid /\ old.va # v
                            THEN [cm EXCEPT ![old.frame].tlb = FALSE] ELSE cm
                     mkDirty == store /\ ~cm[f].dirty
                 IN /\ tlb' = [tlb EXCEPT ![c][i] = [valid |-> TRUE, va |-> v,
                                                     frame |-> f, dirty |-> store]]
                    /\ tlbWaiters' = IF old.valid /\ old.va # v THEN {} ELSE tlbWaiters
                    /\ cm' = [g \in Frames |->
                                IF g = f
                                THEN [cm1[g] EXCEPT !.busy = FALSE,
                                                    !.dirty = @ \/ store]
                                ELSE IF g = rel THEN [cm1[g] EXCEPT !.busy = FALSE]
                                ELSE cm1[g]]
                    /\ numDirty' = IF mkDirty THEN numDirty + 1 ELSE numDirty
                    /\ coreWaiters' = {}
                    /\ pc' = [pc EXCEPT ![p] = "user"]
    /\ cmLock' = NoThread
    /\ loc' = [loc EXCEPT ![p] = NoLocals]
    /\ UNCHANGED <<pt, clockHead, swapUsed, ipi, running, host, mem, disk, expected, heap>>

\* Mutant: cm_num_dirty is incremented on every store fault, dirty or not.
vm_fault_install_counts_every_store(p) ==
    /\ pc[p] = "install" /\ cmLock = p
    /\ LET v == loc[p].va
           f == pt[p][v].ppn
           c == host[p]
           store == loc[p].kind \in {"write", "readonly"}
           rel == loc[p].rel
       IN IF store /\ ~pt[p][v].writeable
          THEN /\ cm' = [g \in Frames |-> IF g = f \/ g = rel
                                         THEN [cm[g] EXCEPT !.busy = (g = f /\ g # rel)]
                                         ELSE cm[g]]
               /\ coreWaiters' = IF rel # 0 THEN {} ELSE coreWaiters
               /\ pc' = [pc EXCEPT ![p] = "segv"]
               /\ UNCHANGED <<numDirty, tlb, tlbWaiters>>
          ELSE \E i \in (IF Probe(c, v) # {} THEN Probe(c, v) ELSE TLBIdx) :
                 LET old == tlb[c][i]
                     cm1 == IF old.valid /\ old.va # v
                            THEN [cm EXCEPT ![old.frame].tlb = FALSE] ELSE cm
                     mkDirty == store
                 IN /\ tlb' = [tlb EXCEPT ![c][i] = [valid |-> TRUE, va |-> v,
                                                     frame |-> f, dirty |-> store]]
                    /\ tlbWaiters' = IF old.valid /\ old.va # v THEN {} ELSE tlbWaiters
                    /\ cm' = [g \in Frames |->
                                IF g = f
                                THEN [cm1[g] EXCEPT !.tlb = TRUE, !.busy = FALSE,
                                                    !.dirty = @ \/ store]
                                ELSE IF g = rel THEN [cm1[g] EXCEPT !.busy = FALSE]
                                ELSE cm1[g]]
                    /\ numDirty' = IF mkDirty THEN numDirty + 1 ELSE numDirty
                    /\ coreWaiters' = {}
                    /\ pc' = [pc EXCEPT ![p] = "user"]
    /\ cmLock' = NoThread
    /\ loc' = [loc EXCEPT ![p] = NoLocals]
    /\ UNCHANGED <<pt, clockHead, swapUsed, ipi, running, host, mem, disk, expected, heap>>

\* The rest of vm_fault.  A store fault on a page that is not writeable
\* releases the PTE and fails with EFAULT (the process is killed with
\* SIGSEGV); note the busy bit set on the frame is not cleared there.
\* Otherwise the entry is written at the probed index or at a random one,
\* whose previous occupant loses its coremap tlb bit; a store makes the
\* entry dirty and the frame dirty.  Then busy bits are cleared, the PTE
\* released, cm_wchan woken and the locks released.
vm_fault_install(p) ==
    /\ pc[p] = "install" /\ cmLock = p
    /\ LET v == loc[p].va
           f == pt[p][v].ppn
           c == host[p]
           store == loc[p].kind \in {"write", "readonly"}
           rel == loc[p].rel
       IN IF store /\ ~pt[p][v].writeable
          THEN /\ cm' = [g \in Frames |-> IF g = f \/ g = rel
                                         THEN [cm[g] EXCEPT !.busy = (g = f /\ g # rel)]
                                         ELSE cm[g]]
               /\ coreWaiters' = IF rel # 0 THEN {} ELSE coreWaiters
               /\ pc' = [pc EXCEPT ![p] = "segv"]
               /\ UNCHANGED <<numDirty, tlb, tlbWaiters>>
          ELSE \E i \in (IF Probe(c, v) # {} THEN Probe(c, v) ELSE TLBIdx) :
                 LET old == tlb[c][i]
                     cm1 == IF old.valid /\ old.va # v
                            THEN [cm EXCEPT ![old.frame].tlb = FALSE] ELSE cm
                     mkDirty == store /\ ~cm[f].dirty
                 IN /\ tlb' = [tlb EXCEPT ![c][i] = [valid |-> TRUE, va |-> v,
                                                     frame |-> f, dirty |-> store]]
                    /\ tlbWaiters' = IF old.valid /\ old.va # v THEN {} ELSE tlbWaiters
                    /\ cm' = [g \in Frames |->
                                IF g = f
                                THEN [cm1[g] EXCEPT !.tlb = TRUE, !.busy = FALSE,
                                                    !.dirty = @ \/ store]
                                ELSE IF g = rel THEN [cm1[g] EXCEPT !.busy = FALSE]
                                ELSE cm1[g]]
                    /\ numDirty' = IF mkDirty THEN numDirty + 1 ELSE numDirty
                    /\ coreWaiters' = {}
                    /\ pc' = [pc EXCEPT ![p] = "user"]
    /\ cmLock' = NoThread
    /\ loc' = [loc EXCEPT ![p] = NoLocals]
    /\ UNCHANGED <<pt, clockHead, swapUsed, ipi, running, host, mem, disk, expected, heap>>

-----------------------------------------------------------------------------
(* The paging daemon                                                       *)

\* One round of paging_daemon_thread starts when the dirty ratio reaches
\* the threshold (a round below it changes nothing).
daemon_start ==
    /\ Daemon \in Daemons
    /\ pc[Daemon] = "dIdle" /\ host[Daemon] # NoCPU
    /\ cmLock = NoThread
    /\ (numDirty * 100) \div NumPages >= PagingDaemonThreshold
    /\ cmLock' = Daemon
    /\ pc' = [pc EXCEPT ![Daemon] = "dScan"]
    /\ loc' = [loc EXCEPT ![Daemon].cursor = 1]
    /\ UNCHANGED <<pt, cm, clockHead, numDirty, swapUsed, tlb, ipi, running, host,
                   mem, disk, expected, coreWaiters, tlbWaiters, heap>>

\* The daemon's loop from its cursor: the next owned, dirty, non-busy frame
\* is marked busy and written out; at the end cm_lock is released.
daemon_scan ==
    /\ Daemon \in Daemons
    /\ pc[Daemon] = "dScan" /\ cmLock = Daemon
    /\ LET todo == {f \in loc[Daemon].cursor..NumFrames :
                      ~cm[f].busy /\ cm[f].dirty /\ cm[f].as # NoAS}
       IN IF todo = {}
          THEN /\ cmLock' = NoThread
               /\ pc' = [pc EXCEPT ![Daemon] = "dIdle"]
               /\ loc' = [loc EXCEPT ![Daemon] = NoLocals]
               /\ UNCHANGED <<pt, cm, swapUsed>>
          ELSE LET f == Min(todo)
               IN StartWriteOut(Daemon, f, [cm EXCEPT ![f].busy = TRUE])
    /\ UNCHANGED <<clockHead, numDirty, tlb, ipi, running, host, mem, disk,
                   expected, coreWaiters, tlbWaiters, heap>>

\* Mutant: the daemon clears the busy bit but does not wake cm_wchan.
daemon_after_write_no_wake ==
    /\ Daemon \in Daemons
    /\ pc[Daemon] = "dRet" /\ cmLock = Daemon
    /\ cm' = [cm EXCEPT ![loc[Daemon].frame].busy = FALSE]
    /\ coreWaiters' = coreWaiters
    /\ loc' = [loc EXCEPT ![Daemon].cursor = loc[Daemon].frame + 1]
    /\ pc' = [pc EXCEPT ![Daemon] = "dScan"]
    /\ UNCHANGED <<pt, clockHead, numDirty, swapUsed, tlb, ipi, running, host,
                   mem, disk, expected, cmLock, tlbWaiters, heap>>

\* Mutant: the daemon does not clear busy after writing a frame out.
daemon_after_write_keeps_busy ==
    /\ Daemon \in Daemons
    /\ pc[Daemon] = "dRet" /\ cmLock = Daemon
    /\ cm' = cm
    /\ coreWaiters' = {}
    /\ loc' = [loc EXCEPT ![Daemon].cursor = loc[Daemon].frame + 1]
    /\ pc' = [pc EXCEPT ![Daemon] = "dScan"]
    /\ UNCHANGED <<pt, clockHead, numDirty, swapUsed, tlb, ipi, running, host,
                   mem, disk, expected, cmLock, tlbWaiters, heap>>

\* After page_write_out: clear busy, wake cm_wchan, next frame.
daemon_after_write ==
    /\ Daemon \in Daemons
    /\ pc[Daemon] = "dRet" /\ cmLock = Daemon
    /\ cm' = [cm EXCEPT ![loc[Daemon].frame].busy = FALSE]
    /\ coreWaiters' = {}
    /\ loc' = [loc EXCEPT ![Daemon].cursor = loc[Daemon].frame + 1]
    /\ pc' = [pc EXCEPT ![Daemon] = "dScan"]
    /\ UNCHANGED <<pt, clockHead, numDirty, swapUsed, tlb, ipi, running, host,
                   mem, disk, expected, cmLock, tlbWaiters, heap>>

-----------------------------------------------------------------------------
(* sys_sbrk                                                                *)

\* Mutant: the ENOMEM test lets the heap reach one page past STACK_MIN.
sbrk_grow_past_stack(p, n) ==
    /\ pc[p] = "user" /\ host[p] # NoCPU
    /\ heap[p].calls < MaxSbrk
    /\ heap[p].size + n <= Len(Heap) + 1
    /\ pt' = [pt EXCEPT ![p] = [v \in VAs |->
                IF v \in HeapPages /\ HeapIndex(v) \in heap[p].size + 1..heap[p].size + n
                THEN [valid |-> FALSE, present |-> FALSE, zeroed |-> TRUE,
                      writeable |-> TRUE, ppn |-> 0]
                ELSE pt[p][v]]]
    /\ heap' = [heap EXCEPT ![p] = [size |-> @.size + n, calls |-> @.calls + 1]]
    /\ UNCHANGED <<cm, clockHead, numDirty, swapUsed, tlb, ipi, running, host, mem,
                   disk, expected, pc, loc, cmLock, coreWaiters, tlbWaiters>>

\* sys_sbrk growing the heap by n pages (below STACK_MIN; a larger amount
\* fails with ENOMEM, an amount that is no multiple of PAGE_SIZE with
\* EINVAL, and amount 0 only reads the heap top: none of them changes
\* anything).  Each new page's PTE is made invalid, absent, writeable and
\* demand-zero; pte_acquire on an absent PTE takes no lock.
sbrk_grow(p, n) ==
    /\ pc[p] = "user" /\ host[p] # NoCPU
    /\ heap[p].calls < MaxSbrk
    /\ heap[p].size + n <= Len(Heap)
    /\ pt' = [pt EXCEPT ![p] = [v \in VAs |->
                IF v \in HeapPages /\ HeapIndex(v) \in heap[p].size + 1..heap[p].size + n
                THEN [valid |-> FALSE, present |-> FALSE, zeroed |-> TRUE,
                      writeable |-> TRUE, ppn |-> 0]
                ELSE pt[p][v]]]
    /\ heap' = [heap EXCEPT ![p] = [size |-> @.size + n, calls |-> @.calls + 1]]
    /\ UNCHANGED <<cm, clockHead, numDirty, swapUsed, tlb, ipi, running, host, mem,
                   disk, expected, pc, loc, cmLock, coreWaiters, tlbWaiters>>

\* sys_sbrk shrinking the heap by n pages (at most the heap size, else
\* EINVAL): the loop frees the pages from the top down, one at a time.
sbrk_shrink(p, n) ==
    /\ pc[p] = "user" /\ host[p] # NoCPU
    /\ heap[p].calls < MaxSbrk
    /\ n <= heap[p].size
    /\ pc' = [pc EXCEPT ![p] = "sbrk"]
    /\ loc' = [loc EXCEPT ![p] = [NoLocals EXCEPT !.cursor = 1, !.pages = n]]
    /\ heap' = [heap EXCEPT ![p].calls = @ + 1]
    /\ UNCHANGED <<pt, cm, clockHead, numDirty, swapUsed, tlb, ipi, running, host,
                   mem, disk, expected, cmLock, coreWaiters, tlbWaiters>>

\* The end of one turn of the shrink loop: the next page, or, after the
\* last, the new heap size and the return to user mode.
ShrinkAdvance(p) ==
    IF loc[p].cursor = loc[p].pages
    THEN /\ pc' = [pc EXCEPT ![p] = "user"]
         /\ loc' = [loc EXCEPT ![p] = NoLocals]
         /\ heap' = [heap EXCEPT ![p].size = @ - loc[p].pages]
    ELSE /\ pc' = [pc EXCEPT ![p] = "sbrk"]
         /\ loc' = [loc EXCEPT ![p].cursor = @ + 1, ![p].rel = 0]
         /\ UNCHANGED heap

\* One turn of the shrink loop up to pte_acquire.  A present PTE: take
\* cm_lock, sleep on cm_wchan while its frame is busy, else mark the owned
\* frame busy and release cm_lock.  An absent PTE (no lock taken): give a
\* page in swap its slot back (swap_destroy_block) and invalidate the PTE.
sbrk_shrink_page(p) ==
    /\ pc[p] = "sbrk" /\ host[p] # NoCPU
    /\ p \notin coreWaiters
    /\ LET v == ShrinkVA(p)
           pte == pt[p][v]
       IN IF pte.present
          THEN /\ cmLock = NoThread
               /\ IF pte_acquire_waits(pte)
                  THEN /\ coreWaiters' = coreWaiters \cup {p}
                       /\ UNCHANGED <<cm, pc, loc>>
                  ELSE LET owned == pte_acquire_takes(p, pte)
                       IN /\ cm' = IF owned THEN [cm EXCEPT ![pte.ppn].busy = TRUE] ELSE cm
                          /\ loc' = [loc EXCEPT ![p].rel = IF owned THEN pte.ppn ELSE 0]
                          /\ pc' = [pc EXCEPT ![p] = "sbrkFree"]
                          /\ UNCHANGED coreWaiters
               /\ UNCHANGED <<pt, swapUsed, expected, heap>>
          ELSE /\ swapUsed' = IF pte.zeroed THEN swapUsed ELSE swap_destroy_block(pte.ppn)
               /\ pt' = [pt EXCEPT ![p][v].ppn = 0, ![p][v].valid = FALSE]
               /\ expected' = [expected EXCEPT ![p][v] = 0]
               /\ ShrinkAdvance(p)
               /\ UNCHANGED <<cm, coreWaiters>>
    /\ UNCHANGED <<clockHead, numDirty, tlb, ipi, running, host, mem, disk, cmLock,
                   tlbWaiters>>

\* Mutant: the frame's swap slot is not given back.
sbrk_free_keeps_slot(p) ==
    /\ pc[p] = "sbrkFree" /\ host[p] # NoCPU
    /\ cmLock = NoThread
    /\ LET v == ShrinkVA(p)
           f == pt[p][v].ppn
           e == cm[f]
           r == IF e.tlb THEN Shootdown(p, f, cm)
                ELSE [tlb |-> tlb, cm |-> cm, ipi |-> ipi, tw |-> tlbWaiters]
       IN /\ e.tlb => e.cpu = host[p]
          /\ tlb' = r.tlb /\ ipi' = r.ipi /\ tlbWaiters' = r.tw
          /\ cm' = [r.cm EXCEPT ![f].as = NoAS, ![f].va = NoVA, ![f].swap = 0,
                                ![f].dirty = FALSE, ![f].busy = FALSE]
          /\ swapUsed' = swapUsed
          /\ pt' = [pt EXCEPT ![p][v].present = FALSE, ![p][v].ppn = 0,
                              ![p][v].valid = FALSE]
          /\ expected' = [expected EXCEPT ![p][v] = 0]
    /\ coreWaiters' = {}
    /\ ShrinkAdvance(p)
    /\ UNCHANGED <<clockHead, numDirty, running, host, mem, disk, cmLock>>

\* The rest of the turn for a present page: shoot down its TLB entry if
\* cme_tlb is set (vm_tlbshootdown takes cm_lock; the code asserts the
\* owner CPU is the current one), wipe the coremap entry's owner, slot and
\* dirty bit without the lock (cm_num_dirty is left as it is), give the slot
\* back, make the PTE absent and invalid, and pte_release: clear busy and
\* wake cm_wchan under cm_lock.
sbrk_free(p) ==
    /\ pc[p] = "sbrkFree" /\ host[p] # NoCPU
    /\ cmLock = NoThread
    /\ LET v == ShrinkVA(p)
           f == pt[p][v].ppn
           e == cm[f]
           r == IF e.tlb THEN Shootdown(p, f, cm)
                ELSE [tlb |-> tlb, cm |-> cm, ipi |-> ipi, tw |-> tlbWaiters]
       IN /\ e.tlb => e.cpu = host[p]
          /\ tlb' = r.tlb /\ ipi' = r.ipi /\ tlbWaiters' = r.tw
          /\ cm' = [r.cm EXCEPT ![f].as = NoAS, ![f].va = NoVA, ![f].swap = 0,
                                ![f].dirty = FALSE, ![f].busy = FALSE]
          /\ swapUsed' = IF e.swap # 0 THEN swap_destroy_block(e.swap) ELSE swapUsed
          /\ pt' = [pt EXCEPT ![p][v].present = FALSE, ![p][v].ppn = 0,
                              ![p][v].valid = FALSE]
          /\ expected' = [expected EXCEPT ![p][v] = 0]
    /\ coreWaiters' = {}
    /\ ShrinkAdvance(p)
    /\ UNCHANGED <<clockHead, numDirty, running, host, mem, disk, cmLock>>

\* kern__exit, on _exit or when vm_fault's EFAULT kills the process: the
\* thread leaves its CPU for good (thread_exit).  Files, the exit code and
\* the wait protocol are not modelled.  Its TLB entries stay where they are.
\* The address space is then torn down by as_destroy in whichever thread
\* reaps the process (its parent in waitpid, or the next exit clearing the
\* coffin), on any CPU; the model runs those steps under the exited thread's
\* id and on no CPU of its own.
kern__exit(p) ==
    /\ p \in Exiting
    /\ \/ pc[p] = "user" /\ host[p] # NoCPU
       \/ pc[p] = "segv"
    /\ pc' = [pc EXCEPT ![p] = "destroy"]
    /\ running' = IF host[p] = NoCPU THEN running
                  ELSE [running EXCEPT ![host[p]] = NoThread]
    /\ host' = [host EXCEPT ![p] = NoCPU]
    /\ loc' = [loc EXCEPT ![p] = NoLocals]
    /\ UNCHANGED <<pt, cm, clockHead, numDirty, swapUsed, tlb, ipi, mem, disk,
                   expected, cmLock, coreWaiters, tlbWaiters, heap>>

\* The page pgt_destroy's loop is at: the first valid PTE it has not freed
\* yet.  The loop index is abstracted by clearing valid once a page is freed.
DestroyVA(p) == CHOOSE v \in {u \in VAs : pt[p][u].valid} : TRUE

\* One turn of pgt_destroy's loop up to pte_acquire.  A present PTE: sleep
\* on cm_wchan while its frame is busy (a write-out or eviction has it),
\* else take the frame; if the page left memory meanwhile (pte_acquire
\* returns -1) it is treated as absent.  An absent PTE: give back the slot
\* it names (pte_ppn > 0), under no lock.
pgt_destroy_page(p) ==
    /\ pc[p] = "destroy"
    /\ p \notin coreWaiters
    /\ \E v \in VAs : pt[p][v].valid
    /\ LET v == DestroyVA(p)
           pte == pt[p][v]
       IN IF pte.present
          THEN /\ cmLock = NoThread
               /\ IF pte_acquire_waits(pte)
                  THEN /\ coreWaiters' = coreWaiters \cup {p}
                       /\ UNCHANGED <<cm, pc, loc>>
                  ELSE /\ pte_acquire_takes(p, pte)
                       /\ cm' = [cm EXCEPT ![pte.ppn].busy = TRUE]
                       /\ loc' = [loc EXCEPT ![p].rel = pte.ppn]
                       /\ pc' = [pc EXCEPT ![p] = "destroyFree"]
                       /\ UNCHANGED coreWaiters
               /\ UNCHANGED <<pt, swapUsed>>
          ELSE /\ swapUsed' = IF pte.ppn > 0 THEN swap_destroy_block(pte.ppn)
                              ELSE swapUsed
               /\ pt' = [pt EXCEPT ![p][v].valid = FALSE]
               /\ UNCHANGED <<cm, pc, loc, coreWaiters>>
    /\ UNCHANGED <<clockHead, numDirty, tlb, ipi, running, host, mem, disk,
                   expected, cmLock, tlbWaiters, heap>>

\* Mutant: the frame's cme_swap_location is not given back.
pgt_destroy_free_keeps_slot(p) ==
    /\ pc[p] = "destroyFree"
    /\ cmLock = NoThread
    /\ LET v == DestroyVA(p)
           f == loc[p].rel
           e == cm[f]
       IN /\ numDirty' = IF e.dirty THEN numDirty - 1 ELSE numDirty
          /\ cm' = [cm EXCEPT ![f].dirty = FALSE, ![f].tlb = FALSE, ![f].va = NoVA,
                              ![f].as = NoAS, ![f].busy = FALSE]
          /\ swapUsed' = swapUsed
          /\ pt' = [pt EXCEPT ![p][v].valid = FALSE, ![p][v].present = FALSE]
    /\ coreWaiters' = {}
    /\ pc' = [pc EXCEPT ![p] = "destroy"]
    /\ loc' = [loc EXCEPT ![p].rel = 0]
    /\ UNCHANGED <<clockHead, tlb, ipi, running, host, mem, disk, expected,
                   cmLock, tlbWaiters, heap>>

\* Mutant: every frame torn down is counted out of cm_num_dirty.
pgt_destroy_free_undirty_always(p) ==
    /\ pc[p] = "destroyFree"
    /\ cmLock = NoThread
    /\ LET v == DestroyVA(p)
           f == loc[p].rel
           e == cm[f]
       IN /\ numDirty' = numDirty - 1
          /\ cm' = [cm EXCEPT ![f].dirty = FALSE, ![f].tlb = FALSE, ![f].va = NoVA,
                              ![f].as = NoAS, ![f].busy = FALSE]
          /\ swapUsed' = IF e.swap > 0 THEN swap_destroy_block(e.swap) ELSE swapUsed
          /\ pt' = [pt EXCEPT ![p][v].valid = FALSE, ![p][v].present = FALSE]
    /\ coreWaiters' = {}
    /\ pc' = [pc EXCEPT ![p] = "destroy"]
    /\ loc' = [loc EXCEPT ![p].rel = 0]
    /\ UNCHANGED <<clockHead, tlb, ipi, running, host, mem, disk, expected,
                   cmLock, tlbWaiters, heap>>

\* The rest of the turn for a present page, under cm_lock: count a dirty
\* frame out of cm_num_dirty, clear cme_tlb (no shootdown), the owner and
\* the page; cme_swap_location is read and left in the free entry.  Then
\* pte_release (clear busy, wake cm_wchan) and give the frame's slot back.
pgt_destroy_free(p) ==
    /\ pc[p] = "destroyFree"
    /\ cmLock = NoThread
    /\ LET v == DestroyVA(p)
           f == loc[p].rel
           e == cm[f]
       IN /\ numDirty' = IF e.dirty THEN numDirty - 1 ELSE numDirty
          /\ cm' = [cm EXCEPT ![f].dirty = FALSE, ![f].tlb = FALSE, ![f].va = NoVA,
                              ![f].as = NoAS, ![f].busy = FALSE]
          /\ swapUsed' = IF e.swap > 0 THEN swap_destroy_block(e.swap) ELSE swapUsed
          /\ pt' = [pt EXCEPT ![p][v].valid = FALSE, ![p][v].present = FALSE]
    /\ coreWaiters' = {}
    /\ pc' = [pc EXCEPT ![p] = "destroy"]
    /\ loc' = [loc EXCEPT ![p].rel = 0]
    /\ UNCHANGED <<clockHead, tlb, ipi, running, host, mem, disk, expected,
                   cmLock, tlbWaiters, heap>>

\* as_destroy after the loop: the address space is freed.
as_destroy_done(p) ==
    /\ pc[p] = "destroy"
    /\ \A v \in VAs : ~pt[p][v].valid
    /\ pc' = [pc EXCEPT ![p] = "dead"]
    /\ UNCHANGED <<pt, cm, clockHead, numDirty, swapUsed, tlb, ipi, running, host,
                   mem, disk, expected, loc, cmLock, coreWaiters, tlbWaiters, heap>>


\* The child an as_copy in p fills: a child of p not yet created.
ForkChild(p) == CHOOSE c \in Procs : <<p, c>> \in Forks /\ pc[c] = "unborn"

\* Thread t is inside as_copy, in its own steps or in a page_get or
\* page_swapin it called.
InFork(t) ==
    /\ t \in Procs
    /\ \/ pc[t] \in {"fork", "forkHave", "forkCopy"}
       \/ loc[t].kind \in {"fork", "forkIn"}

\* The parent's valid pages as_copy has not copied yet, and the one its
\* loop is at.
CopyTodo(p) == {v \in VAs : pt[p][v].valid /\ ~pt[ForkChild(p)][v].valid}
CopyVA(p) == CHOOSE v \in CopyTodo(p) : TRUE

\* sys_fork up to as_copy: as_create and the parent's as_lock.  The rest
\* of fork (the trapframe, the child thread) follows as_copy's success.
sys_fork(p) ==
    /\ pc[p] = "user" /\ host[p] # NoCPU
    /\ \E c \in Procs : <<p, c>> \in Forks /\ pc[c] = "unborn"
    /\ pc' = [pc EXCEPT ![p] = "fork"]
    /\ UNCHANGED <<pt, cm, clockHead, numDirty, swapUsed, tlb, ipi, running, host,
                   mem, disk, expected, loc, cmLock, coreWaiters, tlbWaiters, heap>>

\* One turn of as_copy's loop up to spinlock_acquire: pte_acquire on the
\* next valid parent page (sleeping on cm_wchan while its frame is busy),
\* then cm_lock.  A page that is absent or demand-zero gets no frame.
fork_copy_page(p) ==
    /\ pc[p] = "fork" /\ host[p] # NoCPU
    /\ p \notin coreWaiters
    /\ CopyTodo(p) # {}
    /\ cmLock = NoThread
    /\ LET v == CopyVA(p)
           pte == pt[p][v]
       IN IF pte_acquire_waits(pte)
          THEN /\ coreWaiters' = coreWaiters \cup {p}
               /\ UNCHANGED <<cm, pc, loc, cmLock>>
          ELSE /\ cm' = IF pte.present THEN [cm EXCEPT ![pte.ppn].busy = TRUE] ELSE cm
               /\ loc' = [loc EXCEPT ![p] = [NoLocals EXCEPT !.va = v,
                                            !.rel = IF pte.present THEN pte.ppn ELSE 0]]
               /\ cmLock' = p
               /\ pc' = [pc EXCEPT ![p] = "forkHave"]
               /\ UNCHANGED coreWaiters
    /\ UNCHANGED <<pt, clockHead, numDirty, swapUsed, tlb, ipi, running, host,
                   mem, disk, expected, tlbWaiters, heap>>

\* Under cm_lock: while the parent page is not present, page_swapin it
\* (with the parent's address space current); once present, pte_acquire
\* it again if the swap-in released it, and page_get(0) a frame for the
\* child.  page_swapin always leaves the page present and not zeroed, so
\* the code's skip for a zeroed page is never taken.
fork_have(p) ==
    /\ pc[p] = "forkHave" /\ cmLock = p
    /\ LET pte == pt[p][loc[p].va]
       IN IF ~pte.present
          THEN /\ loc' = [loc EXCEPT ![p].kind = "forkIn"]
               /\ UNCHANGED cm
          ELSE /\ cm' = [cm EXCEPT ![pte.ppn].busy = TRUE]
               /\ loc' = [loc EXCEPT ![p].kind = "fork", ![p].rel = pte.ppn]
    /\ pc' = [pc EXCEPT ![p] = "get"]
    /\ UNCHANGED <<pt, clockHead, numDirty, swapUsed, tlb, ipi, running, host,
                   mem, disk, expected, cmLock, coreWaiters, tlbWaiters, heap>>

\* Mutant: the copy does not pte_release the parent's page.
fork_copy_no_release(p) ==
    /\ pc[p] = "forkCopy" /\ cmLock = p
    /\ LET c == ForkChild(p)
           v == loc[p].va
           f == loc[p].frame
       IN /\ cm' = [cm EXCEPT ![f] = [as |-> c, va |-> v, swap |-> 0, cpu |-> host[p],
                                      dirty |-> FALSE, tlb |-> FALSE, busy |-> TRUE]]
          /\ mem' = [mem EXCEPT ![f] = mem[loc[p].rel]]
          /\ pt' = [pt EXCEPT ![c][v] = [valid |-> TRUE, present |-> TRUE,
                                         zeroed |-> FALSE, writeable |-> TRUE, ppn |-> f]]
          /\ expected' = [expected EXCEPT ![c][v] = expected[p][v]]
    /\ coreWaiters' = {}
    /\ cmLock' = NoThread
    /\ pc' = [pc EXCEPT ![p] = "fork"]
    /\ loc' = [loc EXCEPT ![p] = NoLocals]
    /\ UNCHANGED <<clockHead, numDirty, swapUsed, tlb, ipi, running, host, disk,
                   tlbWaiters, heap>>

\* The copy: the child's coremap entry (busy until as_copy ends, clean, no
\* slot), the memmove of the parent's frame, the child's PTE (present and
\* writeable), and pte_release of the parent's page.  The child's frame
\* and the parent's are both busy, so the unlocked memmove is one step.
fork_copy(p) ==
    /\ pc[p] = "forkCopy" /\ cmLock = p
    /\ LET c == ForkChild(p)
           v == loc[p].va
           f == loc[p].frame
       IN /\ cm' = [cm EXCEPT ![f] = [as |-> c, va |-> v, swap |-> 0, cpu |-> host[p],
                                      dirty |-> FALSE, tlb |-> FALSE, busy |-> TRUE],
                              ![loc[p].rel].busy = FALSE]
          /\ mem' = [mem EXCEPT ![f] = mem[loc[p].rel]]
          /\ pt' = [pt EXCEPT ![c][v] = [valid |-> TRUE, present |-> TRUE,
                                         zeroed |-> FALSE, writeable |-> TRUE, ppn |-> f]]
          /\ expected' = [expected EXCEPT ![c][v] = expected[p][v]]
    /\ coreWaiters' = {}
    /\ cmLock' = NoThread
    /\ pc' = [pc EXCEPT ![p] = "fork"]
    /\ loc' = [loc EXCEPT ![p] = NoLocals]
    /\ UNCHANGED <<clockHead, numDirty, swapUsed, tlb, ipi, running, host, disk,
                   tlbWaiters, heap>>

\* The end of as_copy: under cm_lock every frame of the child is made
\* not busy and cm_wchan woken; the child gets the parent's heap bounds,
\* and fork lets the child run.
fork_done(p) ==
    /\ pc[p] = "fork" /\ host[p] # NoCPU
    /\ CopyTodo(p) = {}
    /\ cmLock = NoThread
    /\ LET c == ForkChild(p)
       IN /\ cm' = [f \in Frames |-> IF cm[f].as = c THEN [cm[f] EXCEPT !.busy = FALSE]
                                     ELSE cm[f]]
          /\ heap' = [heap EXCEPT ![c] = heap[p]]
          /\ pc' = [pc EXCEPT ![p] = "user", ![c] = "user"]
    /\ coreWaiters' = {}
    /\ UNCHANGED <<pt, clockHead, numDirty, swapUsed, tlb, ipi, running, host,
                   mem, disk, expected, loc, cmLock, tlbWaiters>>

-----------------------------------------------------------------------------
Next ==
    \/ \E p \in Procs, v \in VAs : UserAccess(p, v)
    \/ \E c \in CPUs, t \in Threads : Schedule(c, t)
    \/ \E c \in CPUs : Deschedule(c)
    \/ \E c \in CPUs, v \in VAs : HandleIPI(c, v)
    \/ \E p \in Procs : \/ vm_fault_acquire(p) \/ page_get(p) \/ page_get_final(p)
                        \/ page_swapin(p) \/ page_swapin_io(p) \/ vm_fault_install(p)
    \/ \E t \in Threads : \/ page_write_out_io(t) \/ page_write_out_shoot(t)
                          \/ TlbWait(t) \/ TlbWake(t)
    \/ daemon_start \/ daemon_scan \/ daemon_after_write
    \/ \E p \in Procs, n \in 1..Len(Heap) : sbrk_grow(p, n) \/ sbrk_shrink(p, n)
    \/ \E p \in Procs : sbrk_shrink_page(p) \/ sbrk_free(p)
    \/ \E p \in Procs : \/ kern__exit(p) \/ pgt_destroy_page(p) \/ pgt_destroy_free(p)
                        \/ as_destroy_done(p)
    \/ \E p \in Procs : \/ sys_fork(p) \/ fork_copy_page(p) \/ fork_have(p)
                        \/ fork_copy(p) \/ fork_done(p)

Spec == Init /\ [][Next]_vars

\* Every step a thread takes in the kernel: its part of vm_fault and
\* page_get, of page_write_out and the cm_tlb_wchan wait, and the daemon's
\* loop.  User-mode accesses are not kernel steps.
KernelStep(t) ==
    \/ /\ t \in Procs
       /\ \/ vm_fault_acquire(t) \/ page_get(t) \/ page_get_final(t)
          \/ page_swapin(t) \/ page_swapin_io(t) \/ vm_fault_install(t)
    \/ page_write_out_io(t) \/ page_write_out_shoot(t) \/ TlbWait(t) \/ TlbWake(t)
    \/ t \in Procs /\ (sbrk_shrink_page(t) \/ sbrk_free(t))
    \/ /\ t \in Procs
       /\ \/ pgt_destroy_page(t) \/ pgt_destroy_free(t) \/ as_destroy_done(t)
          \/ pc[t] = "segv" /\ kern__exit(t)
          \/ fork_copy_page(t) \/ fork_have(t) \/ fork_copy(t) \/ fork_done(t)
    \/ t = Daemon /\ (daemon_start \/ daemon_scan \/ daemon_after_write)

\* A thread that can run: not killed or exited, and not asleep on cm_wchan
\* or cm_tlb_wchan.  (The reaper's teardown steps need no CPU of their own.)
Runnable(t) ==
    /\ pc[t] \notin {"segv", "destroy", "destroyFree", "dead", "unborn"}
    /\ ~(pc[t] \in {"fault", "sbrk"} /\ t \in coreWaiters)
    /\ ~(pc[t] = "tlbSleep" /\ t \in tlbWaiters)

\* Fairness the kernel gives.  The round-robin scheduler keeps putting a
\* runnable thread back on a CPU, and cm_lock is a spinlock held only for
\* short stretches with interrupts off, so a runnable thread is infinitely
\* often on a CPU while cm_lock is free (a thread spinning in
\* spinlock_acquire cannot be preempted, so it is never descheduled just as
\* the lock frees).  A thread in the kernel that is thereby infinitely
\* often able to take its next step takes it (strong fairness), and a
\* CPU with queued shootdowns eventually handles them once it can take
\* cm_lock (the IPI handler runs every shootdown queued for its CPU).
\* Nothing makes a process in user mode fault or call sbrk, so UserAccess,
\* sbrk_grow and sbrk_shrink are not fair.
FairSpec ==
    /\ Spec
    /\ \A t \in Threads : /\ []<>(Runnable(t) => host[t] # NoCPU /\ cmLock = NoThread)
                         /\ SF_vars(KernelStep(t))
    /\ \A c \in CPUs : SF_vars(\E v \in VAs : HandleIPI(c, v))

-----------------------------------------------------------------------------
(* Properties                                                              *)

TypeOK ==
    /\ pt \in [Procs -> [VAs -> PTE]]
    /\ cm \in [Frames -> CME]
    /\ clockHead \in Frames
    /\ numDirty \in Nat
    /\ swapUsed \subseteq Slots
    /\ tlb \in [CPUs -> [TLBIdx -> TLBE]]
    /\ ipi \in [CPUs -> SUBSET VAs]
    /\ running \in [CPUs -> Threads \cup {NoThread}]
    /\ host \in [Threads -> CPUs \cup {NoCPU}]
    /\ mem \in [Frames -> Vals] /\ disk \in [Slots -> Vals]
    /\ expected \in [Procs -> [VAs -> Vals]]
    /\ loc \in [Threads -> Loc]
    /\ cmLock \in Threads \cup {NoThread}
    /\ coreWaiters \subseteq Threads /\ tlbWaiters \subseteq Threads
    /\ heap \in [Procs -> [size: 0..Len(Heap), calls: 0..MaxSbrk]]

\* Spec section 8: a present PTE names a frame whose coremap entry points
\* back at (this address space, this page), and an owned frame is the one
\* its owner's PTE names.  page_get rewrites the PTE of another process
\* without that process's address-space lock, relying on the busy bit.
FrameMapConsistent ==
    /\ \A p \in Procs, v \in VAs :
          pt[p][v].present => cm[pt[p][v].ppn].as = p /\ cm[pt[p][v].ppn].va = v
    /\ \A f \in Frames :
          cm[f].as # NoAS => pt[cm[f].as][cm[f].va].present
                             /\ pt[cm[f].as][cm[f].va].ppn = f

\* The frames thread t has marked busy and not yet released, read off its
\* program counter: the frame pte_acquire took (rel), the frame page_get
\* returned, the frame the daemon is writing out.
Held(t) ==
    LET relHeld == t \in Procs /\ loc[t].rel # 0 /\
                   pc[t] \in {"get", "woIO", "woShoot", "getFinal", "tlbWait",
                              "tlbSleep", "swapin", "siIO", "install", "spin",
                              "sbrkFree", "destroyFree", "forkHave",
                              "forkCopy"}
        frameHeld == pc[t] \in {"woIO", "woShoot", "getFinal", "tlbWait",
                                "tlbSleep", "swapin", "siIO", "dRet", "forkCopy"}
        copies == IF InFork(t)
                  THEN {f \in Frames : cm[f].as = ForkChild(t)} ELSE {}
    IN (IF relHeld THEN {loc[t].rel} ELSE {}) \cup (IF frameHeld THEN {loc[t].frame} ELSE {})
       \cup copies

\* The busy bit is a lock on a frame: a frame is busy exactly when one
\* thread is in the middle of an operation on it, and no two threads hold
\* the same frame.  A leaked busy bit blocks the owner forever in
\* pte_acquire; a shared one lets eviction and fault handling race.
BusyHeldByOne ==
    /\ \A f \in Frames : cm[f].busy <=> \E t \in Threads : f \in Held(t)
    /\ \A t, u \in Threads : t # u => Held(t) \cap Held(u) = {}

\* No store is lost or misdirected: every page holds, wherever it lives
\* (frame, swap slot, demand-zero), the last value its process stored.
\* page_write_out copies the frame to swap before the TLB entry that allows
\* stores to it is shot down.
NoLostWrite ==
    \A p \in Procs, v \in VAs : Exists(p, v) => Content(p, v) = expected[p][v]

\* The slots a page still lives in: the slot of an owned frame (a free
\* frame's cme_swap_location is stale once pgt_destroy has freed it), the
\* slot an absent page's PTE names, and a slot a write-out has taken but not
\* yet recorded in the coremap.
SlotsInUse ==
    {cm[f].swap : f \in {g \in Frames : cm[g].as # NoAS}}
    \cup {pt[pv[1]][pv[2]].ppn :
            pv \in {pv \in Procs \X VAs : /\ Exists(pv[1], pv[2])
                                         /\ ~pt[pv[1]][pv[2]].present
                                         /\ ~pt[pv[1]][pv[2]].zeroed}}
    \cup {loc[t].slot : t \in {u \in Threads : pc[u] = "woIO"}}

\* The swap bitmap marks exactly the slots pages still live in: sbrk's
\* shrink gives back the slot of a freed page, whether the page is in a
\* frame (cme_swap_location) or only in swap (its PTE), and no eviction,
\* write-out or swap-in leaves a slot marked that nothing names, or names
\* a slot that is free (and could be handed to another page).
SwapAccounted ==
    swapUsed = SlotsInUse \ {0}

\* Address-space isolation: every TLB entry usable by the process running
\* on a CPU maps a frame that process owns at that page.  The coremap keeps
\* one tlb bit per frame and one owner CPU, set when the page was swapped
\* in, while entries for the frame can sit in several CPUs' TLBs.
TLBIsolation ==
    \A c \in CPUs : running[c] \in Procs =>
        \A i \in TLBIdx : tlb[c][i].valid =>
            /\ cm[tlb[c][i].frame].as = running[c]
            /\ cm[tlb[c][i].frame].va = tlb[c][i].va

\* page_write_out marks a frame clean and then shoots down its TLB entry;
\* vm_fault marks a frame dirty when it installs a writable entry.  So,
\* outside a write-out that is still shooting the entry down, no CPU running
\* a process holds a writable (dirty) entry for a frame the coremap calls
\* clean: the daemon and cm_num_dirty never miss a frame that can take
\* unsaved stores.  (A CPU's entries are usable only by the process running
\* there: as_activate flushes them before any other process runs.)
CleanFrameNotWritable ==
    \A c \in {d \in CPUs : running[d] \in Procs}, i \in TLBIdx :
        LET e == tlb[c][i]
        IN (e.valid /\ e.dirty /\ ~cm[e.frame].dirty) =>
              \E t \in Threads : /\ pc[t] \in {"woShoot", "tlbWait", "tlbSleep"}
                                /\ loc[t].frame = e.frame

\* cm_num_dirty never counts fewer frames than are dirty.  The counter is
\* raised by vm_fault when a store dirties a frame and lowered, each under
\* cm_lock, by page_write_out (daemon or eviction) and pgt_destroy; sbrk's
\* shrink clears cme_dirty without lowering it, so the counter may run
\* ahead, never behind.  Behind, the daemon's threshold test would leave
\* dirty frames for page_get to write out synchronously.
NumDirtyCovers ==
    numDirty >= Cardinality({f \in Frames : cm[f].dirty})

\* page_get's third pass never spins: some frame is always free of a busy
\* bit when a fault needs one.
NoEvictionSpin ==
    \A p \in Procs : pc[p] # "spin"


\* Every page_write_out that starts its swap write eventually returns to its
\* caller (the daemon's loop or page_get).  On the way it shoots the frame's
\* TLB entry down, possibly by IPI to the owner's CPU, and sleeps on
\* cm_tlb_wchan until cme_tlb clears; it returns only if whoever clears the
\* bit (the IPI handler, a flush, an evicting vm_fault) also wakes it.
WriteOutReturns ==
    \A t \in Threads : pc[t] = "woIO" ~> pc[t] = WriteOutReturn(t)

\* The teardown of an exited process's address space finishes: pgt_destroy
\* sleeps on cm_wchan for each page a write-out or eviction has busy, and
\* whoever clears the busy bit must wake it, so the reaping thread (a
\* parent in waitpid, or the next exit clearing the coffin) is never stuck.
DestroyCompletes ==
    \A p \in Procs : pc[p] = "destroy" ~> pc[p] = "dead"

=====
