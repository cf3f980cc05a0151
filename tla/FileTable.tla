----------------------------- MODULE FileTable -----------------------------
(***************************************************************************)
(* The kernel file table and the per-process descriptor tables            *)
(* (vfs/filetable.c, syscall/open.c, close.c, dup2.c, lseek.c,            *)
(* readwrite.c, and the descriptor parts of fork.c and exit.c).           *)
(*                                                                         *)
(* p_fds[p][fd] is an index into k_filetable->ft_fhs, or FD_FREE. A slot  *)
(* holds a file_handle shared by every descriptor that names it, in this  *)
(* and in forked processes, counted by fh_refcount. Each step below is a  *)
(* stretch of code that runs under ft_lock, under a handle's fh_use_lock, *)
(* or that touches only the running process's own p_fds; processes are    *)
(* single-threaded, so nothing else can see p_fds between two steps.      *)
(* File contents are abstracted to each vnode's size, in transfer units.  *)
(***************************************************************************)
EXTENDS Naturals, FiniteSets, FiniteSetsExt

CONSTANTS
    Procs,       \* user processes
    FirstProc,   \* the process that owns the console descriptors at boot
    BootFds,     \* the console descriptors FirstProc still has open
    Exiting,     \* the processes that call _exit in a run
    Vnodes,      \* files that open can name
    Console,     \* the console device "con:", not seekable
    Seekable,    \* the vnodes for which VOP_ISSEEKABLE holds
    OPEN_MAX,    \* descriptors per process
    FD_FREE,     \* the free-descriptor value; slots 0..FD_FREE-1 are usable
    MaxOff,      \* a bound on file offsets and sizes, in transfer units
    OpenModes,   \* the access modes open is called with
    NULL,
    NoProc

ASSUME /\ FirstProc \in Procs /\ Exiting \subseteq Procs /\ BootFds \subseteq 0 .. 2
       /\ Console \in Vnodes /\ Seekable \subseteq Vnodes \ {Console}
       /\ OPEN_MAX \in Nat \ {0} /\ FD_FREE \in Nat
       /\ BootFds \subseteq 0 .. OPEN_MAX - 1 /\ BootFds \subseteq 0 .. FD_FREE - 1
       /\ MaxOff \in Nat
       /\ OpenModes \subseteq {"O_RDONLY", "O_WRONLY", "O_RDWR"}

Fds == 0 .. OPEN_MAX - 1
Slots == 0 .. FD_FREE - 1
Accmodes == {"O_RDONLY", "O_WRONLY", "O_RDWR"}   \* flags & O_ACCMODE
Handle == [file : Vnodes, off : 0 .. MaxOff, refcount : Nat, flags : Accmodes]

VARIABLES
    p_fds,     \* each process's descriptor table
    ft_fhs,    \* k_filetable->ft_fhs: a file_handle or NULL
    useLock,   \* holder of each slot's fh_use_lock
    fsize,     \* each vnode's size
    pc,        \* each process's position in the kernel, "idle" in user mode
    loc        \* a process's locals between two steps

vars == <<p_fds, ft_fhs, useLock, fsize, pc, loc>>

Pcs == {"unborn", "idle", "dup2", "rwWait", "rwIO", "seekWait", "seek",
        "forkFd", "forkIncref", "exit", "zombie"}
Locals == [fd : Fds, new : Fds, slot : Slots, op : {"none", "read", "write"},
           off : 0 .. MaxOff, child : Procs \cup {NoProc}]
NoLocals == [fd |-> 0, new |-> 0, slot |-> 0, op |-> "none", off |-> 0,
             child |-> NoProc]

TypeOK ==
    /\ p_fds \in [Procs -> [Fds -> Slots \cup {FD_FREE}]]
    /\ ft_fhs \in [Slots -> Handle \cup {NULL}]
    /\ useLock \in [Slots -> Procs \cup {NoProc}]
    /\ fsize \in [Vnodes -> 0 .. MaxOff]
    /\ pc \in [Procs -> Pcs]
    /\ loc \in [Procs -> Locals]

\* ft_init opens "con:" three times: stdin read-only, stdout and stderr
\* write-only, each in a handle of its own with refcount 1, and the first
\* user process has descriptors 0, 1 and 2 on them. A run starts once that
\* process has closed the ones not in BootFds.
Init ==
    /\ ft_fhs = [s \in Slots |->
                   IF s \in BootFds
                   THEN [file |-> Console, off |-> 0, refcount |-> 1,
                         flags |-> IF s = 0 THEN "O_RDONLY" ELSE "O_WRONLY"]
                   ELSE NULL]
    /\ p_fds = [p \in Procs |-> [fd \in Fds |->
                  IF p = FirstProc /\ fd \in BootFds THEN fd ELSE FD_FREE]]
    /\ useLock = [s \in Slots |-> NoProc]
    /\ fsize = [v \in Vnodes |-> 0]
    /\ pc = [p \in Procs |-> IF p = FirstProc THEN "idle" ELSE "unborn"]
    /\ loc = [p \in Procs |-> NoLocals]

OpenFds(p) == {fd \in Fds : p_fds[p][fd] # FD_FREE}
Fh(p, fd) == ft_fhs[p_fds[p][fd]]

\* Mutant: the last-reference test off by one.
fh_close_frees_at_two(fh) ==
    IF fh.refcount > 2 THEN [fh EXCEPT !.refcount = @ - 1] ELSE NULL

\* fh_close: drop one reference, or free the handle (and vfs_close its
\* vnode) when this was the last one.
fh_close(fh) ==
    IF fh.refcount > 1 THEN [fh EXCEPT !.refcount = @ - 1] ELSE NULL

\* fh_incref.
fh_incref(fh) == [fh EXCEPT !.refcount = @ + 1]

\* ft_close (and the locked part of sys_close): close the handle fd names
\* and free the descriptor, all under ft_lock.
ft_close(p, fd) ==
    /\ ft_fhs' = [ft_fhs EXCEPT ![p_fds[p][fd]] = fh_close(@)]
    /\ p_fds' = [p_fds EXCEPT ![p][fd] = FD_FREE]

-----------------------------------------------------------------------------
(* Descriptor system calls                                                 *)

\* sys_open: the lowest free descriptor, then under ft_lock the lowest
\* empty slot and a new handle; the descriptor is filled in after ft_lock
\* is released. EMFILE, ENFILE and a failing vfs_open change nothing.
sys_open(p, v, acc) ==
    /\ pc[p] = "idle"
    /\ \E fd \in Fds : p_fds[p][fd] = FD_FREE
    /\ \E s \in Slots : ft_fhs[s] = NULL
    /\ LET fd == Min({d \in Fds : p_fds[p][d] = FD_FREE})
           s == Min({t \in Slots : ft_fhs[t] = NULL})
       IN /\ ft_fhs' = [ft_fhs EXCEPT ![s] =
                          [file |-> v, off |-> 0, refcount |-> 1, flags |-> acc]]
          /\ p_fds' = [p_fds EXCEPT ![p][fd] = s]
    /\ UNCHANGED <<useLock, fsize, pc, loc>>

\* sys_close of an open descriptor (a free one is EBADF).
sys_close(p, fd) ==
    /\ pc[p] = "idle"
    /\ fd \in OpenFds(p)
    /\ ft_close(p, fd)
    /\ UNCHANGED <<useLock, fsize, pc, loc>>

\* sys_dup2, up to fh_incref: ft_get of oldfd, then sys_close of newfd if
\* it is open. oldfd = newfd returns at once and is not a step.
sys_dup2(p, old, new) ==
    /\ pc[p] = "idle"
    /\ old \in OpenFds(p) /\ old # new
    /\ IF new \in OpenFds(p) THEN ft_close(p, new)
                             ELSE UNCHANGED <<ft_fhs, p_fds>>
    /\ pc' = [pc EXCEPT ![p] = "dup2"]
    /\ loc' = [loc EXCEPT ![p] = [NoLocals EXCEPT !.fd = old, !.new = new,
                                                  !.slot = p_fds[p][old]]]
    /\ UNCHANGED <<useLock, fsize>>

\* The rest of sys_dup2: fh_incref of the handle ft_get returned, then
\* newfd takes oldfd's slot.
dup2_incref(p) ==
    /\ pc[p] = "dup2"
    /\ ft_fhs' = [ft_fhs EXCEPT ![loc[p].slot] = fh_incref(@)]
    /\ p_fds' = [p_fds EXCEPT ![p][loc[p].new] = p_fds[p][loc[p].fd]]
    /\ pc' = [pc EXCEPT ![p] = "idle"]
    /\ loc' = [loc EXCEPT ![p] = NoLocals]
    /\ UNCHANGED <<useLock, fsize>>

-----------------------------------------------------------------------------
(* read, write and lseek                                                   *)

\* Mutant: readwrite without fh_use_lock.
rw_start_no_lock(p, fd, op) ==
    /\ pc[p] = "idle"
    /\ fd \in OpenFds(p)
    /\ LET s == p_fds[p][fd]
           fh == ft_fhs[s]
       IN /\ op = "read" => fh.flags # "O_WRONLY"
          /\ op = "write" => fh.flags # "O_RDONLY"
          /\ loc' = [loc EXCEPT ![p] = [NoLocals EXCEPT !.slot = s, !.op = op,
                                                        !.off = fh.off]]
          /\ pc' = [pc EXCEPT ![p] = "rwIO"]
    /\ UNCHANGED <<p_fds, ft_fhs, fsize, useLock>>

\* readwrite, up to the VOP call: ft_get, the access-mode check (EBADF
\* otherwise), and lock_acquire(fh_use_lock) for a seekable file, which
\* sleeps while another process holds it. uio_uinit takes fh_off once the
\* lock is held. The console is used without the lock.
rw_start(p, fd, op) ==
    /\ pc[p] = "idle"
    /\ fd \in OpenFds(p)
    /\ LET s == p_fds[p][fd]
           fh == ft_fhs[s]
           locking == fh.file \in Seekable
       IN /\ op = "read" => fh.flags # "O_WRONLY"
          /\ op = "write" => fh.flags # "O_RDONLY"
          /\ loc' = [loc EXCEPT ![p] = [NoLocals EXCEPT !.slot = s, !.op = op,
                                                        !.off = fh.off]]
          /\ IF locking /\ useLock[s] # NoProc
             THEN /\ pc' = [pc EXCEPT ![p] = "rwWait"]
                  /\ UNCHANGED useLock
             ELSE /\ pc' = [pc EXCEPT ![p] = "rwIO"]
                  /\ useLock' = IF locking THEN [useLock EXCEPT ![s] = p]
                                ELSE useLock
    /\ UNCHANGED <<p_fds, ft_fhs, fsize>>

\* A reader or writer woken on fh_use_lock takes it and reads fh_off.
rw_acquire(p) ==
    /\ pc[p] = "rwWait"
    /\ useLock[loc[p].slot] = NoProc
    /\ useLock' = [useLock EXCEPT ![loc[p].slot] = p]
    /\ pc' = [pc EXCEPT ![p] = "rwIO"]
    /\ loc' = [loc EXCEPT ![p].off = ft_fhs[loc[p].slot].off]
    /\ UNCHANGED <<p_fds, ft_fhs, fsize>>

\* VOP_READ or VOP_WRITE of one unit at the offset taken, then, for a
\* seekable file, fh_off = uio_offset and lock_release. A read at or past
\* the end transfers nothing. A write at MaxOff fails (the bound stands for
\* VOP_WRITE's ENOSPC) and returns the error: when checkErr holds, without
\* touching fh_off, and when unlockOnErr holds, after lock_release.
RwFinish(p, checkErr, unlockOnErr) ==
    /\ pc[p] = "rwIO"
    /\ LET s == loc[p].slot
           v == ft_fhs[s].file
           failed == checkErr /\ loc[p].op = "write" /\ loc[p].off = MaxOff
           n == IF loc[p].op = "write" THEN 1
                ELSE IF loc[p].off < fsize[v] THEN 1 ELSE 0
       IN IF v \in Seekable
          THEN /\ fsize' = IF loc[p].op = "write" /\ ~failed
                           THEN [fsize EXCEPT ![v] = IF @ > loc[p].off THEN @
                                                     ELSE loc[p].off + 1]
                           ELSE fsize
               /\ ft_fhs' = IF failed THEN ft_fhs
                            ELSE [ft_fhs EXCEPT ![s].off = loc[p].off + n]
               /\ useLock' = IF failed /\ ~unlockOnErr THEN useLock
                             ELSE [useLock EXCEPT ![s] = NoProc]
          ELSE UNCHANGED <<fsize, ft_fhs, useLock>>
    /\ pc' = [pc EXCEPT ![p] = "idle"]
    /\ loc' = [loc EXCEPT ![p] = NoLocals]
    /\ UNCHANGED p_fds

\* Mutant: a failed write returns without lock_release.
rw_done_keeps_lock(p) == RwFinish(p, TRUE, FALSE)

\* Mutant: the error of VOP_WRITE is not checked, and fh_off takes
\* uio_offset past the end anyway.
rw_done_ignores_error(p) == RwFinish(p, FALSE, TRUE)

\* The end of readwrite.
rw_done(p) == RwFinish(p, TRUE, TRUE)

\* sys_lseek: ft_get, then fh_use_lock. On the console it returns ESPIPE
\* and changes nothing, so only seekable files are steps.
sys_lseek(p, fd) ==
    /\ pc[p] = "idle"
    /\ fd \in OpenFds(p)
    /\ Fh(p, fd).file \in Seekable
    /\ loc' = [loc EXCEPT ![p] = [NoLocals EXCEPT !.slot = p_fds[p][fd]]]
    /\ IF useLock[p_fds[p][fd]] = NoProc
       THEN /\ useLock' = [useLock EXCEPT ![p_fds[p][fd]] = p]
            /\ pc' = [pc EXCEPT ![p] = "seek"]
       ELSE /\ pc' = [pc EXCEPT ![p] = "seekWait"]
            /\ UNCHANGED useLock
    /\ UNCHANGED <<p_fds, ft_fhs, fsize>>

seek_acquire(p) ==
    /\ pc[p] = "seekWait"
    /\ useLock[loc[p].slot] = NoProc
    /\ useLock' = [useLock EXCEPT ![loc[p].slot] = p]
    /\ pc' = [pc EXCEPT ![p] = "seek"]
    /\ UNCHANGED <<p_fds, ft_fhs, fsize, loc>>

\* The body of sys_lseek under fh_use_lock: the new offset from whence and
\* pos; a negative one is EINVAL. Then lock_release.
NewOff(fh, whence, pos) ==
    CASE whence = "SEEK_SET" -> pos
      [] whence = "SEEK_CUR" -> fh.off + pos
      [] whence = "SEEK_END" -> fsize[fh.file] + pos

lseek_set(p) ==
    /\ pc[p] = "seek"
    /\ \E whence \in {"SEEK_SET", "SEEK_CUR", "SEEK_END"}, pos \in -1 .. 1 :
          LET s == loc[p].slot
              new == NewOff(ft_fhs[s], whence, pos)
          IN /\ new <= MaxOff
             /\ ft_fhs' = IF new < 0 THEN ft_fhs
                          ELSE [ft_fhs EXCEPT ![s].off = new]
    /\ useLock' = [useLock EXCEPT ![loc[p].slot] = NoProc]
    /\ pc' = [pc EXCEPT ![p] = "idle"]
    /\ loc' = [loc EXCEPT ![p] = NoLocals]
    /\ UNCHANGED <<p_fds, fsize>>

-----------------------------------------------------------------------------
(* fork and _exit                                                          *)

\* sys_fork's fork_common, from the point it holds the parent's
\* p_waitlock: the new process c (a free pid, proc_create) gets a copy of
\* the descriptor table, one descriptor per step. The pid table, the child
\* list and as_copy are not file-table state.
sys_fork(p, c) ==
    /\ pc[p] = "idle"
    /\ pc[c] = "unborn"
    /\ pc' = [pc EXCEPT ![p] = "forkFd"]
    /\ loc' = [loc EXCEPT ![p] = [NoLocals EXCEPT !.child = c]]
    /\ UNCHANGED <<p_fds, ft_fhs, useLock, fsize>>

\* The next iteration of the copy loop, or the end of fork: the child runs.
ForkNext(p) ==
    IF loc[p].fd = OPEN_MAX - 1
    THEN /\ pc' = [pc EXCEPT ![p] = "idle", ![loc[p].child] = "idle"]
         /\ loc' = [loc EXCEPT ![p] = NoLocals]
    ELSE /\ pc' = [pc EXCEPT ![p] = "forkFd"]
         /\ loc' = [loc EXCEPT ![p].fd = @ + 1]

\* newproc->p_fds[i] = curproc->p_fds[i]; an open one is then passed to
\* ft_get, which sleeps on ft_lock.
fork_fd(p) ==
    /\ pc[p] = "forkFd"
    /\ p_fds' = [p_fds EXCEPT ![loc[p].child][loc[p].fd] = p_fds[p][loc[p].fd]]
    /\ IF p_fds[p][loc[p].fd] # FD_FREE
       THEN /\ pc' = [pc EXCEPT ![p] = "forkIncref"]
            /\ UNCHANGED loc
       ELSE ForkNext(p)
    /\ UNCHANGED <<ft_fhs, useLock, fsize>>

\* fh_incref of the handle ft_get(i, newproc) returned.
fork_incref(p) ==
    /\ pc[p] = "forkIncref"
    /\ ft_fhs' = [ft_fhs EXCEPT ![p_fds[loc[p].child][loc[p].fd]] = fh_incref(@)]
    /\ ForkNext(p)
    /\ UNCHANGED <<p_fds, useLock, fsize>>

\* kern__exit, up to its descriptor loop (pt_reap_coffin, p_waitlock, the
\* zombie state and the exit code are not file-table state).
kern__exit(p) ==
    /\ pc[p] = "idle"
    /\ p \in Exiting
    /\ pc' = [pc EXCEPT ![p] = "exit"]
    /\ UNCHANGED <<p_fds, ft_fhs, useLock, fsize, loc>>

\* One iteration of the loop: ft_close of the lowest open descriptor.
exit_close(p) ==
    /\ pc[p] = "exit"
    /\ OpenFds(p) # {}
    /\ ft_close(p, Min(OpenFds(p)))
    /\ UNCHANGED <<useLock, fsize, pc, loc>>

\* The loop is over; the rest of kern__exit leaves the file table alone.
exit_done(p) ==
    /\ pc[p] = "exit"
    /\ OpenFds(p) = {}
    /\ pc' = [pc EXCEPT ![p] = "zombie"]
    /\ UNCHANGED <<p_fds, ft_fhs, useLock, fsize, loc>>

-----------------------------------------------------------------------------

\* The steps a process takes in the kernel once a system call has started.
KernelStep(p) ==
    \/ dup2_incref(p) \/ rw_acquire(p) \/ rw_done(p)
    \/ seek_acquire(p) \/ lseek_set(p)
    \/ fork_fd(p) \/ fork_incref(p) \/ exit_close(p) \/ exit_done(p)

\* The system calls a process in user mode may make.
UserStep(p) ==
    \/ \E v \in Vnodes \ {Console}, acc \in OpenModes : sys_open(p, v, acc)
    \/ \E fd \in Fds : sys_close(p, fd) \/ sys_lseek(p, fd)
    \/ \E fd \in Fds, op \in {"read", "write"} : rw_start(p, fd, op)
    \/ \E old, new \in Fds : sys_dup2(p, old, new)
    \/ \E c \in Procs : sys_fork(p, c)
    \/ kern__exit(p)

Next == \E p \in Procs : UserStep(p) \/ KernelStep(p)

Spec == Init /\ [][Next]_vars

\* A process in the kernel keeps running: the scheduler is round-robin, and
\* a process asleep on fh_use_lock is woken by lock_release and takes the
\* lock unless it is taken again every time first (strong fairness).
FairSpec == Spec /\ \A p \in Procs : SF_vars(KernelStep(p))

-----------------------------------------------------------------------------
(* Properties                                                              *)

\* The descriptors that name slot s, and the forks that have copied a
\* descriptor naming s into the child but not yet done its fh_incref.
Refs(s) == {pf \in Procs \X Fds : p_fds[pf[1]][pf[2]] = s}
PendingIncref(s) ==
    {p \in Procs : pc[p] = "forkIncref" /\ p_fds[loc[p].child][loc[p].fd] = s}

\* fh_refcount counts exactly the descriptors, in every process, that name
\* the handle (less the forks between copying a descriptor and fh_incref),
\* and a slot whose handle fh_close freed is named by no descriptor. This
\* is what fork, dup2, close and _exit must keep between them; a wrong
\* count frees a handle another process still uses, or leaks it.
RefCountExact ==
    \A s \in Slots :
        IF ft_fhs[s] = NULL
        THEN Refs(s) = {}
        ELSE ft_fhs[s].refcount = Cardinality(Refs(s)) - Cardinality(PendingIncref(s))

\* While a read or write through a seekable handle is under way, nobody
\* else moves the handle's offset: readwrite writes fh_off back as the
\* offset it started at plus what it transferred, so a change by another
\* process sharing the handle (after fork or dup2) in between would be
\* lost, and two transfers would use the same offset.
OffsetNotClobbered ==
    \A p \in Procs :
        pc[p] = "rwIO" /\ ft_fhs[loc[p].slot].file \in Seekable
            => ft_fhs[loc[p].slot].off = loc[p].off

\* Every read, write or lseek that has started returns: every holder of
\* fh_use_lock releases it, on the error paths too.
RwCompletes ==
    \A p \in Procs :
        pc[p] \in {"rwWait", "rwIO", "seekWait", "seek"} ~> pc[p] = "idle"

====
