# TLA+ models of LongcatOS

LongcatOS is an OS/161 kernel. It has two cores:

- A demand-paged virtual memory system: a coremap, two-level page tables, clock eviction to a swap device, software-managed per-CPU TLBs with shootdown by IPI, and a paging daemon.
- A journaled SFS file system: a write-ahead journal, a checkpointer, and three-pass crash recovery.

This directory holds TLA+ models of these parts. It also holds the configurations that TLC checks them with.

## The system's parts

| Part | Source | State | Operations |
|---|---|---|---|
| Coremap and eviction | `vm/paging.c`, `include/coremap.h` | `cm_entry` per frame (owner as/vaddr, swap slot, owner CPU, dirty/tlb/busy bits), `cm_clock_head`, `cm_num_dirty`, spinlock `cm_lock`, wait channels `cm_wchan` (busy) and `cm_tlb_wchan` (tlb) | `page_get`, `page_write_out`, `page_swapin`, `page_fault` |
| Fault handler and TLB | `arch/mips/vm/vm.c` | per-CPU TLB (no ASIDs) | `vm_fault`, `vm_tlbshootdown`, `alloc_kpages`, `free_kpages` |
| Address spaces | `vm/addrspace.c`, `vm/pagetable.c` | page tables of `pt_entry` (valid, present, zeroed, writeable, ppn = frame or swap slot) | `pte_acquire`/`pte_release`, `as_activate`, `as_copy`, `as_destroy`, `as_define_region` |
| Swap | `vm/swap.c` | slot bitmap, slot 0 reserved | `swap_find_free`, `swap_read`, `swap_write`, `swap_destroy_block` |
| Paging daemon | `vm/daemon.c` | none of its own | writes dirty frames out above a dirty ratio |
| Heap | `syscall/sbrk.c` | heap bounds | grow (demand-zero PTEs), shrink (tear down pages) |
| Journal writer (`Journal.tla`) | `fs/sfs/sfs_logging.c` | active transaction list, record lock, odometer | `write_record` |
| Checkpointer | `fs/sfs/sfs_checkpoint.c` | the oldest transaction of each buffer and of the freemap | `checkpoint` trims the journal |
| Recovery | `fs/sfs/sfs_recovery.c`, `sfs_fsops.c` | journal records, aborted list, protected blocks | check, undo and redo passes at mount |
| Processes | `syscall/fork.c`, `exit.c`, `waitpid.c` | process table, exit status | fork, `_exit`, waitpid; their memory side is in `Paging.tla`, their descriptor side in `FileTable.tla` |
| Files (`FileTable.tla`) | `vfs/filetable.c`, `syscall/open.c`, `close.c`, `dup2.c`, `lseek.c`, `readwrite.c` | per-process `p_fds`, the shared `k_filetable` of `file_handle`s (vnode, offset, refcount, flags), `ft_lock`, each handle's `fh_use_lock` | open, close, dup2, lseek, read/write, the descriptor copy of fork and the closes of `_exit` |

How the VM parts interact:

- A user store goes straight to a frame through a dirty TLB entry. The kernel is not involved.
- A TLB miss, or a store through a clean entry, traps to `vm_fault`.
- `vm_fault` takes the address-space lock and `cm_lock`.
- `pte_acquire` marks the page's frame busy, or sleeps on `cm_wchan` while the frame is busy.
- `vm_fault` calls `page_swapin`, which calls `page_get` for a frame.
- `page_get` may evict a victim. Eviction writes the victim to swap through `page_write_out`, with `cm_lock` released for the I/O. It then shoots down the victim's TLB entry on `cme_owner_cpu`, inline or by IPI, and sleeps on `cm_tlb_wchan` until `cme_tlb` clears.
- The daemon runs the same `page_write_out` on dirty frames.
- `as_activate` flushes the whole TLB of a CPU whenever a thread with an address space is switched onto it.

## Modules

### `Paging.tla`: the VM core

Constants:

- `Procs`: single-threaded processes, one address space each.
- `VAs`: pages defined in every address space.
- `CPUs`.
- `NumFrames`: user frames.
- `NumSlots`: swap slots.
- `TLBSize`.
- `MaxWrites`: a bound on stores per page.
- `Daemons`: `{Daemon}`, or `{}` to leave the daemon out.
- `Affinity`: the CPUs each thread may run on.
- `Heap`: the heap pages, in order from `as_heap_start` up to `STACK_MIN`.
- `MaxSbrk`: a bound on `sbrk` calls per process.
- `Exiting`: the processes that exit during a run.
- `Forks`: pairs `<<parent, child>>`. The child is created by the parent's `fork` and starts `unborn`, with no valid pages.
- Sentinel model values.

Variables, and what they correspond to in the code:

- `pt[p][v]` is a `pt_entry`. `ppn` is a frame when present, a swap slot when not.
- `cm[f]` is a `cm_entry`, except for the kernel flags.
- `clockHead`, `numDirty` and `swapUsed` are `cm_clock_head`, `cm_num_dirty` and the swap bitmap.
- `tlb[c][i]` is CPU `c`'s TLB.
- `ipi[c]` holds the shootdown requests queued for CPU `c`.
- `running` and `host` are the thread on each CPU and `curcpu` of each thread.
- `cmLock` is the holder of `cm_lock`.
- `coreWaiters` and `tlbWaiters` are the sleepers on the two wait channels.
- `mem[f]` and `disk[s]` hold page contents, abstracted to a write count. The n-th store to a page writes n.
- `expected` is a ghost: the last value each process stored to each page.
- `pc[t]` and `loc[t]` are each thread's position in the code and its locals.
- `heap[p]` is `as_heap_size` in pages, together with the number of `sbrk` calls made so far (the bound).

Every stretch of code that runs under `cm_lock` is one action. The lock is released only where the code releases it: around `swap_read` and `swap_write`, and in `wchan_sleep`. That is what splits `page_write_out` and `page_swapin`:

- `StartWriteOut` and `page_write_out_io` are the steps before and after the swap write.
- `page_write_out_shoot` is the shootdown.
- `TlbWait` and `TlbWake` are the `while (cme_tlb) wchan_sleep` loop.
- `page_swapin` and `page_swapin_io` are the steps before and after the swap read.

The other actions:

- `vm_fault_acquire`: `vm_fault` up to `pte_acquire`.
- `page_get`: all three passes.
- `page_get_final`: the tail of `page_get`.
- `vm_fault_install`: `vm_fault` after the page is present.
- `HandleIPI`: `vm_tlbshootdown` on the target CPU.
- `Schedule` and `Deschedule`: a thread switch, with `as_activate`'s flush.
- `UserAccess`: a user load or store, done by the MIPS TLB.
- `daemon_start`, `daemon_scan` and `daemon_after_write`: the daemon's loop.
- `sbrk_grow`: `sys_sbrk` growing the heap. It is one step: a new page's PTE is made invalid, writeable and demand-zero, and no lock but `as_lock` is involved.
- `sbrk_shrink`, `sbrk_shrink_page` and `sbrk_free`: the shrink loop, from the top page down.
  - `sbrk_shrink_page` is `pte_acquire`. It sleeps on `cm_wchan` while the frame is busy. For a page only in swap, it does `swap_destroy_block`.
  - `sbrk_free` handles a present page. It shoots the local TLB entry down and wipes the coremap entry without `cm_lock`. It gives the slot back and does `pte_release`.
  - `cm_num_dirty` is left alone, as in the code.
- `vm_fault_acquire` also fails with EFAULT above the heap top. The process is killed.
- Error returns of `sbrk` (EINVAL, ENOMEM, amount 0) change nothing, so they are not steps.
- `kern__exit`: `_exit`, or the kill of a process that faulted outside its heap. The thread leaves its CPU for good, and its TLB entries stay where they are. Files, the exit code and the wait handshake are left out.
- `pgt_destroy_page`, `pgt_destroy_free` and `as_destroy_done`: the address-space teardown, done by whichever thread reaps the process (the parent in `waitpid`, or the coffin). Those steps run on no CPU of the exited thread's.
  - `pgt_destroy_page` is `pte_acquire` on the next valid PTE. It sleeps on `cm_wchan` while a write-out or eviction holds the frame busy. If the page has gone to swap meanwhile (`pte_acquire` returns -1), or was never present, it gives the slot back.
  - `pgt_destroy_free` frees a present page's frame under `cm_lock`. It decrements `cm_num_dirty` for a dirty frame. It clears `cme_tlb` without a shootdown and leaves `cme_swap_location` in the free entry. Then it does `pte_release` and gives the slot back.
  - The loop index is abstracted: a freed PTE is marked invalid.
- `sys_fork`, `fork_copy_page`, `fork_have`, `fork_copy` and `fork_done`: `as_copy` into an unborn child. Only what fork does to memory is modelled; the pid table, files and the trapframe are left out.
  - `sys_fork` starts the copy.
  - `fork_copy_page` is `pte_acquire` on the next valid parent page the child lacks. It sleeps on `cm_wchan` while the frame is busy.
  - `fork_have` runs under `cm_lock`. A page only in swap goes through `page_swapin` first, as `vm_fault` does. A present page goes to `page_get(0)` for the child's frame. `AfterSwapin` and `AfterGet` route the shared `page_get`/`page_swapin` steps back to `as_copy`.
  - `fork_copy` fills in the child's coremap entry, busy, copies the page and writes the child's PTE (valid, present, writeable). It then does `pte_release` on the parent's page. The child's frame stays busy.
  - `fork_done` clears the busy bit of every child frame, wakes `cm_wchan`, copies the heap size, and lets both processes run.
  - The child's pages are all present. The model never makes a zeroed page, so the `pte_zeroed` branch of `as_copy` is not reached.

The second pass of `page_get` looks for a clean frame. The first pass has already taken every frame it could return, so the second pass never succeeds and leaves the clock hand where it was. The model therefore has no action for it.

Properties:

- **`FrameMapConsistent`**: PTE and coremap point at each other (spec section 8).
- **`BusyHeldByOne`**: a frame is busy exactly when one thread is in the middle of an operation on it. The holder is read off the thread's program counter.
- **`NumDirtyCovers`**: `cm_num_dirty` is never below the number of dirty frames. `vm_fault` raises it when a store dirties a frame. `page_write_out` and `pgt_destroy` lower it, each under `cm_lock`. The counter may run ahead (see `sbrk.c:130` below), but if it fell behind, the daemon's threshold test would leave dirty frames for `page_get` to write out synchronously. The mutant `pgt_destroy_free_undirty_always` counts every torn-down frame out.
- **`NoLostWrite`**: every page that exists holds the last value its process stored, wherever the page lives.
- **`SwapAccounted`**: the swap bitmap marks exactly the slots some page still lives in. Those are:
  - the slot of a frame;
  - the slot named by an absent page's PTE;
  - the slot of a write-out in progress.

  A leak or an early free breaks it. `sbrk` and `pgt_destroy` are the code in the model that frees slots. A free frame's `cme_swap_location` is stale after `pgt_destroy` and is not counted.
- **`WriteOutReturns`** (liveness): every `page_write_out` that has started its swap write returns to its caller.
- **`DestroyCompletes`** (liveness): the teardown of an exited process finishes. Whoever clears a busy bit `pgt_destroy` sleeps on must also wake `cm_wchan`.
- **`TLBIsolation`**: every valid TLB entry of the running process maps a frame that process owns at that page.
- **`CleanFrameNotWritable`**: no CPU running a process holds a writable TLB entry for a frame the coremap calls clean, except while a write-out is still shooting that entry down. Only CPUs running a process count, because `as_activate` flushes a CPU's entries before any other process runs there. An exited process's entries are therefore not covered.
- **`NoEvictionSpin`**: `page_get` never enters its endless loop.

`MC_Paging.tla` supplies the model values, the symmetry of processes and CPUs, the symmetry of pages, and three affinities:

- `AnyCPU`: any thread may run on any CPU.
- `Pinned`: each thread stays on the CPU it started on. OS/161 threads stay put unless `thread_consider_migration` moves them, so pinned runs are a subset of the real behaviours.
- `DaemonApart`: the daemon runs on c2 and every process on c1, so write-outs reach the owner's TLB only by IPI.


### `Journal.tla`: the journal writer and the checkpointer

How the file-system parts interact:

- A file-system operation runs as a transaction.
- `write_record(START_TRANSACTION)` takes `sfs_recordlock`. It uses `sfs_jphys_peeknextlsn()` as the transaction id (`t_tnx`), adds it to `sfs_active_tnx`, and writes the START record.
- Each change writes its record first. It then notes `t_tnx` in the metadata of the changed block (`update_buffer_metadata`) or of the freemap (inline in `sfs_balloc` / `sfs_bfree_prelocked`).
- END or ABORT removes the id from the active list.
- Every record bumps the odometer. Once it reaches `sfs_checkpoint_bound`, the writer broadcasts to the checkpointer.
- `checkpoint()` computes `lsn_keep` and trims the journal below it. `lsn_keep` is the minimum of:
  - the next LSN;
  - the active ids;
  - the oldest id of each dirty buffer;
  - the freemap's oldest id.
- `sfs_sync_freemap` flushes the journal through the freemap's `md_newtnx`, writes the freemap, and clears its metadata.

`Journal.tla` has writer threads (`Writers`), buffers (`Bufs`), the freemap (`Freemap`) and one checkpointer thread.

- A change is named by the LSN of its record.
  - `cache[x]` and `disk[x]` are the changes in the in-memory and on-disk copies of block or freemap `x`.
  - `written` is every record ever appended. The journal is the part at or above `tail`.
  - `durable` is how far the journal is on disk.
- Actions:
  - `start_peek`, `start_register` and `start_write` are the three steps of a START. They are split where other threads can interleave: the active-list lock is taken separately, and other writers' records do not take the record lock.
  - `sfs_balloc`, `sfs_bfree_prelocked`, `clear_record` and `clear_metadata` are the changes.
  - `end_transaction` is END or ABORT.
  - `sfs_sync_freemap` and `sfs_jphys_flushall` are the sync path.
  - `checkpoint_test` and `checkpoint_wait` are the checkpointer's loop, with the lost-wakeup window between them.
  - `checkpoint_peek`, `checkpoint_active`, `checkpoint_metadata` and `checkpoint_trim` are the reads of `checkpoint()`, each under its own lock.
  - `BufferWriteBack` is the buffer cache. It is outside `src/` and is modelled from the spec: a written buffer's metadata starts over.

`Needed` is every record of a transaction that is active or has a change still only in memory. Recovery needs the START as well, because its check pass (`sfs_fsops.c:733-792`) decides whether a transaction committed by pairing START with END.

Properties:

- **`NeededRetained`**: no needed record is trimmed.
- **`TrimSafe`**: spec section 8. Every active id, and the oldest id of every dirty buffer and of the dirty freemap, is at or above the trim point.

### `Recovery.tla`: the writers, a crash, and the three recovery passes

`Recovery` composes the journal's producers with the recovery code in `sfs_domount` (`sfs_fsops.c:702-905`) and `sfs_recovery.c`.

Before the crash:

- Writer threads run transactions (`write_record_start`, `write_record_end`).
  - `sfs_balloc` takes the lowest free block. It logs ALLOC, then the ZERO_BLOCK of `sfs_clearblock_internal`. Its failure path logs the ALLOC and unmarks the bit without a record (`sfs_balloc.c:126-139`).
  - `sfs_bfree_prelocked` logs FREE.
  - `WriteBlock` logs WRITE_BLOCK for user data.
  - `ChangeBlockObj` logs CHANGE_BLOCK_OBJ, setting a word of an indirect or directory block.
  - `ChangeInodeType`, `ChangeSize` and `ChangeLinkCnt` log CHANGE_INODE_TYPE, CHANGE_SIZE and CHANGE_LINK_CNT on an inode block. The size and link-count records carry the inode's type, as `write_record` does (`sfs_logging.c:122-140`).
    - A type is given only to a freshly zeroed inode, because `sfs_makeobj` always allocates a new block.
    - Only a live inode is set back to INVAL.
  - Every change records its old and new value, and notes the transaction in the buffer's `md_oldtnx` (`LoggedChange`).
- The buffer cache writes blocks back (`BufferWriteBack`). It first flushes the journal through the block's newest record. That is the WAL rule of the buffer layer, modelled from the spec.
- `sfs_sync_freemap` flushes the journal through `md_newtnx`, then writes the freemap.
- `sfs_jphys_flushall` flushes the journal.
- `checkpoint` trims to the minimum of the next LSN, the active ids, and the `md_oldtnx` of dirty blocks and of the freemap.

Every state is a crash point. The crash image is:

- the durable journal window, `SubSeq(log, tail, durable)`;
- the blocks on disk;
- the freemap on disk.

`Recovered` runs the code's passes on that image:

- the check pass (`CheckPass`), newest to oldest, builds the protected blocks and the aborted list;
- the undo pass (`undo_record`, `FoldRight`) fills `latest_writes`;
- the redo pass (`redo_record`, `FoldLeft`).

Each parser is an operator named after its C function.

A block is a record of the fields the records touch: `word` (user data, or the word CHANGE_BLOCK_OBJ sets), and the inode's `type`, `size` and `link`. A value is named by the LSN of the record that wrote it. `fletcher32` is taken as collision-free.

The inode parsers re-initialise an image whose type is not the record's (`reinit_inode`, `sfs_recovery.c:450-454`; `parse_change_inode_type` compares with the type the record leaves).

The reference is computed from every durable record, trimmed ones included:

- `RefAlloc` and `RefInUse` give a block's newest committed allocation.
- `RefBlock` applies the committed records since that allocation, in LSN order, as the buffer cache did.
- The metadata properties compare images as files see them (`Visible`): the size and link count of an inode of type INVAL are never read.
  - Without this, TLC reports a reclaimed inode whose size record was trimmed. Undoing the reclaim's CHANGE_INODE_TYPE finds the on-disk type FILE, not INVAL, and zeroes the image. The size is lost, but it belongs to no file.

Properties:

- **`RecoveredAllocated`**: a block a committed transaction allocated and did not free is marked in the recovered freemap.
- **`NoStaleData`**: spec section 8, case 6. A block in use never comes back with its previous owner's data.
- **`CommittedNoStaleData`**: the same, for blocks that only committed transactions touched.
- **`CommittedMetadataRecovered`**: such a metadata block or inode holds what the committed changes left in it.
  - At these bounds the re-initialisation is never what makes it hold. Whenever an image can have the wrong type, the redo of the block's ZERO_BLOCK has already given a fresh image. A variant without the bzero passes too.
- **`MetadataRecovered`**: every metadata block in use holds the newest committed change, so uncommitted changes are undone (spec 4.9).

### `FileTable.tla`: descriptors, the file table and the file syscalls

Constants:

- `Procs`, `FirstProc` (the process that owns the console at boot), `Exiting` (the processes that may call `_exit`);
- `Vnodes`, with the console `Console` and the `Seekable` files;
- `OPEN_MAX` descriptors per process and `FD_FREE` slots of `k_filetable`;
- `MaxOff`, a bound on offsets and file sizes, in transfer units;
- `OpenModes`, the access modes `open` is called with.

State:

- `p_fds[p][fd]`: a slot of the file table, or `FD_FREE`.
- `ft_fhs[s]`: `NULL` or a handle record of vnode, `fh_off`, `fh_refcount` and access flags.
- `useLock[s]`: the holder of the handle's `fh_use_lock`, or `NoProc`.
- `fsize[v]`: the size of each file. Contents are left out; only offsets and sizes matter to the properties.
- `pc[p]` and `loc[p]`: where each process is inside a system call, and the locals it keeps across a sleep (the fd, the slot, the offset read at the start of a transfer, the fork child).

Step granularity. Each action is one stretch that runs under `ft_lock`, under one `fh_use_lock`, or that touches only the running process's own `p_fds`. Processes are single-threaded, so nothing else reads a process's `p_fds` between two such stretches. A system call that releases a lock and takes another is split where it does:

- `sys_open` and `sys_close` are one step each (`ft_close` and `fh_close` run under `ft_lock`).
- `sys_dup2` closes the target descriptor in one step, and `dup2_incref` does `fh_incref` and the copy (`dup2.c:56-66`).
- A read or write is `rw_start` (the EBADF and access checks, and the lock if the file is seekable), `rw_acquire` (the wait on `fh_use_lock`), and `rw_done`. `rw_done` moves `fh_off` from the offset read at the start, or on the error path releases the lock and changes nothing. A write at `MaxOff` stands for ENOSPC.
- `lseek` is `sys_lseek`, `seek_acquire`, and `lseek_set`, which applies SEEK_SET, SEEK_CUR or SEEK_END with a position in -1..1, and returns EINVAL on a negative result.
- Fork copies the parent's descriptors one per step (`fork_fd`), each followed by its `fh_incref` (`fork_incref`), as the loop at `fork.c:105-117` does.
- `_exit` closes the lowest open descriptor per step (`exit_close`) and then becomes a zombie (`exit_done`).

Init: `FirstProc` has the console descriptors in `BootFds` open, and the other processes are unborn. `ft_init` opens fds 0, 1 and 2 on the console. A process that has closed the others is a state the program reaches, and it keeps the model small.

Properties:

- `RefCountExact`: every handle's `fh_refcount` equals the number of descriptors, across all processes, that name its slot, less the forks that have copied a descriptor but not yet done its `fh_incref`. A freed slot is named by no descriptor. The mutant `fh_close_frees_at_two` frees a handle whose count is 2, and TLC then finds a descriptor naming a freed slot.
- `OffsetNotClobbered`: while a transfer on a seekable handle is under way, the handle's offset is the one the transfer read. The mutant `rw_start_no_lock` skips `fh_use_lock`, and two processes sharing a handle after fork then use the same offset.
- `TypeOK` bounds every offset and size by `MaxOff`. The mutant `rw_done_ignores_error` stores `uio_offset` after a failed write, and the offset passes the end.
- `RwCompletes`: under `FairSpec`, every read, write and lseek returns. The mutant `rw_done_keeps_lock` keeps the lock on the write error path, and the other sharer waits forever.

## Runs

| Run | Config | Expect | What it shows |
|---|---|---|---|
| `paging_daemon` | 1 CPU, 1 process with 3 pages, daemon, 2 frames, 3 slots, 1 store per page | pass (509k states under page symmetry, under 1 min) | Clock eviction and daemon write-outs keep contents, links and the busy protocol intact on one CPU. |
| `paging_isolation` | 1 CPU, p1 with 2 pages forks p2, p2 may exit, 3 frames, 4 slots, no daemon, no stores | pass (257k states, under 1 min) | Through `as_copy`, swap-ins and evictions of each other's pages, and p2's teardown, the two processes never share a frame or keep a usable entry for a lost frame. The swap bitmap stays exact, and with one frame more than the parent's pages `page_get` never spins. |
| `paging_daemon_ipi` | 2 CPUs: 1 process with 2 pages (one of them heap) on c1, daemon on c2, 2 frames, no stores (write faults still dirty frames), 2 `sbrk` calls | pass (128k states, about 2 min with the liveness checks) | The daemon's write-outs shoot the owner's entries down by IPI, wait on `cm_tlb_wchan`, and leave no clean frame writable. `cm_num_dirty` never falls behind the dirty frames (`NumDirtyCovers`). Meanwhile the owner grows and shrinks its heap with `sbrk` and may exit. The swap bitmap stays exact through the shrink and the teardown (`SwapAccounted`). Under `FairSpec`, every write-out returns (`WriteOutReturns`) and every teardown finishes (`DestroyCompletes`). |
| `paging_lostwrite` | 2 CPUs, 2 pinned processes, 1 page each, 1 frame | violation of `NoLostWrite` | Shown in the trace below. |
| `paging_migrate` | 2 CPUs, 2 processes, 1 frame | violation of `TLBIsolation` | Shown in the trace below. |
| `paging_spin` | 1 CPU, p1 with 2 pages forks p2, 2 frames | violation of `NoEvictionSpin` | Shown in the trace below. |
| `journal_one` | 1 writer, 1 buffer, LSNs up to 6, bound 2 | pass (844k states, under 1 min) | The checkpointer keeps every needed record (`NeededRetained`), and the spec's trim invariant holds (`TrimSafe`), under every interleaving with write-back, syncs and flushes. |
| `journal_trim` | 2 writers, LSNs up to 6 | violation of `NeededRetained` | Shown in the trace below. |
| `recovery` | 1 writer, 2 blocks, 9 records, FILE inodes | pass (1.18M states, about 2.5 min) | Crash at any point, after any write-backs, syncs and checkpoints: committed-only blocks recover with their committed metadata words and inode fields, and never with a previous owner's data. |
| `recovery_stale` | 1 writer, 1 block, 10 records | violation of `NoStaleData` | Shown in the trace below. |
| `recovery_freemap` | 1 writer, 1 block, 6 records | violation of `RecoveredAllocated` | Shown in the trace below. |
| `filetable` | 2 processes: p1 with stdout open forks p2, p2 may exit; one seekable file f1, 2 descriptors, 3 slots, offsets up to 1 | pass (211k states, about 1.5 min with the liveness check) | Through open, close, dup2, fork's descriptor copy, `_exit`'s closes, reads, writes and lseeks of both processes on shared handles, every `fh_refcount` equals the descriptors naming it (`RefCountExact`), no transfer's offset is moved under it (`OffsetNotClobbered`), and under `FairSpec` every read, write and lseek returns (`RwCompletes`). |

What the violation traces show:

- **`paging_lostwrite`.** p2 on c2 evicts p1's frame. The swap write happens first. p1 on c1 then stores through its dirty TLB entry. Only after that does the shootdown IPI arrive, and the PTE is pointed at the stale slot.
- **`paging_migrate`.** p1 faults on c1, moves to c2 and faults again. `cme_owner_cpu` still says c1. Switching p2 onto c1 flushes c1 and clears `cme_tlb`, while p1's entry on c2 remains. p2 then evicts the frame with no shootdown and takes it for itself.
- **`paging_spin`.** In 19 states:
  1. p1 forks with both its pages in swap. `as_copy` swaps `a1` in and copies it into the child's frame, which stays busy (`addrspace.c:152`).
  2. `as_copy` swaps the parent's `a2` in. `page_get` writes out and evicts the parent's `a1`, the only frame not busy.
  3. `page_get(0)` for the child's copy of `a2` now finds both frames busy: the child's copy of `a1` and the parent's `a2`. Its do-while loop spins with `cm_lock` held, and the busy bits are cleared only after the copy loop ends (`addrspace.c:195-199`).

  Forking any process with as many valid pages as user frames therefore hangs the kernel. The same loop also spins without fork, when concurrent faults hold every frame busy: with one frame, one process's swap-in holds it while another process needs a frame.

- **`journal_trim`.** In order:
  1. w2 starts T1 (id 1). w1 starts T2 (id 2).
  2. T2 allocates a block. The freemap's `md_oldtnx` becomes 2.
  3. T1 frees a block. `md_oldtnx` stays 2, because it is set only when zero.
  4. T1 ends.
  5. `checkpoint()` computes `lsn_keep = 2` and trims T1's START, while T1's FREE is still only in the in-memory freemap.
  6. After a crash, recovery would find T1's END without its START. It would put T1 on the aborted list, skip the redo of a committed change, and still undo its FREE.
- **`recovery_stale`.** In order:
  1. T1 allocates the block, writes it (LSN 4), and the write is written back.
  2. T1 frees the block and reallocates it. The new ZERO_BLOCK is not written back. T1 commits.
  3. T9 writes the block and never ends.
  4. Crash. The undo pass puts T9's aborted WRITE_BLOCK into `latest_writes`. `parse_write_block` returns early for aborted transactions, so the block is neither checksummed nor zeroed.
  5. The redo pass skips the committed ZERO_BLOCK because `latest_writes` is newer. The block keeps T1's first write.
- **`recovery_freemap`.** In order:
  1. T1 allocates the block and commits.
  2. T5 frees it. `sfs_sync_freemap` flushes only through `md_newtnx = 5`, the START, and writes the freemap with the bit clear. The FREE record is not durable.
  3. A checkpoint trims T1's ALLOC. Crash.
  4. Recovery finds no record of the block. A block a committed file uses is free and can be allocated again.

A result with no run of its own, because the project is at its limit of runs:

- The undo pass never undoes metadata changes. The `recovery` module, with the invariant `MetadataRecovered` and 1 writer, 1 block and 6 records, breaks it in this trace; the run that showed it gave up its slot to `filetable`:
  1. T1 allocates the block and commits. A checkpoint trims T1's records.
  2. T5 changes the metadata block. The change is written back. Crash.
  3. T5 is aborted, and every parser skips aborted transactions in the undo pass too. The change stays on disk.

  The cause is `sfs_recovery.c:687`: every parser returns early for an aborted transaction, in the undo pass as in the redo pass.
- `as_copy` skips invalid PTEs, and `pgt_init` sets only `pte_valid` and `pte_padding` of a new page table (`pagetable.c:44-47`, `addrspace.c:175`). A heap page the parent grew but never touched is invalid. So the child's PTE for it has the other fields of fresh `kmalloc` memory, and the child's first fault there reads `pte_present` and `pte_zeroed` uninitialised. The model gives those fields zero, the one outcome in which the fault works.
- `as_copy`'s error returns (`page_get(0)` failing with swap full, or `kmalloc` failing) leave the child frames already copied busy. `sys_fork` then destroys the child (`fork.c:54`), and `pgt_destroy`'s `pte_acquire` sleeps on those frames forever. The model has no ENOMEM path, so no run reaches it.

- `sbrk`'s shrink clears `cme_dirty` of a dirty frame without decrementing `cm_num_dirty` (`sbrk.c:130`). The IPI configuration was checked once with the invariant `numDirty = Cardinality({f : cm[f].dirty})`. TLC breaks it in 11 steps: grow, write fault, shrink.
  - Afterwards `cm_num_dirty` is 1 and no frame is dirty.
  - Every further cycle adds one.
  - The daemon's threshold test then passes on every tick with nothing to write.
  - `TypeOK` therefore allows any natural number for `numDirty`. `NumDirtyCovers` checks the direction that holds: the counter never falls behind.
- `pgt_destroy` clears `cme_tlb` without a shootdown (`pagetable.c:77`). The exited process's entries stay in its last CPU's TLB. `as_activate`'s flush-all clears `cme_tlb` of the frame behind every flushed entry, whoever owns that frame by then (`vm.c:391`). A scratch configuration was checked once: three processes, two CPUs, one frame, p1 exiting, every thread pinned (p2 on c2, the others on c1). TLC breaks `TLBIsolation` in 22 steps:
  1. p1 maps the frame on c1 and exits.
  2. The reaper frees the frame.
  3. p2 faults on c2 and maps the same frame.
  4. p3 is activated on c1. The flush of p1's stale entry clears the frame's `cme_tlb`.
  5. p3 faults and evicts the frame without a shootdown.
  6. p2, running on c2, still holds a TLB entry for a frame p3 now owns.

  `paging_migrate` reaches the same failure through migration. This path needs none.

Two results of the previous sitting are no longer checked by a run of their own. They were dropped to make room for the recovery runs, and both remain true of the code:

- `page_swapin` sets `pte_writeable=1` on every page (`paging.c:149`). A page `as_define_region` made read-only therefore becomes writable at its first fault, against spec sections 7 and 11.
- `write_record` takes a transaction id from `sfs_jphys_peeknextlsn` before registering it (`sfs_logging.c:77`). With two writers, `checkpoint()` can trim at an LSN above an active id: the peek, the other writer's END and the checkpoint's peek and scan all fall between the two steps. No needed record is lost, because the START lands above the trim point. But the spec's invariant that every active id is at or above the trim point does not hold.

Why these bounds:

- Without fork, frames ≥ threads is the condition under which the spin cannot happen, and `paging_daemon` and `paging_daemon_ipi` keep to it. A fork also needs one frame more than the parent's valid pages. `paging_isolation` has 3 frames for a parent of 2 pages.
- `paging_isolation` has no symmetry: the fork pair makes p1 and p2 different. p2 may exit (`Exiting = {p2}`), which covers the teardown of a forked child; if both could exit, the system would rightly stop.
- Eviction needs more pages than frames. Both passing runs have that.
- `paging_daemon_ipi` has no eviction (as many frames as pages). It exists to exercise the IPI path and its wait channel, and `sbrk` against the daemon.
  - The heap is one page (`a2`, above the defined page `a1`).
  - Two `sbrk` calls are allowed: a grow and a shrink, or two grows or shrinks.
  - With a third page the run reaches 2.8M states, too close to the time budget.
  - The other Paging runs have no heap (`MaxSbrk = 0`).
  - p1 may exit. The run then covers teardown against a write-out in progress. The other Paging runs keep `Exiting = {}`, which keeps their state spaces within the time budget.
- The other passing runs are single-CPU because with two CPUs the findings above break the properties at once.
- One store per page is enough to tell an old copy from a new one.
- Journal: one writer with LSNs up to 6 runs a transaction that allocates, clears and ends, then a second START and its first change, with checkpoints (bound 2) between any two records. A seventh LSN multiplies the state space past the time budget. Two writers need only 3 START-able LSNs to start concurrently. The journal runs disable deadlock checking, because the file system really goes idle once the writers stop.
- Recovery: one writer with 9 records covers a transaction that allocates, writes or changes, frees, reallocates and commits, a second START, and checkpoints and write-backs at any point. With two writers the `journal_trim` bug (`md_oldtnx`) lets a checkpoint trim a START still needed, so a second writer makes the recovery properties fail for a reason already shown. Two blocks let `sfs_balloc` choose between a free and a used block. Each violation run uses the smallest bound at which its trace appears. `ObjTypes` is {FILE}: the parsers only compare types, and a DIR inode takes the same paths.
- Symmetry is used on processes and CPUs, and in `paging_daemon` on pages. Pages are interchangeable there because nothing picks a page in an order: only `as_copy`, `pgt_destroy` and `sbrk` do, and that run has no fork, exit or heap. Frames and slots are ordered by `page_get` and `swap_find_free`, so they are never permuted.

- FileTable: two processes are the fewest in which a handle is shared across processes; fork from p1 makes p2 share p1's handles. One console descriptor plus one free descriptor lets p1 open f1, dup2 onto the console fd, and fork with both shared. Three slots let both processes open f1 separately while the console handle is still in use. `MaxOff = 1` is enough for a transfer to move an offset and for a stale offset to differ from the current one. Only `O_RDWR` is opened, because the read-only and write-only paths of `readwrite` differ only in the EBADF check, which the console descriptors already exercise.

Fairness: `Paging!FairSpec` is checked in `paging_daemon_ipi`. It assumes three things:

- Every runnable thread is infinitely often on its CPU while `cm_lock` is free. The round-robin scheduler keeps requeueing a runnable thread, and `cm_lock` is a spinlock held for short stretches with interrupts off. A thread spinning in `spinlock_acquire` cannot be preempted, so it is never descheduled just as the lock frees.
- Strong fairness of each thread's kernel steps (`KernelStep`). These include the reaper's teardown steps and the exit of a killed process.
- Strong fairness, per CPU, of the IPI handler `HandleIPI`. The interrupt is delivered once its target CPU can take `cm_lock`, and the handler runs every shootdown queued for that CPU.

User-mode accesses get no fairness: nothing forces a process to fault.

Under these assumptions, `WriteOutReturns` holds: every `page_write_out` that starts its swap write returns to the daemon or to `page_get`. That includes the cases where it sleeps on `cm_tlb_wchan` waiting for an IPI on the owner's CPU. The mutant `HandleIPI_no_wake` clears the entry but skips `wchan_wakeall`; with it, the daemon sleeps forever.

Under the same assumptions `DestroyCompletes` holds. The mutant `daemon_after_write_no_wake` clears the busy bit without `wchan_wakeall`; with it, the reaper sleeps forever.

Weak fairness of `Schedule` alone is not enough. TLC then finds a conspiracy: the daemon is on its CPU only while the process holds `cm_lock`.

The liveness run pins each thread to one CPU. With migration, a stale `cme_tlb` bit (see `paging_migrate`) makes the target CPU's probe miss. `vm_tlbshootdown` then returns without waking (vm.c:397), and the sleeper would wait forever. That combination has no run of its own.

`FileTable!FairSpec` is strong fairness of each process's kernel steps. The scheduler is round-robin, and a process asleep on `fh_use_lock` is woken by `lock_release`. It may lose the lock to another process on each wakeup, so weak fairness would not say that it gets it; strong fairness does, and nothing in the code starves a waiter forever except a lock never released, which is what `RwCompletes` is about. Steps in user mode (the system calls themselves) have no fairness.

## Not modelled yet, and the plan

1. **Paging, continued.** Planned additions:
   - `alloc_kpages` / `free_kpages`, with kernel frames in the coremap.
   - Liveness of the busy-frame wait channel `cm_wchan` for faulting processes. `DestroyCompletes` covers the reaper's waits, and `WriteOutReturns` covers the TLB channel.
2. **Journal, continued.** Planned additions:
   - The checkpointer's lost wakeup (`sfs_checkpoint.c:69`) as a liveness property.
3. **Recovery, continued.** Not yet modelled:
   - the direntry parser;
   - the pointer parsers, which follow the pattern of CHANGE_SIZE and CHANGE_BLOCK_OBJ;
   - `consider_morgue` and the morgue cleanup after the passes;
   - the journal iterator.
4. **waitpid and the process table.** The descriptor side of fork and `_exit` is in `FileTable.tla`, and the memory side in `Paging.tla`. waitpid (`waitpid.c:134`) and the end of `_exit` (`exit.c:93`) wait on each other through `pt_bury_proc`, `pt_reap_coffin`, `proc_destroy`, `thread_exit` and the `p_numthreads`/`k_waitcv` handshake. That code is in `proc/proc.c` and `thread/thread.c`, which are not among the sources, and the spec does not describe it. The lost-wakeup question there cannot be modelled faithfully from what is here.

What stays out of the model:

- `vfs_open` and the VOP calls themselves: VFS internals. In `FileTable.tla`, `vfs_open` always succeeds, since its errors leave the table as it was. A VOP transfer either moves the offset or fails and leaves it.
- `execv` and `copybuff`: buffer copying.
- `vmstats`: counters only.
- The lock and CV unit tests.
- The first-fit `page_get` variant, which is compiled out.
