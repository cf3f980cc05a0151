------------------------------ MODULE Journal ------------------------------
(***************************************************************************)
(* The SFS journal writer, the buffer and freemap metadata that tracks     *)
(* which transactions dirtied what, and the checkpointer that trims the   *)
(* journal (sfs_logging.c, sfs_checkpoint.c, sfs_balloc.c, sfs_fsops.c).  *)
(*                                                                         *)
(* File-system operations are abstracted to the journalled mutations the  *)
(* repository's code performs: zeroing a block in a buffer                 *)
(* (sfs_clearblock_internal), allocating a block (sfs_balloc) and freeing *)
(* one (sfs_bfree_prelocked). A change is identified by the LSN of the    *)
(* record that describes it: cache[x] and disk[x] are the changes applied *)
(* to the in-memory and on-disk copies of block or freemap x.             *)
(***************************************************************************)
EXTENDS Naturals, FiniteSets, FiniteSetsExt

CONSTANTS
    Writers,          \* threads running file-system transactions
    Bufs,             \* cached disk blocks
    Freemap,          \* the free-block bitmap, as a journalled target
    MaxLsn,           \* no record is started at an LSN above this
    CheckpointBound,  \* sfs_checkpoint_bound, in records
    NoThread

ASSUME MaxLsn \in Nat /\ CheckpointBound \in Nat \ {0}

Targets == Bufs \cup {Freemap}
RecTypes == {"start", "end", "abort", "zero", "alloc", "free"}
\* A transaction under way may finish past MaxLsn: a block clear and an end
\* record per writer.
Lsns == 1 .. MaxLsn + 2 * Cardinality(Writers) + 1
Tnxs == {0} \cup Lsns
MD == [old : Tnxs, new : Tnxs]
NoMD == [old |-> 0, new |-> 0]

VARIABLES
    nextLsn,      \* sfs_jphys_peeknextlsn()
    written,      \* every record ever appended (the journal is its window)
    tail,         \* sfs_jphys_trim has discarded records with lsn < tail
    durable,      \* records with lsn <= durable are on disk
    odometer,     \* sfs_jphys_getodometer(), in records
    recordLock,   \* holder of sfs_recordlock
    active,       \* sfs_active_tnx
    t_tnx,        \* curthread->t_tnx of each writer
    pc,           \* each writer's position
    loc,          \* a writer's buffer and record between two steps
    bufHolder,    \* the thread holding each buffer (buffer_get)
    md,           \* md_oldtnx/md_newtnx of each buffer and of the freemap
    dirty,        \* buffer dirty bit, sfs_freemapdirty
    cache,        \* changes applied in memory
    disk,         \* changes applied on disk
    ckpt,         \* checkpointer position
    keep          \* checkpoint()'s lsn_keep

vars == <<nextLsn, written, tail, durable, odometer, recordLock, active, t_tnx,
          pc, loc, bufHolder, md, dirty, cache, disk, ckpt, keep>>
writerVars == <<recordLock, active, t_tnx, pc, loc, bufHolder>>
dataVars == <<md, dirty, cache, disk>>

Record(l, t, ty, x) == [lsn |-> l, tnx |-> t, type |-> ty, target |-> x]

\* sfs_jphys_write: append at the next LSN and bump the odometer.
Append(rec) ==
    /\ written' = written \cup {rec}
    /\ nextLsn' = nextLsn + 1
    /\ odometer' = odometer + 1

\* The tail of write_record: wake the checkpointer once the odometer reaches
\* the bound. cv_broadcast reaches it only if it is already asleep.
Signal ==
    ckpt' = IF odometer' >= CheckpointBound /\ ckpt = "sleep" THEN "peek" ELSE ckpt

\* update_buffer_metadata, and the same update of sfs_freemapdata inline in
\* sfs_balloc and sfs_bfree_prelocked (which set md_newtnx unconditionally).
UpdateMD(m, tnx, isBuf) ==
    [old |-> IF m.old = 0 THEN tnx ELSE m.old,
     new |-> IF isBuf /\ m.new >= tnx THEN m.new ELSE tnx]

Init ==
    /\ nextLsn = 1
    /\ written = {}
    /\ tail = 1
    /\ durable = 0
    /\ odometer = 0
    /\ recordLock = NoThread
    /\ active = {}
    /\ t_tnx = [w \in Writers |-> 0]
    /\ pc = [w \in Writers |-> "idle"]
    /\ loc = [w \in Writers |-> [buf |-> NoThread, lsn |-> 0]]
    /\ bufHolder = [b \in Bufs |-> NoThread]
    /\ md = [x \in Targets |-> NoMD]
    /\ dirty = [x \in Targets |-> FALSE]
    /\ cache = [x \in Targets |-> {}]
    /\ disk = [x \in Targets |-> {}]
    /\ ckpt = "check"
    /\ keep = 0

(***************************************************************************)
(* write_record(START_TRANSACTION): take the record lock, use the next    *)
(* LSN as the transaction id, then register it in the active list under   *)
(* sfs_active_tnx_lk.                                                      *)
(***************************************************************************)
\* Mutant: the id is taken one LSN too early.
start_peek_last_lsn(w) ==
    /\ pc[w] = "idle"
    /\ nextLsn <= MaxLsn
    /\ recordLock = NoThread
    /\ recordLock' = w
    /\ t_tnx' = [t_tnx EXCEPT ![w] = nextLsn - 1]
    /\ pc' = [pc EXCEPT ![w] = "startReg"]
    /\ UNCHANGED <<nextLsn, written, tail, durable, odometer, active, loc,
                   bufHolder, dataVars, ckpt, keep>>

start_peek(w) ==
    /\ pc[w] = "idle"
    /\ nextLsn <= MaxLsn
    /\ recordLock = NoThread
    /\ recordLock' = w
    /\ t_tnx' = [t_tnx EXCEPT ![w] = nextLsn]
    /\ pc' = [pc EXCEPT ![w] = "startReg"]
    /\ UNCHANGED <<nextLsn, written, tail, durable, odometer, active, loc,
                   bufHolder, dataVars, ckpt, keep>>

start_register(w) ==
    /\ pc[w] = "startReg"
    /\ active' = active \cup {t_tnx[w]}
    /\ pc' = [pc EXCEPT ![w] = "startWrite"]
    /\ UNCHANGED <<nextLsn, written, tail, durable, odometer, recordLock, t_tnx,
                   loc, bufHolder, dataVars, ckpt, keep>>

\* The START record goes out, the record lock is released, and the
\* checkpointer is signalled if due.
start_write(w) ==
    /\ pc[w] = "startWrite"
    /\ Append(Record(nextLsn, t_tnx[w], "start", NoThread))
    /\ recordLock' = NoThread
    /\ pc' = [pc EXCEPT ![w] = "inTx"]
    /\ Signal
    /\ UNCHANGED <<tail, durable, active, t_tnx, loc, bufHolder, dataVars, keep>>

(***************************************************************************)
(* sfs_balloc: under the freemap lock, allocate, journal ALLOC_BLOCK and   *)
(* note the transaction in the freemap metadata; then clear the new block *)
(* (sfs_clearblock). sfs_bfree_prelocked is the same without the clear.   *)
(***************************************************************************)
FreemapChange(w, ty) ==
    /\ pc[w] = "inTx"
    /\ nextLsn <= MaxLsn
    /\ Append(Record(nextLsn, t_tnx[w], ty, Freemap))
    /\ cache' = [cache EXCEPT ![Freemap] = @ \cup {nextLsn}]
    /\ dirty' = [dirty EXCEPT ![Freemap] = TRUE]
    /\ md' = [md EXCEPT ![Freemap] = UpdateMD(@, t_tnx[w], FALSE)]
    /\ Signal
    /\ UNCHANGED <<tail, durable, recordLock, active, t_tnx, loc, bufHolder,
                   disk, keep>>

sfs_balloc(w) ==
    /\ FreemapChange(w, "alloc")
    /\ pc' = [pc EXCEPT ![w] = "clear"]

sfs_bfree_prelocked(w) ==
    /\ FreemapChange(w, "free")
    /\ UNCHANGED pc

(***************************************************************************)
(* sfs_clearblock_internal: buffer_get, journal ZERO_BLOCK; then zero the  *)
(* buffer, update its metadata, mark it dirty and release it.             *)
(***************************************************************************)
clear_record(w, b) ==
    /\ pc[w] = "clear"
    /\ bufHolder[b] = NoThread
    /\ bufHolder' = [bufHolder EXCEPT ![b] = w]
    /\ Append(Record(nextLsn, t_tnx[w], "zero", b))
    /\ loc' = [loc EXCEPT ![w] = [buf |-> b, lsn |-> nextLsn]]
    /\ pc' = [pc EXCEPT ![w] = "clearMD"]
    /\ Signal
    /\ UNCHANGED <<tail, durable, recordLock, active, t_tnx, dataVars, keep>>

clear_metadata(w) ==
    LET b == loc[w].buf IN
    /\ pc[w] = "clearMD"
    /\ cache' = [cache EXCEPT ![b] = @ \cup {loc[w].lsn}]
    /\ md' = [md EXCEPT ![b] = UpdateMD(@, t_tnx[w], TRUE)]
    /\ dirty' = [dirty EXCEPT ![b] = TRUE]
    /\ bufHolder' = [bufHolder EXCEPT ![b] = NoThread]
    /\ pc' = [pc EXCEPT ![w] = "inTx"]
    /\ loc' = [loc EXCEPT ![w] = [buf |-> NoThread, lsn |-> 0]]
    /\ UNCHANGED <<nextLsn, written, tail, durable, odometer, recordLock, active,
                   t_tnx, disk, ckpt, keep>>

(***************************************************************************)
(* write_record(END_TRANSACTION) or (ABORT_TRANSACTION): the record goes  *)
(* out, the id leaves the active list, t_tnx is cleared.                   *)
(***************************************************************************)
end_transaction(w, ty) ==
    /\ pc[w] = "inTx"
    /\ Append(Record(nextLsn, t_tnx[w], ty, NoThread))
    /\ active' = active \ {t_tnx[w]}
    /\ t_tnx' = [t_tnx EXCEPT ![w] = 0]
    /\ pc' = [pc EXCEPT ![w] = "idle"]
    /\ Signal
    /\ UNCHANGED <<tail, durable, recordLock, loc, bufHolder, dataVars, keep>>

(***************************************************************************)
(* The buffer cache (outside this repository) writes a dirty buffer that  *)
(* nobody holds; its metadata describes only its dirty period (spec       *)
(* section 3), so it starts again from zero.                               *)
(***************************************************************************)
BufferWriteBack(b) ==
    /\ dirty[b]
    /\ bufHolder[b] = NoThread
    /\ disk' = [disk EXCEPT ![b] = cache[b]]
    /\ dirty' = [dirty EXCEPT ![b] = FALSE]
    /\ md' = [md EXCEPT ![b] = NoMD]
    /\ UNCHANGED <<nextLsn, written, tail, durable, odometer, writerVars,
                   cache, ckpt, keep>>

(***************************************************************************)
(* sfs_sync_freemap: flush the journal through md_newtnx, write the       *)
(* freemap, then clear the dirty flag and the metadata. A failed write    *)
(* returns with the freemap still dirty.                                   *)
(***************************************************************************)
sfs_sync_freemap ==
    /\ dirty[Freemap]
    /\ durable' = Max({durable, md[Freemap].new})
    /\ \/ /\ disk' = [disk EXCEPT ![Freemap] = cache[Freemap]]
          /\ dirty' = [dirty EXCEPT ![Freemap] = FALSE]
          /\ md' = [md EXCEPT ![Freemap] = NoMD]
       \/ UNCHANGED <<disk, dirty, md>>
    /\ UNCHANGED <<nextLsn, written, tail, odometer, writerVars, cache, ckpt, keep>>

\* The last step of sfs_sync: sfs_jphys_flushall.
sfs_jphys_flushall ==
    /\ durable < nextLsn - 1
    /\ durable' = nextLsn - 1
    /\ UNCHANGED <<nextLsn, written, tail, odometer, writerVars, dataVars, ckpt, keep>>

(***************************************************************************)
(* checkpoint_thread_f and checkpoint.                                     *)
(***************************************************************************)
\* Loop head: test the odometer without a lock, then lock and cv_wait.
checkpoint_test ==
    /\ ckpt = "check"
    /\ ckpt' = IF odometer < CheckpointBound THEN "wait" ELSE "peek"
    /\ UNCHANGED <<nextLsn, written, tail, durable, odometer, writerVars,
                   dataVars, keep>>

checkpoint_wait ==
    /\ ckpt = "wait"
    /\ ckpt' = "sleep"
    /\ UNCHANGED <<nextLsn, written, tail, durable, odometer, writerVars,
                   dataVars, keep>>

checkpoint_peek ==
    /\ ckpt = "peek"
    /\ keep' = nextLsn
    /\ ckpt' = "active"
    /\ UNCHANGED <<nextLsn, written, tail, durable, odometer, writerVars, dataVars>>

\* The oldest active transaction, under sfs_active_tnx_lk.
\* Mutant: the active transaction list is not consulted.
checkpoint_active_ignores_active ==
    /\ ckpt = "active"
    /\ ckpt' = "metadata"
    /\ UNCHANGED <<nextLsn, written, tail, durable, odometer, writerVars,
                   dataVars, keep>>

checkpoint_active ==
    /\ ckpt = "active"
    /\ keep' = Min({keep} \cup active)
    /\ ckpt' = "metadata"
    /\ UNCHANGED <<nextLsn, written, tail, durable, odometer, writerVars, dataVars>>

\* The oldest dirty buffer and the freemap, under metadatalock.
\* Mutant: dirty buffers are not consulted, only the freemap.
checkpoint_metadata_ignores_buffers ==
    /\ ckpt = "metadata"
    /\ keep' = Min({keep} \cup ({md[Freemap].old} \ {0}))
    /\ ckpt' = "trim"
    /\ UNCHANGED <<nextLsn, written, tail, durable, odometer, writerVars, dataVars>>

checkpoint_metadata ==
    /\ ckpt = "metadata"
    /\ keep' = Min({keep} \cup {md[b].old : b \in {c \in Bufs : dirty[c]}}
                          \cup ({md[Freemap].old} \ {0}))
    /\ ckpt' = "trim"
    /\ UNCHANGED <<nextLsn, written, tail, durable, odometer, writerVars, dataVars>>

\* Mutant: the trim also discards the record at lsn_keep.
checkpoint_trim_past_keep ==
    /\ ckpt = "trim"
    /\ tail' = Max({tail, keep + 1})
    /\ odometer' = 0
    /\ ckpt' = "check"
    /\ keep' = 0
    /\ UNCHANGED <<nextLsn, written, durable, writerVars, dataVars>>

\* sfs_jphys_trim and sfs_jphys_clearodometer.
checkpoint_trim ==
    /\ ckpt = "trim"
    /\ tail' = Max({tail, keep})
    /\ odometer' = 0
    /\ ckpt' = "check"
    /\ keep' = 0
    /\ UNCHANGED <<nextLsn, written, durable, writerVars, dataVars>>

Next ==
    \/ \E w \in Writers :
          \/ start_peek(w) \/ start_register(w) \/ start_write(w)
          \/ sfs_balloc(w) \/ sfs_bfree_prelocked(w)
          \/ \E b \in Bufs : clear_record(w, b)
          \/ clear_metadata(w)
          \/ \E ty \in {"end", "abort"} : end_transaction(w, ty)
    \/ \E b \in Bufs : BufferWriteBack(b)
    \/ sfs_sync_freemap \/ sfs_jphys_flushall
    \/ checkpoint_test \/ checkpoint_wait \/ checkpoint_peek
    \/ checkpoint_active \/ checkpoint_metadata \/ checkpoint_trim

Spec == Init /\ [][Next]_vars

-----------------------------------------------------------------------------
(***************************************************************************)
(* Properties                                                              *)
(***************************************************************************)
TypeOK ==
    /\ nextLsn \in Lsns
    /\ written \subseteq [lsn : Lsns, tnx : Lsns, type : RecTypes,
                          target : Targets \cup {NoThread}]
    /\ tail \in Lsns /\ durable \in {0} \cup Lsns /\ odometer \in 0 .. MaxLsn + 8
    /\ recordLock \in Writers \cup {NoThread}
    /\ active \subseteq Lsns
    /\ t_tnx \in [Writers -> Tnxs]
    /\ pc \in [Writers -> {"idle", "startReg", "startWrite", "inTx", "clear", "clearMD"}]
    /\ bufHolder \in [Bufs -> Writers \cup {NoThread}]
    /\ md \in [Targets -> MD]
    /\ dirty \in [Targets -> BOOLEAN]
    /\ cache \in [Targets -> SUBSET Lsns] /\ disk \in [Targets -> SUBSET Lsns]
    /\ ckpt \in {"check", "wait", "sleep", "peek", "active", "metadata", "trim"}
    /\ keep \in Tnxs

\* Changes made in memory and not yet on disk, by the LSN of their record.
Unapplied == UNION {cache[x] \ disk[x] : x \in Targets}

\* Transactions recovery may still need: the active ones, and those with a
\* change that is only in memory. Recovery (sfs_fsops.c, check pass) decides
\* whether a transaction committed by pairing its START with its END, so it
\* needs every record of such a transaction, START included.
NeededTnxs == active \cup {r.tnx : r \in {s \in written : s.lsn \in Unapplied}}
Needed == {r \in written : r.tnx \in NeededTnxs}

\* checkpoint() never trims a record that recovery would still need: every
\* record of an active transaction, or of a transaction with a change not yet
\* on disk, stays in the journal.
NeededRetained == \A r \in Needed : r.lsn >= tail

\* Spec section 8: after a checkpoint trims at L, every active transaction id
\* and the oldest transaction of every dirty buffer and of the dirty freemap
\* are >= L. This is what lsn_keep in checkpoint() is computed for.
TrimSafe ==
    /\ \A t \in active : t >= tail
    /\ \A x \in Targets : dirty[x] /\ md[x].old # 0 => md[x].old >= tail

=============================================================================
