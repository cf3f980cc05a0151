------------------------------ MODULE Recovery ------------------------------
(***************************************************************************)
(* SFS crash recovery (sfs_fsops.c sfs_domount, sfs_recovery.c) composed   *)
(* with the writers that produce the journal and the disk it recovers.     *)
(*                                                                         *)
(* Before the crash, writer threads run transactions that allocate, zero,  *)
(* free and write blocks (user data), change a word of a metadata block    *)
(* (CHANGE_BLOCK_OBJ) and change the type, size and link count of inodes;  *)
(* the buffer cache writes blocks back and sfs_sync writes the freemap and *)
(* flushes the journal.  Every state is a possible crash point: the crash  *)
(* image is the durable part of the journal window, the blocks on disk and *)
(* the freemap on disk.  Recovery is a pure function of that image,        *)
(* computed with the code's three passes: check (newest to oldest), undo   *)
(* (newest to oldest) and redo (oldest to newest).                         *)
(*                                                                         *)
(* Data abstraction: a block is a record of the fields the records touch:  *)
(* word (user data, or the word CHANGE_BLOCK_OBJ sets), and the inode's    *)
(* sfi_type, sfi_size and sfi_linkcount.  A value written by a record is   *)
(* named by that record's LSN (0 is a zeroed field).  fletcher32 is taken  *)
(* as collision-free, so a WRITE_BLOCK checksum matches exactly the block  *)
(* that record wrote.                                                      *)
(***************************************************************************)
EXTENDS Naturals, Sequences, SequencesExt, FiniteSets

CONSTANTS
    Writers,    \* threads that run file system operations
    Blocks,     \* disk block numbers (positive)
    ObjTypes,   \* the types sfs_makeobj creates (SFS_TYPE_FILE, SFS_TYPE_DIR)
    MaxLog      \* bound on the number of journal records

NoBlk == 0
Lsns == 1 .. MaxLog
Contents == 0 .. MaxLog
SFS_TYPE_INVAL == 0
SFS_TYPE_FILE == 1
SFS_TYPE_DIR == 2
InodeTypes == {SFS_TYPE_INVAL, SFS_TYPE_FILE, SFS_TYPE_DIR}
Kinds == {"data", "meta", "inode"}
RecTypes == {"START", "END", "ALLOC", "FREE", "ZERO", "WRITE", "SET",
             "SIZE", "LINK", "ITYPE"}
Record == [lsn : Lsns, type : RecTypes, tnx : Lsns, blk : Blocks \cup {NoBlk},
           old : Contents, new : Contents, ity : InodeTypes]
Block == [word : Contents, type : InodeTypes, size : Contents, link : Contents]

\* A zeroed block (sfs_clearblock_internal, bzero of an inode image).
Zeroed == [word |-> 0, type |-> SFS_TYPE_INVAL, size |-> 0, link |-> 0]

\* The block a file write with record LSN l leaves.
Written(l) == [Zeroed EXCEPT !.word = l]

VARIABLES
    log,        \* every record written, log[i].lsn = i
    durable,    \* records 1 .. durable are on disk
    t_tnx,      \* curthread->t_tnx of each writer, 0 when idle
    bitmap,     \* sfs_freemap in memory
    dbitmap,    \* the freemap blocks on disk
    fmNew,      \* sfs_freemapdata.md_newtnx
    mem,        \* block contents in the buffer cache
    memLsn,     \* the newest record that changed each buffer
    disk,       \* block contents on disk
    kind,       \* what the block was allocated for
    owner,      \* the transaction that last allocated the block
    blkOld,     \* md_oldtnx of each block's buffer, 0 when clean
    fmOld,      \* sfs_freemapdata.md_oldtnx
    tail        \* records below tail have been trimmed

vars == <<log, durable, t_tnx, bitmap, dbitmap, fmNew, mem, memLsn, disk, kind,
          owner, blkOld, fmOld, tail>>

\* Mutant: the record's LSN off by one from its position in the journal.
LogRecord_next_lsn(i, ty, tnx, b, old, new, ity) ==
    [lsn |-> Len(log) + i + 1, type |-> ty, tnx |-> tnx, blk |-> b, old |-> old,
     new |-> new, ity |-> ity]

(* write_record: every payload carries le_tnx and a block or inode number; *)
(* the change records carry the old and new value and the inode's type.   *)
LogRecord(i, ty, tnx, b, old, new, ity) ==
    [lsn |-> Len(log) + i, type |-> ty, tnx |-> tnx, blk |-> b, old |-> old,
     new |-> new, ity |-> ity]

\* A record with no payload beyond the transaction and the block.
Rec(i, ty, tnx, b) == LogRecord(i, ty, tnx, b, 0, 0, SFS_TYPE_INVAL)

\* Transactions of other writers still running: their blocks are not ours.
OtherActive(w) == {t_tnx[v] : v \in Writers \ {w}} \ {0}

\* md_oldtnx is set only when it is 0 (update_buffer_metadata, sfs_balloc).
OldTnx(old, tnx) == IF old = 0 THEN tnx ELSE old

Init ==
    /\ log = <<>>
    /\ durable = 0
    /\ t_tnx = [w \in Writers |-> 0]
    /\ bitmap = [b \in Blocks |-> FALSE]
    /\ dbitmap = [b \in Blocks |-> FALSE]
    /\ fmNew = 0
    /\ mem = [b \in Blocks |-> Zeroed]
    /\ memLsn = [b \in Blocks |-> 0]
    /\ disk = [b \in Blocks |-> Zeroed]
    /\ kind = [b \in Blocks |-> "data"]
    /\ owner = [b \in Blocks |-> 0]
    /\ blkOld = [b \in Blocks |-> 0]
    /\ fmOld = 0
    /\ tail = 1

-----------------------------------------------------------------------------
(***************************************************************************)
(* Writers                                                                 *)
(***************************************************************************)

\* write_record(START_TRANSACTION): the transaction id is the record's LSN.
write_record_start(w) ==
    /\ t_tnx[w] = 0
    /\ Len(log) < MaxLog
    /\ log' = Append(log, Rec(1, "START", Len(log) + 1, NoBlk))
    /\ t_tnx' = [t_tnx EXCEPT ![w] = Len(log) + 1]
    /\ UNCHANGED <<durable, bitmap, dbitmap, fmNew, mem, memLsn, disk, kind,
                   owner, blkOld, fmOld, tail>>

\* write_record(END_TRANSACTION): log the end, then forget the transaction.
write_record_end(w) ==
    /\ t_tnx[w] # 0
    /\ Len(log) < MaxLog
    /\ log' = Append(log, Rec(1, "END", t_tnx[w], NoBlk))
    /\ t_tnx' = [t_tnx EXCEPT ![w] = 0]
    /\ UNCHANGED <<durable, bitmap, dbitmap, fmNew, mem, memLsn, disk, kind,
                   owner, blkOld, fmOld, tail>>

(***************************************************************************)
(* sfs_balloc: bitmap_alloc takes the lowest free block, ALLOC_BLOCK is    *)
(* logged and the freemap metadata updated; then sfs_clearblock logs       *)
(* ZERO_BLOCK, zeroes the buffer and updates its metadata.  If clearblock  *)
(* fails (buffer_get), the bit is unmarked again without a record.  k is   *)
(* what the caller allocates the block for (file data, an indirect block   *)
(* or directory block, or an inode).                                       *)
(***************************************************************************)
sfs_balloc(w, k) ==
    LET tnx == t_tnx[w]
        free == {b \in Blocks : ~bitmap[b]}
    IN /\ tnx # 0
       /\ free # {}
       /\ Len(log) + 2 <= MaxLog
       /\ LET b == CHOOSE x \in free : \A y \in free : x <= y
          IN /\ fmNew' = tnx
             /\ fmOld' = OldTnx(fmOld, tnx)
             /\ \/ /\ log' = log \o <<Rec(1, "ALLOC", tnx, b), Rec(2, "ZERO", tnx, b)>>
                   /\ bitmap' = [bitmap EXCEPT ![b] = TRUE]
                   /\ mem' = [mem EXCEPT ![b] = Zeroed]
                   /\ memLsn' = [memLsn EXCEPT ![b] = Len(log) + 2]
                   /\ blkOld' = [blkOld EXCEPT ![b] = OldTnx(@, tnx)]
                   /\ kind' = [kind EXCEPT ![b] = k]
                   /\ owner' = [owner EXCEPT ![b] = tnx]
                \/ /\ log' = Append(log, Rec(1, "ALLOC", tnx, b))
                   /\ UNCHANGED <<bitmap, mem, memLsn, blkOld, kind, owner>>
       /\ UNCHANGED <<durable, t_tnx, dbitmap, disk, tail>>

\* sfs_bfree_prelocked: log FREE_BLOCK, unmark, update the freemap metadata.
sfs_bfree_prelocked(w, b) ==
    /\ t_tnx[w] # 0
    /\ bitmap[b]
    /\ owner[b] \notin OtherActive(w)
    /\ Len(log) < MaxLog
    /\ log' = Append(log, Rec(1, "FREE", t_tnx[w], b))
    /\ bitmap' = [bitmap EXCEPT ![b] = FALSE]
    /\ fmNew' = t_tnx[w]
    /\ fmOld' = OldTnx(fmOld, t_tnx[w])
    /\ UNCHANGED <<durable, t_tnx, dbitmap, mem, memLsn, disk, kind, owner,
                   blkOld, tail>>

(* A change of block b by writer w: log record r, leave content c in the  *)
(* buffer and note the transaction in its metadata.  Only blocks in use   *)
(* and not held by another running transaction (the callers' vnode locks) *)
(* are changed.                                                           *)
LoggedChange(w, b, r, c) ==
    /\ t_tnx[w] # 0
    /\ bitmap[b]
    /\ owner[b] \notin OtherActive(w)
    /\ Len(log) < MaxLog
    /\ log' = Append(log, r)
    /\ mem' = [mem EXCEPT ![b] = c]
    /\ memLsn' = [memLsn EXCEPT ![b] = Len(log) + 1]
    /\ blkOld' = [blkOld EXCEPT ![b] = OldTnx(@, t_tnx[w])]
    /\ UNCHANGED <<durable, t_tnx, bitmap, dbitmap, fmNew, disk, kind, owner,
                   fmOld, tail>>

\* A file write: WRITE_BLOCK with the checksum of the new content.
WriteBlock(w, b) ==
    /\ kind[b] = "data"
    /\ LoggedChange(w, b, Rec(1, "WRITE", t_tnx[w], b), Written(Len(log) + 1))

\* A word of an indirect or directory block: CHANGE_BLOCK_OBJ, old and new.
ChangeBlockObj(w, b) ==
    /\ kind[b] = "meta"
    /\ LoggedChange(w, b,
          LogRecord(1, "SET", t_tnx[w], b, mem[b].word, Len(log) + 1, SFS_TYPE_INVAL),
          [mem[b] EXCEPT !.word = Len(log) + 1])

\* sfs_makeobj gives the inode of a block it just allocated (still zeroed)
\* its type; reclaim sets the type of a live inode back to INVAL.
ChangeInodeType(w, b, ty) ==
    /\ kind[b] = "inode"
    /\ IF mem[b] = Zeroed THEN ty \in ObjTypes
       ELSE mem[b].type # SFS_TYPE_INVAL /\ ty = SFS_TYPE_INVAL
    /\ LoggedChange(w, b,
          LogRecord(1, "ITYPE", t_tnx[w], b, mem[b].type, ty, SFS_TYPE_INVAL),
          [mem[b] EXCEPT !.type = ty])

\* CHANGE_SIZE and CHANGE_LINK_CNT of a live inode carry its type.
ChangeSize(w, b) ==
    /\ kind[b] = "inode" /\ mem[b].type # SFS_TYPE_INVAL
    /\ LoggedChange(w, b,
          LogRecord(1, "SIZE", t_tnx[w], b, mem[b].size, Len(log) + 1, mem[b].type),
          [mem[b] EXCEPT !.size = Len(log) + 1])

ChangeLinkCnt(w, b) ==
    /\ kind[b] = "inode" /\ mem[b].type # SFS_TYPE_INVAL
    /\ LoggedChange(w, b,
          LogRecord(1, "LINK", t_tnx[w], b, mem[b].link, Len(log) + 1, mem[b].type),
          [mem[b] EXCEPT !.link = Len(log) + 1])

-----------------------------------------------------------------------------
(***************************************************************************)
(* Write-back and checkpoint                                               *)
(***************************************************************************)

\* The buffer cache writes a dirty block back after flushing the journal
\* through the newest record that changed it (write-ahead rule); its
\* metadata describes only its dirty period and starts again from zero.
BufferWriteBack(b) ==
    /\ blkOld[b] # 0
    /\ durable' = IF memLsn[b] > durable THEN memLsn[b] ELSE durable
    /\ disk' = [disk EXCEPT ![b] = mem[b]]
    /\ blkOld' = [blkOld EXCEPT ![b] = 0]
    /\ UNCHANGED <<log, t_tnx, bitmap, dbitmap, fmNew, mem, memLsn, kind, owner,
                   fmOld, tail>>

\* sfs_sync_freemap: flush the journal through md_newtnx (a transaction
\* id), write the freemap, clear the dirty flag and the metadata.
sfs_sync_freemap ==
    /\ fmNew # 0
    /\ durable' = IF fmNew > durable THEN fmNew ELSE durable
    /\ dbitmap' = bitmap
    /\ fmNew' = 0
    /\ fmOld' = 0
    /\ UNCHANGED <<log, t_tnx, bitmap, mem, memLsn, disk, kind, owner, blkOld, tail>>

\* sfs_jphys_flushall at the end of sfs_sync.
sfs_jphys_flushall ==
    /\ durable < Len(log)
    /\ durable' = Len(log)
    /\ UNCHANGED <<log, t_tnx, bitmap, dbitmap, fmNew, mem, memLsn, disk, kind,
                   owner, blkOld, fmOld, tail>>

\* Mutant: the dirty buffers' oldest transactions are not consulted.
checkpoint_ignores_buffers ==
    LET keep == Min(({Len(log) + 1} \cup {t_tnx[w] : w \in Writers} \cup {fmOld})
                    \ {0})
    IN /\ keep > tail
       /\ tail' = keep
       /\ UNCHANGED <<log, durable, t_tnx, bitmap, dbitmap, fmNew, mem, memLsn,
                      disk, kind, owner, blkOld, fmOld>>

(***************************************************************************)
(* checkpoint(): keep the next LSN, every active transaction, the oldest   *)
(* transaction of every dirty buffer and the freemap's md_oldtnx if set;   *)
(* trim the journal below the minimum.                                     *)
(***************************************************************************)
checkpoint ==
    LET keep == Min(({Len(log) + 1}
                     \cup {t_tnx[w] : w \in Writers}
                     \cup {blkOld[b] : b \in Blocks}
                     \cup {fmOld})
                    \ {0})
    IN /\ keep > tail
       /\ tail' = keep
       /\ UNCHANGED <<log, durable, t_tnx, bitmap, dbitmap, fmNew, mem, memLsn,
                      disk, kind, owner, blkOld, fmOld>>

Next ==
    \/ \E w \in Writers :
          \/ write_record_start(w) \/ write_record_end(w)
          \/ \E k \in Kinds : sfs_balloc(w, k)
          \/ \E b \in Blocks :
                \/ sfs_bfree_prelocked(w, b)
                \/ WriteBlock(w, b) \/ ChangeBlockObj(w, b)
                \/ \E ty \in InodeTypes : ChangeInodeType(w, b, ty)
                \/ ChangeSize(w, b) \/ ChangeLinkCnt(w, b)
    \/ \E b \in Blocks : BufferWriteBack(b)
    \/ sfs_sync_freemap \/ sfs_jphys_flushall \/ checkpoint

Spec == Init /\ [][Next]_vars

-----------------------------------------------------------------------------
(***************************************************************************)
(* Recovery at mount, over the crash image                                 *)
(*                                                                         *)
(* The protected_blocks and latest_writes arrays hold at most one entry   *)
(* per block (both adders check first), so each is a function from blocks *)
(* to an LSN, 0 meaning "not in the array".                               *)
(***************************************************************************)
\* The records recovery reads: from the trim point through the last durable one.
Journal == SubSeq(log, tail, durable)

NoEntry == [b \in Blocks |-> 0]

\* The block is in the array with an LSN newer than the current record.
is_block_protected(arr, cur_lsn, ino) == arr[ino] > cur_lsn

is_block_in_array(arr, ino) == arr[ino] # 0

\* Mutant: every allocation overwrites the entry, so the oldest one wins.
add_protected_block_keeps_oldest(arr, cur_lsn, ino) == [arr EXCEPT ![ino] = cur_lsn]

\* Adds (ino, cur_lsn) unless the block is already in the array.
add_protected_block(arr, cur_lsn, ino) ==
    IF is_block_in_array(arr, ino) THEN arr ELSE [arr EXCEPT ![ino] = cur_lsn]

find_tnx(arr, tnx) == tnx \in arr

\* Check pass, one record (newest first).
check_record(s, r) ==
    CASE r.type = "ALLOC" ->
            [s EXCEPT !.prot = add_protected_block(@, r.lsn, r.blk)]
      [] r.type = "END" -> [s EXCEPT !.ended = @ \cup {r.tnx}]
      [] r.type = "START" /\ find_tnx(s.ended, r.tnx) ->
            [s EXCEPT !.ended = @ \ {r.tnx}]
      [] r.type = "START" -> [s EXCEPT !.aborted = @ \cup {r.tnx}]
      [] OTHER -> s

\* The check pass, then the leftover ended transactions join aborted_tx.
CheckPass ==
    LET s == FoldRight(LAMBDA r, acc : check_record(acc, r), Journal,
                       [prot |-> NoEntry, ended |-> {}, aborted |-> {}])
    IN [prot |-> s.prot, aborted |-> s.aborted \cup s.ended]

(* The parsers act on st = [bitmap, content, latest]; dir is "UNDO" or    *)
(* "REDO".  sfs_clearblock_internal(.., 0) zeroes without logging.        *)
parse_zero_block(st, r, dir, prot, aborted) ==
    IF \/ dir = "UNDO"
       \/ find_tnx(aborted, r.tnx)
       \/ is_block_protected(prot, r.lsn, r.blk)
    THEN st
    ELSE [st EXCEPT !.content[r.blk] = Zeroed]

\* Redo marks the block, undo unmarks it; only redo skips aborted ones.
parse_alloc_block(st, r, dir, aborted) ==
    IF find_tnx(aborted, r.tnx) /\ dir = "REDO" THEN st
    ELSE [st EXCEPT !.bitmap[r.blk] = (dir = "REDO")]

parse_free_block(st, r, dir, aborted) ==
    IF find_tnx(aborted, r.tnx) /\ dir = "REDO" THEN st
    ELSE [st EXCEPT !.bitmap[r.blk] = (dir = "UNDO")]

\* The value a change record puts back: its new value on redo, old on undo.
Value(r, dir) == IF dir = "REDO" THEN r.new ELSE r.old

\* An inode image whose type is not the record's is zeroed and given it.
reinit_inode(c, ty) == IF c.type # ty THEN [Zeroed EXCEPT !.type = ty] ELSE c

parse_change_size(st, r, dir, prot, aborted) ==
    IF find_tnx(aborted, r.tnx) \/ is_block_protected(prot, r.lsn, r.blk)
    THEN st
    ELSE [st EXCEPT !.content[r.blk] =
                        [reinit_inode(@, r.ity) EXCEPT !.size = Value(r, dir)]]

parse_change_link_cnt(st, r, dir, prot, aborted) ==
    IF find_tnx(aborted, r.tnx) \/ is_block_protected(prot, r.lsn, r.blk)
    THEN st
    ELSE [st EXCEPT !.content[r.blk] =
                        [reinit_inode(@, r.ity) EXCEPT !.link = Value(r, dir)]]

parse_change_block_obj(st, r, dir, prot, aborted) ==
    IF find_tnx(aborted, r.tnx) \/ is_block_protected(prot, r.lsn, r.blk)
    THEN st
    ELSE [st EXCEPT !.content[r.blk].word = Value(r, dir)]

\* The block's checksum differs from the record's: zero the block.
parse_write_block(st, r, aborted) ==
    IF find_tnx(aborted, r.tnx) \/ st.content[r.blk] = Written(r.lsn) THEN st
    ELSE [st EXCEPT !.content[r.blk] = Zeroed]

(* The image is zeroed when its type is not the one the record leaves on  *)
(* undo or finds on redo; then the type is set.                           *)
parse_change_inode_type(st, r, dir, prot, aborted) ==
    IF find_tnx(aborted, r.tnx) \/ is_block_protected(prot, r.lsn, r.blk)
    THEN st
    ELSE LET cur_type == IF dir = "UNDO" THEN r.new ELSE r.old
             c == st.content[r.blk]
         IN [st EXCEPT !.content[r.blk] =
                 [(IF c.type # cur_type THEN Zeroed ELSE c) EXCEPT !.type = Value(r, dir)]]

process_journal_entry(st, r, dir, prot, aborted) ==
    CASE r.type \in {"START", "END"} -> st
      [] r.type = "ZERO" -> parse_zero_block(st, r, dir, prot, aborted)
      [] r.type = "ALLOC" -> parse_alloc_block(st, r, dir, aborted)
      [] r.type = "FREE" -> parse_free_block(st, r, dir, aborted)
      [] r.type = "SIZE" -> parse_change_size(st, r, dir, prot, aborted)
      [] r.type = "LINK" -> parse_change_link_cnt(st, r, dir, prot, aborted)
      [] r.type = "SET" -> parse_change_block_obj(st, r, dir, prot, aborted)
      [] r.type = "WRITE" -> parse_write_block(st, r, aborted)
      [] r.type = "ITYPE" -> parse_change_inode_type(st, r, dir, prot, aborted)

\* Undo pass, one record (newest first).
undo_record(r, st, prot, aborted) ==
    LET fresh == /\ ~is_block_protected(prot, r.lsn, r.blk)
                 /\ ~is_block_in_array(st.latest, r.blk)
    IN CASE r.type = "ZERO" /\ fresh ->
               [st EXCEPT !.latest[r.blk] = r.lsn]
         [] r.type = "WRITE" /\ fresh ->
               [parse_write_block(st, r, aborted) EXCEPT !.latest[r.blk] = r.lsn]
         [] r.type \in {"ZERO", "WRITE"} -> st
         [] OTHER -> process_journal_entry(st, r, "UNDO", prot, aborted)

\* Redo pass, one record (oldest first).
redo_record(st, r, prot, aborted) ==
    IF \/ r.type = "WRITE"
       \/ r.type = "ZERO" /\ is_block_protected(st.latest, r.lsn, r.blk)
    THEN st
    ELSE process_journal_entry(st, r, "REDO", prot, aborted)

\* sfs_domount's recovery: the freemap and the blocks after the three passes.
Recovered ==
    LET c == CheckPass
        u == FoldRight(LAMBDA r, st : undo_record(r, st, c.prot, c.aborted),
                       Journal,
                       [bitmap |-> dbitmap, content |-> disk, latest |-> NoEntry])
    IN FoldLeft(LAMBDA st, r : redo_record(st, r, c.prot, c.aborted), u, Journal)

-----------------------------------------------------------------------------
(***************************************************************************)
(* What the committed transactions say                                     *)
(***************************************************************************)
\* Every durable record, trimmed or not: what the transactions really did.
JRecs == {log[i] : i \in 1 .. durable}

Committed == {r.tnx : r \in {x \in JRecs : x.type = "END"}}

CommittedOn(b, types) ==
    {r \in JRecs : r.tnx \in Committed /\ r.blk = b /\ r.type \in types}

NewestLsn(S) == IF S = {} THEN 0 ELSE Max({r.lsn : r \in S})

\* The LSN of the newest committed ALLOC of b, and whether b is in use.
RefAlloc(b) == NewestLsn(CommittedOn(b, {"ALLOC"}))
RefInUse(b) == LET l == NewestLsn(CommittedOn(b, {"ALLOC", "FREE"}))
               IN l # 0 /\ log[l].type = "ALLOC"

\* The newest committed allocation of b went through: its ZERO_BLOCK follows.
Allocated(b) == LET a == RefAlloc(b)
                IN RefInUse(b) /\ a < durable /\ log[a + 1].type = "ZERO"

\* What a record does to the block in the buffer cache.
Apply(c, r) ==
    CASE r.type = "ZERO" -> Zeroed
      [] r.type = "WRITE" -> Written(r.lsn)
      [] r.type = "SET" -> [c EXCEPT !.word = r.new]
      [] r.type = "SIZE" -> [c EXCEPT !.size = r.new]
      [] r.type = "LINK" -> [c EXCEPT !.link = r.new]
      [] r.type = "ITYPE" -> [c EXCEPT !.type = r.new]
      [] OTHER -> c

\* The block as the committed changes since its newest committed
\* allocation leave it, applied in LSN order.
RefBlock(b) ==
    FoldLeft(Apply, Zeroed,
             SelectSeq(SubSeq(log, 1, durable),
                       LAMBDA r : /\ r.tnx \in Committed /\ r.blk = b
                                  /\ r.lsn > RefAlloc(b)))

\* The image as files see it: an inode of type INVAL is no file, and its
\* other fields are never read.
Visible(c) == IF c.type = SFS_TYPE_INVAL THEN [c EXCEPT !.size = 0, !.link = 0] ELSE c

\* Every value in the block was written since allocation LSN a, or is zero.
NoOlderThan(c, a) == \A f \in {"word", "size", "link"} : c[f] = 0 \/ c[f] > a

\* b was changed as metadata (a block object or an inode field) since its
\* newest committed allocation.
IsMeta(b) ==
    \E r \in JRecs : r.type \in {"SET", "SIZE", "LINK", "ITYPE"} /\ r.blk = b
                     /\ r.lsn > RefAlloc(b)

\* No record of an unfinished transaction touches b since its allocation.
UntouchedByUncommitted(b) ==
    \A r \in JRecs : r.blk = b /\ r.lsn > RefAlloc(b) => r.tnx \in Committed


-----------------------------------------------------------------------------
(***************************************************************************)
(* Properties, each evaluated on the crash image of the current state      *)
(***************************************************************************)
TypeOK ==
    /\ log \in Seq(Record) /\ Len(log) <= MaxLog
    /\ durable \in 0 .. Len(log)
    /\ t_tnx \in [Writers -> {0} \cup Lsns]
    /\ bitmap \in [Blocks -> BOOLEAN] /\ dbitmap \in [Blocks -> BOOLEAN]
    /\ fmNew \in {0} \cup Lsns
    /\ mem \in [Blocks -> Block] /\ disk \in [Blocks -> Block]
    /\ memLsn \in [Blocks -> {0} \cup Lsns]
    /\ kind \in [Blocks -> Kinds]
    /\ owner \in [Blocks -> {0} \cup Lsns]
    /\ blkOld \in [Blocks -> {0} \cup Lsns] /\ fmOld \in {0} \cup Lsns
    /\ tail \in 1 .. MaxLog + 1

(* A block that a committed transaction allocated, and that no committed  *)
(* transaction freed since, is marked in the freemap after recovery: the  *)
(* undo pass rolls every logged ALLOC/FREE back and the redo pass replays *)
(* only the committed ones (parse_alloc_block, parse_free_block).         *)
RecoveredAllocated ==
    \A b \in Blocks : Allocated(b) => Recovered.bitmap[b]

(* Protected-block safety (spec 8, case 6): after recovery a block in use *)
(* holds zeros or values written since its newest committed allocation,   *)
(* never a write of the block's previous owner (is_block_protected and    *)
(* latest_writes in the undo and redo passes).                            *)
NoStaleData ==
    \A b \in Blocks : Allocated(b) => NoOlderThan(Recovered.content[b], RefAlloc(b))

(* The same for a block that only committed transactions touched since   *)
(* its allocation: reuse of a block inside the log window (FREE, ALLOC,   *)
(* ZERO) must not let recovery bring back its previous owner's writes,    *)
(* whatever was written back and whatever was trimmed.                    *)
CommittedNoStaleData ==
    \A b \in Blocks :
        Allocated(b) /\ UntouchedByUncommitted(b)
            => NoOlderThan(Recovered.content[b], RefAlloc(b))

(* A metadata block or inode that only committed transactions touched     *)
(* since its allocation holds, after recovery, exactly what the committed *)
(* changes left in it: the redo of CHANGE_BLOCK_OBJ and of the inode      *)
(* records against protected blocks, their re-initialisation of an inode  *)
(* image of the wrong type, and the zeroing of ZERO_BLOCK redo.           *)
CommittedMetadataRecovered ==
    \A b \in Blocks :
        Allocated(b) /\ IsMeta(b) /\ UntouchedByUncommitted(b)
            => Visible(Recovered.content[b]) = Visible(RefBlock(b))

(* Spec 4.9 and spec 8, case 4: recovery undoes the visible changes of a  *)
(* transaction that did not commit, so every metadata block or inode in   *)
(* use holds what the committed transactions wrote.  The parsers return   *)
(* early for aborted transactions in both directions (sfs_recovery.c).    *)
MetadataRecovered ==
    \A b \in Blocks :
        Allocated(b) /\ IsMeta(b) => Visible(Recovered.content[b]) = Visible(RefBlock(b))

=============================================================================
