----------------------------- MODULE Ext2Blocks -----------------------------
(***************************************************************************)
(* Blocks and inodes of the ext2 driver (src/kernel/fs/ext2.c): writes     *)
(* that may fail, the two bitmaps with their free counts, and the tree of  *)
(* indirect blocks that maps a file's blocks.                              *)
(*                                                                         *)
(* Every public call of the driver runs to completion, so a call is one    *)
(* step.  Inside it a write may fail at any point, and what the call does  *)
(* then is most of the code.  A function of the driver is therefore an     *)
(* operator that gives the SET of its outcomes <<rc, s, v>>: the return    *)
(* code, the state of the driver and the disk, and the value it yields.    *)
(*                                                                         *)
(* The file system has one block group.  A block holds BS units of data,   *)
(* or Ptrs block numbers, or PerBlock directory entries; an inode has NDir *)
(* direct pointers and one pointer for each of Levels levels of indirect   *)
(* blocks.  Block 0 is no block.  A failing read leaves what a failing     *)
(* write of the same step leaves, and is not a choice of its own.          *)
(***************************************************************************)
EXTENDS Integers, Sequences, FiniteSets

LOCAL INSTANCE SequencesExt

CONSTANTS
  MaxIno, MaxBlk,   \* inodes 2 .. MaxIno and blocks 1 .. MaxBlk
  BS, Ptrs, NDir, Levels

ASSUME Ext2BlocksAssumption ==
  /\ MaxIno \in Nat /\ MaxIno > 2 /\ MaxBlk \in Nat \ {0}
  /\ \A n \in {BS, Ptrs, NDir} : n \in Nat \ {0}
  /\ Levels \in 0 .. 3

Root == 2
Ino == Root .. MaxIno
Blk == 1 .. MaxBlk
Slot == 0 .. NDir + Levels - 1

\* An inode: i_mode, i_links_count, i_size in units, i_block and i_blocks.
NewInode(mode, links) ==
  [mode |-> mode, links |-> links, size |-> 0, map |-> [i \in Slot |-> 0], nblk |-> 0]

\* Contents of a block: a kind and what the block holds as such.
Zeroes == <<"table", [i \in 0 .. Ptrs - 1 |-> 0]>>
Data(units) == <<"data", units>>

Ok(s, v) == {<<"ok", s, v>>}
Fail(s, rc) == {<<rc, s, 0>>}

\* The outcomes of O followed by F, of F for every x of a sequence, of F
\* whether or not O failed, and of O with a clean-up F of its failures, the
\* result of which is not looked at.
Then(O, F(_, _)) == UNION {IF o[1] = "ok" THEN F(o[2], o[3]) ELSE {o} : o \in O}
ForEach(s, seq, F(_, _)) ==
  FoldLeft(LAMBDA O, x : Then(O, LAMBDA t, v : F(t, x)), Ok(s, 0), seq)
After(O, F(_)) == UNION {F(o[2]) : o \in O}
Undo(O, F(_)) ==
  UNION {IF o[1] = "ok" THEN {o} ELSE {<<o[1], u[2], 0>> : u \in F(o[2])} : o \in O}

\* A device error, as long as one is left to happen.
Broken(s) == [s EXCEPT !.io = s.io - 1, !.clean = FALSE]
MayFail(s) == Ok(s, 0) \cup (IF s.io > 0 THEN Fail(Broken(s), "EIO") ELSE {})

\* write_bytes() of one sector: an inode, a group descriptor, the superblock.
write_sector(s, t) == Ok(t, 0) \cup (IF s.io > 0 THEN Fail(Broken(s), "EIO") ELSE {})

\* A block is several sectors: the change may be stored and the write fail.
write_block(s, t) ==
  write_sector(s, t) \cup (IF s.io > 0 THEN Fail(Broken(t), "EIO") ELSE {})

write_inode(s, ino, r) == write_sector(s, [s EXCEPT !.inode[ino] = s.m[r]])

-----------------------------------------------------------------------------
(* Bitmaps.  The descriptor and the superblock are written after the       *)
(* counts have changed in memory.                                          *)

alloc_block(s) ==
  LET free == Blk \ s.bbits
      b == CHOOSE x \in free : \A y \in free : x <= y
  IN  IF s.bfree = 0 \/ free = {} THEN Fail(s, "ENOSPC")
      ELSE Then(write_block(s, [s EXCEPT !.bbits = @ \cup {b}]), LAMBDA t, x :
           Then(MayFail([t EXCEPT !.bfree = @ - 1]), LAMBDA u, y : Ok(u, b)))

free_block(s, b) ==
  IF b \notin s.bbits THEN Fail(s, "EIO")
  ELSE Then(write_block(s, [s EXCEPT !.bbits = @ \ {b}]), LAMBDA t, x :
       MayFail([t EXCEPT !.bfree = @ + 1]))

DirCount(dir) == IF dir THEN 1 ELSE 0

alloc_inode(s, dir) ==
  LET free == Ino \ s.ibits
      i == CHOOSE x \in free : \A y \in free : x <= y
  IN  IF s.ifree = 0 \/ free = {} THEN Fail(s, "ENOSPC")
      ELSE Then(write_block(s, [s EXCEPT !.ibits = @ \cup {i}]), LAMBDA t, x :
           Then(MayFail([t EXCEPT !.ifree = @ - 1, !.dirs = @ + DirCount(dir)]),
                LAMBDA u, y : Ok(u, i)))

free_inode(s, i, dir) ==
  IF i \notin s.ibits THEN Fail(s, "EIO")
  ELSE Then(write_block(s, [s EXCEPT !.ibits = @ \ {i}]), LAMBDA t, x :
       MayFail([t EXCEPT !.ifree = @ + 1, !.dirs = @ - DirCount(dir)]))

-----------------------------------------------------------------------------
(* Block maps. *)

RECURSIVE Power(_, _)
Power(n, k) == IF k = 0 THEN 1 ELSE n * Power(n, k - 1)

\* The first logical block of a level of indirection.
RECURSIVE Base(_)
Base(level) == IF level = 1 THEN NDir ELSE Base(level - 1) + Power(Ptrs, level - 1)

\* The pointer in the inode and the index at each level below it.
block_path(lb) ==
  IF lb < NDir THEN [slot |-> lb, index |-> <<>>]
  ELSE LET depth == CHOOSE k \in 1 .. Levels : Base(k) <= lb /\ lb < Base(k) + Power(Ptrs, k)
           rem == lb - Base(depth)
       IN  [slot |-> NDir - 1 + depth,
            index |-> [d \in 1 .. depth |-> (rem \div Power(Ptrs, depth - d)) % Ptrs]]

MaxLb == IF Levels = 0 THEN NDir ELSE Base(Levels) + Power(Ptrs, Levels)

Table(s, b) == IF s.con[b][1] = "table" THEN s.con[b][2] ELSE Zeroes[2]

\* The block after cur on a path, at depth d; 0 where the path ends.
Below(s, n, p, d, cur) ==
  CASE d = 0 -> n.map[p.slot]
    [] d > 0 /\ cur = 0 -> 0
    [] OTHER -> Table(s, cur)[p.index[d]]

RECURSIVE Down(_, _, _, _)
Down(s, n, p, d) ==
  Below(s, n, p, d, IF d = 0 THEN 0 ELSE Down(s, n, p, d - 1))

inode_get_block(s, n, lb) ==
  LET p == block_path(lb) IN Down(s, n, p, Len(p.index))

\* One level of a path: the block there, a fresh one when it is missing.
MapLevel(s, r, p, d, cur) ==
  LET there == Below(s, s.m[r], p, d, cur)
      clear(t, b) == IF d < Len(p.index) THEN write_block(t, [t EXCEPT !.con[b] = Zeroes])
                     ELSE Ok(t, 0)
      entered(t, b) ==
        IF d = 0 THEN Ok([t EXCEPT !.m[r].map[p.slot] = b], 0)
        ELSE write_block(t, [t EXCEPT !.con[cur] =
                                <<"table", [Table(t, cur) EXCEPT ![p.index[d]] = b]>>])
  IN  IF there # 0 THEN Ok(s, there)
      ELSE Then(alloc_block(s), LAMBDA t, b :
           Then(clear(t, b), LAMBDA u, x :
           Then(entered(u, b), LAMBDA w, y : Ok([w EXCEPT !.m[r].nblk = @ + 1], b))))

\* The blocks a path lacks.
NeededBlocks(s, n, p) ==
  Cardinality({d \in 0 .. Len(p.index) : Down(s, n, p, d) = 0})

\* A fresh block at logical index lb of the inode r has in memory.
inode_map_new_block(s, r, lb) ==
  LET p == block_path(lb)
      needed == NeededBlocks(s, s.m[r], p)
  IN  CASE needed = 0 -> Fail(s, "EIO")
        [] needed > s.bfree -> Fail(s, "ENOSPC")
        [] OTHER -> FoldLeft(LAMBDA O, d : Then(O, LAMBDA t, cur : MapLevel(t, r, p, d, cur)),
                             Ok(s, 0), [d \in 1 .. Len(p.index) + 1 |-> d - 1])

Indices == [i \in 1 .. Ptrs |-> i - 1]

RECURSIVE free_indirect(_, _, _)
free_indirect(s, b, level) ==
  Then(ForEach(s, SelectSeq([i \in 1 .. Ptrs |-> Table(s, b)[i - 1]], LAMBDA c : c # 0),
               LAMBDA t, c : IF level > 1 THEN free_indirect(t, c, level - 1)
                             ELSE free_block(t, c)),
       LAMBDA t, x : free_block(t, b))

\* The tables of a trim are in memory, s.buf, one for each level; a table
\* that keeps a pointer is written back, one that keeps none goes with its
\* block.  The value of an outcome tells whether nothing is left below b.
RECURSIVE trim_indirect(_, _, _, _, _)
trim_indirect(s, b, level, base, keep) ==
  LET span == Power(Ptrs, level - 1)
      trim(t, i) ==
        LET child == t.buf[level][i]
            start == base + i * span
        IN  IF child = 0 \/ start + span <= keep THEN Ok(t, 0)
            ELSE Then(IF level > 1 THEN trim_indirect(t, child, level - 1, start, keep)
                      ELSE Ok(t, TRUE),
                 LAMBDA u, empty :
                   IF ~empty THEN Ok(u, 0)
                   ELSE Then(free_block(u, child), LAMBDA w, y :
                          Ok([w EXCEPT !.buf[level][i] = 0, !.freed = @ + 1], 0)))
      left(t) == \E i \in 0 .. Ptrs - 1 : t.buf[level][i] # 0
      store(t) == IF t.buf[level] = Table(t, b) THEN Ok(t, 0)
                  ELSE write_block(t, [t EXCEPT !.con[b] = <<"table", t.buf[level]>>])
  IN  Then(Undo(ForEach([s EXCEPT !.buf[level] = Table(s, b)], Indices, trim), store),
           LAMBDA t, x : IF left(t) THEN Then(store(t), LAMBDA u, y : Ok(u, FALSE))
                         ELSE Ok(t, TRUE))

DirectSlots == [i \in 1 .. NDir |-> i - 1]
LevelSeq == [k \in 1 .. Levels |-> k]
LevelSlot(k) == NDir - 1 + k

\* A level that maps blocks at or beyond keep.
TrimsLevel(k, keep) == Base(k) + Power(Ptrs, k) > keep

\* The blocks of inode r from logical block keep on are freed; what was freed
\* before an error is taken off i_blocks too.
inode_trim_blocks(s, r, keep) ==
  LET dropped(t, slot) == [t EXCEPT !.m[r].map[slot] = 0, !.freed = @ + 1]
      direct(t, i) ==
        LET b == t.m[r].map[i] IN
        IF i < keep \/ b = 0 THEN Ok(t, 0)
        ELSE Then(free_block(t, b), LAMBDA u, x : Ok(dropped(u, i), 0))
      level(t, k) ==
        LET b == t.m[r].map[LevelSlot(k)] IN
        IF b = 0 \/ ~TrimsLevel(k, keep) THEN Ok(t, 0)
        ELSE Then(trim_indirect(t, b, k, Base(k), keep), LAMBDA u, empty :
               IF ~empty THEN Ok(u, 0)
               ELSE Then(free_block(u, b), LAMBDA w, y : Ok(dropped(w, LevelSlot(k)), 0)))
      all == Then(ForEach([s EXCEPT !.freed = 0], DirectSlots, direct),
                  LAMBDA t, x : ForEach(t, LevelSeq, level))
  IN  {<<o[1], [o[2] EXCEPT !.m[r].nblk = @ - o[2].freed], o[3]>> : o \in all}

inode_has_block_map(n) == n.mode \in {"file", "dir"} \/ n.nblk > 0

\* All blocks of inode r are freed; its pointers are forgotten even when the
\* block they name could not be freed.
inode_release_blocks(s, r) ==
  LET forget(O, slot) == {<<o[1], [o[2] EXCEPT !.m[r].map[slot] = 0], o[3]>> : o \in O}
      direct(t, i) == IF t.m[r].map[i] = 0 THEN Ok(t, 0)
                      ELSE forget(free_block(t, t.m[r].map[i]), i)
      level(t, k) == IF t.m[r].map[LevelSlot(k)] = 0 THEN Ok(t, 0)
                     ELSE forget(free_indirect(t, t.m[r].map[LevelSlot(k)], k), LevelSlot(k))
  IN  IF ~inode_has_block_map(s.m[r]) THEN Ok(s, 0)
      ELSE Then(ForEach(s, DirectSlots, direct), LAMBDA t, x :
           Then(ForEach(t, LevelSeq, level), LAMBDA u, y :
             Ok([u EXCEPT !.m[r].nblk = 0, !.m[r].size = 0], 0)))

\* The blocks an inode owns, indirect ones included.
RECURSIVE Tree(_, _, _)
Tree(s, b, level) ==
  IF b = 0 THEN {}
  ELSE {b} \cup (IF level = 0 THEN {}
                 ELSE UNION {Tree(s, Table(s, b)[i], level - 1) : i \in 0 .. Ptrs - 1})
SlotLevel(i) == IF i < NDir THEN 0 ELSE i - NDir + 1
Owned(s, n) ==
  IF inode_has_block_map(n) THEN UNION {Tree(s, n.map[i], SlotLevel(i)) : i \in Slot} ELSE {}

\* A block read as data; what it held as something else is 2.
Units(s, b) == IF s.con[b][1] = "data" THEN s.con[b][2] ELSE [i \in 1 .. BS |-> 2]

\* What ext2_read_file_at() reads of a file: a hole reads as zeroes.
ReadFile(s, n) ==
  [u \in 1 .. n.size |->
     LET b == inode_get_block(s, n, (u - 1) \div BS)
     IN  IF b = 0 THEN 0 ELSE Units(s, b)[((u - 1) % BS) + 1]]
=============================================================================
