-------------------------------- MODULE Ext2 --------------------------------
(***************************************************************************)
(* The ext2 driver (src/kernel/fs/ext2.c) above its blocks: directories,   *)
(* path resolution through the directory entry cache, and the calls that   *)
(* change the tree.  Each call is one step; see Ext2Blocks for outcomes.   *)
(*                                                                         *)
(* The state fs holds the disk as seen through the block cache (inodes,    *)
(* contents of blocks, bitmaps), the counts of the superblock and of the   *)
(* group, the directory entry cache, the number of device errors still to  *)
(* come, whether there was none (clean), and two histories: text, what     *)
(* programs wrote to each file, and torn, whether a directory block was    *)
(* stored by a write that failed.  The fields m, buf, freed and pos are    *)
(* the local variables of a call.  A directory block is the                *)
(* function from the names to the inodes they mean, 0 for none: names have *)
(* one length, so a block has room for PerBlock entries wherever they were *)
(* removed.                                                                *)
(* Attributes, time stamps, extended attributes and the htree flag are     *)
(* left out.                                                               *)
(***************************************************************************)
EXTENDS Ext2Blocks, Dcache

LOCAL INSTANCE SequencesExt

CONSTANTS
  Name,             \* names of directory entries
  PerBlock,         \* entries a directory block has room for
  EXT2_LINK_MAX

ASSUME Ext2Assumption ==
  /\ PerBlock \in Nat /\ PerBlock > 2
  /\ EXT2_LINK_MAX \in Nat

VARIABLE fs

EntryName == Name \cup {".", ".."}
Local == {"ino", "parent", "np"}

NoEntries == [x \in EntryName |-> 0]
Idle(s) ==
  [s EXCEPT !.m = [r \in Local |-> NewInode("none", 0)],
            !.buf = [k \in 1 .. Levels |-> Zeroes[2]], !.freed = 0, !.pos = 0]

is_dir(n) == n.mode = "dir"
is_file(n) == n.mode = "file"

Load(s, r, ino) == [s EXCEPT !.m[r] = s.inode[ino]]

-----------------------------------------------------------------------------
(* Directories. *)

Entries(s, b) == IF s.con[b][1] = "dir" THEN s.con[b][2] ELSE NoEntries

\* The blocks dir_walk() visits, in order.
dir_walk(s, n) ==
  SelectSeq([i \in 1 .. n.size \div BS |-> inode_get_block(s, n, i - 1)], LAMBDA b : b # 0)

BlockWith(s, n, Test(_)) == SelectInSeq(dir_walk(s, n), LAMBDA b : Test(Entries(s, b)))

\* The inode a name means, 0 when it means none.
dir_lookup(s, n, name) ==
  LET found == {Entries(s, b)[name] : b \in ToSet(dir_walk(s, n))} \ {0}
  IN  IF ~is_dir(n) \/ found = {} THEN 0 ELSE CHOOSE i \in found : TRUE

dir_is_empty(s, n) == \A x \in Name : dir_lookup(s, n, x) = 0

\* The entry is stored in the block or not, and the write succeeds or fails.
SetEntry(s, b, name, ino) ==
  LET O == write_block(s, [s EXCEPT !.con[b] = <<"dir", [Entries(s, b) EXCEPT ![name] = ino]>>])
  IN  {<<o[1], [o[2] EXCEPT !.torn = @ \/ (o[1] # "ok" /\ o[2].con # s.con)], o[3]>> : o \in O}

Uncache(s, dir, name) == [s EXCEPT !.dc = dcache_invalidate_entry(s.dc, dir, name)]

\* The entry goes to the first block with room, or to a new last block.
dir_add_entry(s, dir, r, name, child) ==
  LET t == Uncache(s, dir, name)
      i == BlockWith(t, t.m[r], LAMBDA e : Cardinality({x \in EntryName : e[x] # 0}) < PerBlock)
  IN  IF i # 0 THEN SetEntry(t, dir_walk(t, t.m[r])[i], name, child)
      ELSE Then(inode_map_new_block(t, r, t.m[r].size \div BS), LAMBDA u, b :
           Then(write_block(u, [u EXCEPT !.con[b] = <<"dir", [NoEntries EXCEPT ![name] = child]>>]),
                LAMBDA w, x : write_inode([w EXCEPT !.m[r].size = @ + BS], dir, r)))

\* The entry of a name changes to ino, 0 to remove it.
ChangeEntry(s, dir, n, name, ino, missing) ==
  LET t == Uncache(s, dir, name)
      i == BlockWith(t, n, LAMBDA e : e[name] # 0)
  IN  IF i = 0 THEN Fail(t, missing) ELSE SetEntry(t, dir_walk(t, n)[i], name, ino)

dir_remove_entry(s, dir, r, name) == ChangeEntry(s, dir, s.m[r], name, 0, "ENOENT")
dir_retarget_entry(s, dir, r, name, ino) == ChangeEntry(s, dir, s.m[r], name, ino, "EIO")

-----------------------------------------------------------------------------
(* Paths: sequences of names. *)

dir_lookup_cached(s, dir, name) ==
  LET i == find_entry(s.dc, dir, name)
      found == dir_lookup(s, s.inode[dir], name)
      t == [s EXCEPT !.dc = IF i # 0 THEN Touch(s.dc, i)
                            ELSE dcache_insert(s.dc, dir, name, found)]
      child == IF i # 0 THEN s.dc[i].child ELSE found
  IN  CASE ~is_dir(s.inode[dir]) -> Fail(s, "ENOTDIR")
        [] is_dir(s.inode[dir]) /\ child = Absent -> Fail(t, "ENOENT")
        [] OTHER -> Ok(t, child)

resolve_path(s, path) ==
  FoldLeft(LAMBDA O, name : Then(O, LAMBDA t, dir : dir_lookup_cached(t, dir, name)),
           Ok(s, Root), path)

\* The directory of the last name, loaded into the local variable r.
resolve_parent(s, path, r) ==
  Then(resolve_path(s, Front(path)), LAMBDA t, dir :
    IF is_dir(t.inode[dir]) THEN Ok(Load(t, r, dir), dir) ELSE Fail(t, "ENOTDIR"))

\* The directory of a name that must not exist yet.
ResolveNew(s, path) ==
  Then(resolve_parent(s, path, "parent"), LAMBDA t, dir :
    IF dir_lookup(t, t.m["parent"], Last(path)) # 0 THEN Fail(t, "EEXIST") ELSE Ok(t, dir))

\* The walk up from start reaches the root before it reaches ancestor.
check_not_ancestor(s, ancestor, start) ==
  LET up[k \in 0 .. MaxIno] ==
        IF k = 0 THEN start
        ELSE IF up[k - 1] \in {0, Root, ancestor} THEN up[k - 1]
        ELSE dir_lookup(s, s.inode[up[k - 1]], "..")
  IN  up[MaxIno] = Root

\* An inode goes whose last name is gone.
inode_destroy(s, ino, r) ==
  LET dir == is_dir(s.m[r])
      forgotten == [s EXCEPT !.dc = dcache_invalidate_inode(s.dc, ino)]
  IN  Then(inode_release_blocks(forgotten, r), LAMBDA t, x :
      Then(write_inode([t EXCEPT !.m[r].links = 0], ino, r), LAMBDA u, y : free_inode(u, ino, dir)))

-----------------------------------------------------------------------------
(* The calls. *)

Wrote(s, ino, units) == [s EXCEPT !.text[ino] = units]
Ceil(n) == (n + BS - 1) \div BS

\* The units of logical block lb in a sequence that starts at unit 1.
Part(units, lb) ==
  [i \in 1 .. BS |-> IF lb * BS + i <= Len(units) THEN units[lb * BS + i] ELSE 0]

write_file_data(s, units) ==
  Then(ForEach(s, [i \in 1 .. Ceil(Len(units)) |-> i - 1], LAMBDA t, lb :
         Then(inode_map_new_block(t, "ino", lb), LAMBDA u, b :
              write_block(u, [u EXCEPT !.con[b] = Data(Part(units, lb))]))),
       LAMBDA t, x : Ok([t EXCEPT !.m["ino"].size = Len(units)], 0))

\* A file that could not be written whole is left empty.
FillFile(s, ino, units) ==
  Then(Undo(write_file_data(Wrote(s, ino, <<>>), units), LAMBDA t :
         After(inode_release_blocks(t, "ino"), LAMBDA u : write_inode(u, ino, "ino"))),
       LAMBDA t, x : write_inode(Wrote(t, ino, units), ino, "ino"))

ext2_write_file(s0, path, units) ==
  Then(resolve_parent(s0, path, "parent"), LAMBDA s, dir :
    LET old == dir_lookup(s, s.m["parent"], Last(path))
        emptied == Then(inode_release_blocks(Load(s, "ino", old), "ino"), LAMBDA t, x :
                        write_inode(t, old, "ino"))
        created(t, new) ==
          Undo(Then(write_inode(t, new, "ino"), LAMBDA u, x :
                    dir_add_entry(u, dir, "parent", Last(path), new)),
               LAMBDA u : inode_destroy(u, new, "ino"))
    IN  IF old = 0
          THEN Then(alloc_inode(s, FALSE), LAMBDA t, new :
               Then(created([t EXCEPT !.m["ino"] = NewInode("file", 1)], new), LAMBDA u, x :
                    FillFile(u, new, units)))
          ELSE IF ~is_file(s.inode[old]) THEN Fail(s, "EISDIR")
          ELSE Then(emptied, LAMBDA t, x : FillFile(t, old, units)))

\* The call goes on to write the inode even if an earlier part failed.
AndInode(O, ino, Last_(_)) ==
  UNION {{<<IF o[1] = "ok" THEN w[1] ELSE o[1], w[2], 0>> :
            w \in write_inode(Last_(o), ino, "ino")} : o \in O}

\* Units off + 1 .. off + n of a file of that text, after they are written.
Overlay(units, off, n) ==
  [i \in 1 .. (IF n > 0 /\ off + n > Len(units) THEN off + n ELSE Len(units)) |->
     IF off < i /\ i <= off + n THEN 1 ELSE IF i <= Len(units) THEN units[i] ELSE 0]

ext2_write_at(s0, path, off, n) ==
  Then(resolve_path(s0, path), LAMBDA s, ino :
    LET end == off + n
        chunk(t, lb) ==
          LET there == inode_get_block(t, t.m["ino"], lb)
              got(u, b) == IF there = 0 THEN Part(<<>>, 0) ELSE Units(u, b)
          IN  Then(IF there = 0 THEN inode_map_new_block(t, "ino", lb) ELSE Ok(t, there),
                LAMBDA u, b :
                Then(write_block(u, [u EXCEPT !.con[b] = Data(
                       [i \in 1 .. BS |-> IF off < lb * BS + i /\ lb * BS + i <= end
                                            THEN 1 ELSE got(u, b)[i]])]),
                     LAMBDA w, x : Ok([w EXCEPT !.pos = IF end < (lb + 1) * BS THEN end
                                                         ELSE (lb + 1) * BS], 0)))
        first == off \div BS
        sized(o) == LET t == o[2] IN
          Wrote([t EXCEPT !.m["ino"].size = IF t.pos > @ /\ t.pos > off THEN t.pos ELSE @],
                ino, Overlay(t.text[ino], off, t.pos - off))
    IN  IF ~is_file(s.inode[ino]) THEN Fail(s, "EISDIR")
        ELSE AndInode(ForEach([Load(s, "ino", ino) EXCEPT !.pos = off],
                              [i \in 1 .. Ceil(end) - first |-> first + i - 1], chunk),
                      ino, sized))

\* Mutant: the rest of the last block is left as it is.
zero_block_tail_None(s, size) == Ok(s, 0)

zero_block_tail(s, size) ==
  LET b == IF size % BS = 0 THEN 0 ELSE inode_get_block(s, s.m["ino"], size \div BS)
  IN  IF b = 0 THEN Ok(s, 0)
      ELSE write_block(s, [s EXCEPT !.con[b] = Data(
             [i \in 1 .. BS |-> IF i <= size % BS THEN Units(s, b)[i] ELSE 0])])

ext2_truncate(s0, path, size) ==
  Then(resolve_path(s0, path), LAMBDA s, ino :
    LET n == s.inode[ino]
        t == [Load(s, "ino", ino) EXCEPT !.m["ino"].size = size]
        cut == Then(inode_trim_blocks(Load(s, "ino", ino), "ino", Ceil(size)), LAMBDA u, x :
                    zero_block_tail([u EXCEPT !.m["ino"].size = size], size))
        done(o) == IF o[1] # "ok" THEN o[2]
                   ELSE Wrote(o[2], ino, [i \in 1 .. size |->
                          IF i <= Len(o[2].text[ino]) THEN o[2].text[ino][i] ELSE 0])
    IN  IF ~is_file(n) THEN Fail(s, "EISDIR")
        ELSE IF size = n.size THEN Ok(s, 0)
        ELSE IF size > n.size THEN AndInode(Ok(t, 0), ino, done)
        ELSE AndInode(cut, ino, done))

ext2_mkdir(s0, path) ==
  Then(ResolveNew(s0, path), LAMBDA s, dir :
    LET dots(new) == [NoEntries EXCEPT !["."] = new, ![".."] = dir]
        linked(t, new, b) ==
          Undo(Then(write_block(t, [t EXCEPT !.con[b] = <<"dir", dots(new)>>]), LAMBDA u, x :
               Then(write_inode([u EXCEPT !.m["ino"].size = BS], new, "ino"), LAMBDA w, y :
                    dir_add_entry(w, dir, "parent", Last(path), new))),
               LAMBDA u : inode_destroy(u, new, "ino"))
        mapped(t, new) == Undo(inode_map_new_block(t, "ino", 0), LAMBDA u : free_inode(u, new, TRUE))
    IN  IF s.m["parent"].links >= EXT2_LINK_MAX THEN Fail(s, "EMLINK")
        ELSE Then(alloc_inode(s, TRUE), LAMBDA t, new :
             Then(mapped([t EXCEPT !.m["ino"] = NewInode("dir", 2)], new), LAMBDA u, b :
             Then(linked(u, new, b), LAMBDA w, x :
                  write_inode([w EXCEPT !.m["parent"].links = @ + 1], dir, "parent")))))

Drop(s, r) == [s EXCEPT !.m[r].links = IF @ > 1 THEN @ - 1 ELSE @]

ext2_rmdir(s0, path) ==
  Then(resolve_parent(s0, path, "parent"), LAMBDA s, dir :
    LET ino == dir_lookup(s, s.m["parent"], Last(path)) IN
    IF ino = 0 THEN Fail(s, "ENOENT")
    ELSE IF ~is_dir(s.inode[ino]) THEN Fail(s, "ENOTDIR")
    ELSE IF ~dir_is_empty(s, s.inode[ino]) THEN Fail(s, "ENOTEMPTY")
    ELSE Then(dir_remove_entry(s, dir, "parent", Last(path)), LAMBDA t, x :
         Then(write_inode(Drop(t, "parent"), dir, "parent"), LAMBDA u, y :
              inode_destroy(Load(u, "ino", ino), ino, "ino"))))

\* A name less for the inode in "ino".
LoseName(s, ino) ==
  IF s.m["ino"].links > 1 THEN write_inode(Drop(s, "ino"), ino, "ino")
  ELSE inode_destroy(s, ino, "ino")

ext2_unlink(s0, path) ==
  Then(resolve_parent(s0, path, "parent"), LAMBDA s, dir :
    LET ino == dir_lookup(s, s.m["parent"], Last(path)) IN
    IF ino = 0 THEN Fail(s, "ENOENT")
    ELSE IF is_dir(s.inode[ino]) THEN Fail(s, "EISDIR")
    ELSE Then(dir_remove_entry(s, dir, "parent", Last(path)), LAMBDA t, x :
              LoseName(Load(t, "ino", ino), ino)))

\* What follows the new entry of a rename.
LeaveOld(s, old, name, src, to, moves) ==
  Then(dir_remove_entry(s, old, "parent", name), LAMBDA t, x :
       IF moves THEN ChangeEntry(t, src, t.inode[src], "..", to, "EIO") ELSE Ok(t, 0))

\* Mutant: the directory a replaced one was in keeps its link.
RenameLinks_Kept(s, np, moves, replace, dstDir) ==
  IF moves /\ ~replace THEN [Drop(s, "parent") EXCEPT !.m[np].links = @ + 1]
  ELSE IF moves THEN Drop(s, "parent")
  ELSE s

RenameLinks(s, np, moves, replace, dstDir) ==
  IF moves /\ ~replace THEN [Drop(s, "parent") EXCEPT !.m[np].links = @ + 1]
  ELSE IF moves THEN Drop(s, "parent")
  ELSE IF dstDir THEN Drop(s, np)
  ELSE s

ext2_rename(s0, from, to) ==
  Then(resolve_parent(s0, from, "parent"), LAMBDA s1, old :
  Then(resolve_parent(s1, to, "np"), LAMBDA s, new :
    LET np == IF old = new THEN "parent" ELSE "np"
        src == dir_lookup(s, s.m["parent"], Last(from))
        dst == dir_lookup(s, s.m[np], Last(to))
        replace == dst # 0
        srcDir == is_dir(s.inode[src])
        dstDir == replace /\ is_dir(s.inode[dst])
        moves == srcDir /\ old # new
        named == IF replace THEN dir_retarget_entry(s, new, np, Last(to), src)
                 ELSE dir_add_entry(s, new, np, Last(to), src)
        parents(t) == Then(write_inode(t, old, "parent"), LAMBDA u, x :
                           IF old = new THEN Ok(u, 0) ELSE write_inode(u, new, "np"))
        replaced(t) == IF dstDir THEN inode_destroy(Load(t, "ino", dst), dst, "ino")
                       ELSE LoseName(Load(t, "ino", dst), dst)
    IN  IF src = 0 THEN Fail(s, "ENOENT")
        ELSE IF moves /\ ~check_not_ancestor(s, src, new) THEN Fail(s, "EINVAL")
        ELSE IF dst = src THEN Ok(s, 0)
        ELSE IF replace /\ srcDir # dstDir THEN Fail(s, "EISDIR")
        ELSE IF dstDir /\ ~dir_is_empty(s, s.inode[dst]) THEN Fail(s, "ENOTEMPTY")
        ELSE IF moves /\ ~replace /\ s.m[np].links >= EXT2_LINK_MAX THEN Fail(s, "EMLINK")
        ELSE Then(named, LAMBDA t, x :
             Then(LeaveOld(t, old, Last(from), src, new, moves), LAMBDA u, y :
             Then(parents(RenameLinks(u, np, moves, replace, dstDir)), LAMBDA w, z :
                  IF replace THEN replaced(w) ELSE Ok(w, 0))))))

\* Mutant: the new name first, its count after.
ext2_link_CountLast(s0, from, to) ==
  Then(resolve_path(s0, from), LAMBDA s1, ino :
    IF is_dir(s1.inode[ino]) THEN Fail(s1, "EISDIR")
    ELSE IF s1.inode[ino].links >= EXT2_LINK_MAX THEN Fail(s1, "EMLINK")
    ELSE Then(ResolveNew(s1, to), LAMBDA s, dir :
           Then(dir_add_entry(Load(s, "ino", ino), dir, "parent", Last(to), ino), LAMBDA t, x :
                write_inode([t EXCEPT !.m["ino"].links = @ + 1], ino, "ino"))))

ext2_link(s0, from, to) ==
  Then(resolve_path(s0, from), LAMBDA s1, ino :
    IF is_dir(s1.inode[ino]) THEN Fail(s1, "EISDIR")
    ELSE IF s1.inode[ino].links >= EXT2_LINK_MAX THEN Fail(s1, "EMLINK")
    ELSE Then(ResolveNew(s1, to), LAMBDA s, dir :
      LET more == [Load(s, "ino", ino) EXCEPT !.m["ino"].links = @ + 1]
          less(t) == [t EXCEPT !.m["ino"].links = @ - 1]
      IN  Undo(Then(write_inode(more, ino, "ino"), LAMBDA t, x :
                    dir_add_entry(t, dir, "parent", Last(to), ino)),
               LAMBDA t : write_inode(less(t), ino, "ino"))))

\* A target of more than 60 bytes takes a block.
ext2_symlink(s0, path, long) ==
  Then(ResolveNew(s0, path), LAMBDA s, dir :
    LET body(t) == IF ~long THEN Ok(t, 0)
                   ELSE Then(inode_map_new_block(t, "ino", 0), LAMBDA u, b :
                             write_block(u, [u EXCEPT !.con[b] = Data(Part(<<1>>, 0))]))
    IN  Then(alloc_inode(s, FALSE), LAMBDA t, new :
          Undo(Then(body([t EXCEPT !.m["ino"] = [NewInode("link", 1) EXCEPT !.size = 1]]), LAMBDA u, x :
               Then(write_inode(u, new, "ino"), LAMBDA w, y :
                    dir_add_entry(w, dir, "parent", Last(path), new))),
               LAMBDA u : inode_destroy(u, new, "ino"))))

-----------------------------------------------------------------------------
CONSTANTS
  Disks,     \* file systems to start from: meta, the blocks of the superblock,
             \* the bitmaps and the inode table; reserved, the inodes below
             \* first_ino; errors, the device errors to come
  Path,      \* paths of the calls, without "." and ".." as last names
  Probe,     \* paths that are only looked up
  Pair,      \* pairs of paths for rename and link
  Size       \* sizes, offsets and lengths, in units

\* The root directory of a fresh file system.
Fresh(disk) ==
  LET b == CHOOSE x \in Blk \ disk.meta : \A y \in Blk \ disk.meta : x <= y
  IN  Idle([
    inode |-> [i \in Ino |-> IF i # Root THEN NewInode("none", 0)
                ELSE [NewInode("dir", 2) EXCEPT !.size = BS, !.map[0] = b, !.nblk = 1]],
    con |-> [x \in Blk |-> IF x = b THEN <<"dir", [NoEntries EXCEPT !["."] = Root, ![".."] = Root]>>
                           ELSE Data(Part(<<>>, 0))],
    meta |-> disk.meta, reserved |-> disk.reserved,
    ibits |-> disk.reserved \cup {Root}, ifree |-> MaxIno - Root - Cardinality(disk.reserved),
    bbits |-> disk.meta \cup {b}, bfree |-> MaxBlk - Cardinality(disk.meta) - 1, dirs |-> 1,
    dc |-> <<>>, io |-> disk.errors, clean |-> TRUE, torn |-> FALSE, text |-> [i \in Ino |-> <<>>],
    m |-> <<>>, buf |-> <<>>, freed |-> 0, pos |-> 0])

Does(O) == \E o \in O : fs' = Idle(o[2])

\* ext2_stat(), ext2_list_dir(), ext2_read_file_at() and ext2_readlink()
\* change the cache of names only.
LookUp(paths) == \E p \in paths : Does(resolve_path(fs, p))
WriteFile(paths, sizes) ==
  \E p \in paths, n \in sizes : Does(ext2_write_file(fs, p, [i \in 1 .. n |-> 1]))
WriteAt(paths, sizes) ==
  \E p \in paths, off \in sizes, n \in sizes \ {0} :
    off + n <= BS * MaxLb /\ Does(ext2_write_at(fs, p, off, n))
Truncate(paths, sizes) == \E p \in paths, n \in sizes : Does(ext2_truncate(fs, p, n))
MkDir(paths) == \E p \in paths : Does(ext2_mkdir(fs, p))
RmDir(paths) == \E p \in paths : Does(ext2_rmdir(fs, p))
Unlink(paths) == \E p \in paths : Does(ext2_unlink(fs, p))
Symlink(paths) == \E p \in paths, long \in BOOLEAN : Does(ext2_symlink(fs, p, long))
Move(pairs) == \E r \in pairs : Does(ext2_rename(fs, r[1], r[2]))
Link(pairs) == \E r \in pairs : Does(ext2_link(fs, r[1], r[2]))

Init == \E disk \in Disks : fs = Fresh(disk)

-----------------------------------------------------------------------------
(* The tree of directories. *)

\* The entries other than "." and "..", as <<directory, name, inode>>.
Names ==
  {<<d, x, dir_lookup(fs, fs.inode[d], x)>> : d \in {i \in Ino : is_dir(fs.inode[i])}, x \in Name}
    \cap (Ino \X Name \X Ino)

\* The inodes that can be reached through entries E from those of S.
RECURSIVE Reached(_, _)
Reached(E, S) ==
  LET T == S \cup {e[3] : e \in {f \in E : f[1] \in S}}
  IN  IF T = S THEN S ELSE Reached(E, T)

\* A property of the inodes that have a name, of the directories among them
\* and of their entries.
OfTree(P(_, _, _)) ==
  \E all \in {Names} : \E live \in {Reached(all, {Root})} :
    P(live, {d \in live : is_dir(fs.inode[d])}, {e \in all : e[1] \in live})

NameCount(E, i) == Cardinality({e \in E : e[3] = i})
DotDot(d) == dir_lookup(fs, fs.inode[d], "..")
Blocks(i) == Owned(fs, fs.inode[i])
OwnedApart(live) ==
  LET own == [i \in live |-> Blocks(i)]
  IN  \A i \in live : /\ own[i] \cap fs.meta = {}
                      /\ \A j \in live : i # j => own[i] \cap own[j] = {}

\* "An I/O error in the middle of an operation can leak blocks or inodes but
\* never leaves a directory entry pointing at an unallocated or uninitialised
\* inode" (ext2.c:17): every name means an allocated inode that has been
\* initialised, and every ".." a directory.
EntriesLead ==
  OfTree(LAMBDA live, dirs, E :
    /\ \A i \in live : i \in fs.ibits /\ fs.inode[i].mode # "none" /\ fs.inode[i].links > 0
    /\ \A d \in dirs : DotDot(d) \in dirs)

BlocksApart == OfTree(LAMBDA live, dirs, E : OwnedApart(live))
NamesCounted ==
  OfTree(LAMBDA live, dirs, E : \A i \in live \ dirs : fs.inode[i].links >= NameCount(E, i))

-----------------------------------------------------------------------------
\* A disk that an error has damaged, so that an entry leads nowhere or two
\* files share a block, promises nothing any more.
Undamaged == ~fs.clean => EntriesLead /\ BlocksApart

Next ==
  /\ Undamaged
  /\ \/ LookUp(Path \cup Probe) \/ WriteFile(Path, Size) \/ WriteAt(Path, Size)
     \/ Truncate(Path, Size) \/ MkDir(Path) \/ RmDir(Path) \/ Unlink(Path) \/ Symlink(Path)
     \/ Move(Pair) \/ Link(Pair)

Spec == Init /\ [][Next]_fs

-----------------------------------------------------------------------------
(* Properties. *)

\* The counts stay in range.
TypeOK ==
  /\ fs.ibits \subseteq Ino /\ fs.bbits \subseteq Blk
  /\ fs.ifree \in 0 .. MaxIno /\ fs.bfree \in 0 .. MaxBlk
  /\ Len(fs.dc) <= DCACHE_CAPACITY
  /\ fs.clean => ~fs.torn

\* What a checker of the file system would look at: without device errors,
\* whatever calls were made and whichever of them ran out of space half-way,
\* the bitmaps hold exactly the inodes that have a name and the blocks they
\* own, each owned once, the free counts and i_blocks agree with them, a link
\* count is the number of names, and the directories are a tree in which
\* ".." leads back.
TreeConsistent ==
  /\ TypeOK
  /\ fs.clean => OfTree(LAMBDA live, dirs, E :
      /\ fs.ibits = fs.reserved \cup live
      /\ fs.bbits = fs.meta \cup UNION {Blocks(i) : i \in live}
      /\ OwnedApart(live)
      /\ fs.ifree = MaxIno - 1 - Cardinality(fs.ibits)
      /\ fs.bfree = MaxBlk - Cardinality(fs.bbits)
      /\ fs.dirs = Cardinality(dirs)
      /\ \A i \in live : fs.inode[i].nblk = Cardinality(Blocks(i))
      /\ \A i \in live \ dirs : fs.inode[i].links = NameCount(E, i)
      /\ \A d \in dirs :
           /\ dir_lookup(fs, fs.inode[d], ".") = d
           /\ fs.inode[d].links = 2 + Cardinality({e \in E : e[1] = d /\ e[3] \in dirs})
           /\ IF d = Root THEN DotDot(d) = Root
              ELSE {e[1] : e \in {f \in E : f[3] = d}} = {DotDot(d)} /\ NameCount(E, d) = 1)

\* A call that meets the first device error "can leak blocks or inodes but
\* never" worse: every entry still leads to an inode and no two named inodes
\* have a block in common, and a file has at least as many links as names,
\* but for a rename between its two entries (ext2.c:1706).  It holds for any
\* write that fails unless that write stored a directory entry; see
\* EntriesLead for that one.
FirstErrorLeaks ==
  [][fs.clean /\ ~fs'.clean /\ ~fs'.torn =>
       EntriesLead' /\ BlocksApart' /\ (NamesCounted' \/ Move(Pair))]_fs

\* The cache of names never contradicts the directories: not after a name was
\* given, taken away or moved, an inode number used again, or a write failed.
CacheCoherent ==
  \A k \in DOMAIN fs.dc :
    fs.dc[k].child = dir_lookup(fs, fs.inode[fs.dc[k].parent], fs.dc[k].name)

\* A file reads as what was written to it: holes and the range a file grows
\* by read as zeroes whatever its blocks held before, and a write that ran
\* out of space has changed the part it reports.
FilesReadBack ==
  fs.clean => \A i \in fs.ibits : is_file(fs.inode[i]) => ReadFile(fs, fs.inode[i]) = fs.text[i]
=============================================================================
