------------------------------- MODULE Dcache -------------------------------
(***************************************************************************)
(* The directory entry cache (src/kernel/fs/dcache.c): what a name was     *)
(* found to mean in a directory, or that it means nothing there.           *)
(*                                                                         *)
(* A cache is the sequence of its entries, the most recently used first;   *)
(* the hash chains and the free list only find them faster.  One file      *)
(* system uses it, so the file system's number is left out.                *)
(***************************************************************************)
EXTENDS Integers, Sequences

CONSTANTS
  DCACHE_CAPACITY,
  LongName           \* names of more than DCACHE_NAME_MAX bytes, never cached

ASSUME DcacheAssumption == DCACHE_CAPACITY \in Nat \ {0}

\* The child of a negative entry.
Absent == 0

Entry(parent, name, child) == [parent |-> parent, name |-> name, child |-> child]

\* The place of the entry for a name, 0 for DCACHE_NIL.
find_entry(dc, parent, name) ==
  LET at == {i \in DOMAIN dc : dc[i].parent = parent /\ dc[i].name = name}
  IN  IF at = {} THEN 0 ELSE CHOOSE i \in at : TRUE

dcache_invalidate_entry(dc, parent, name) ==
  SelectSeq(dc, LAMBDA e : e.parent # parent \/ e.name # name)

\* Mutant: the names that mean the inode go, the names in it stay.
dcache_invalidate_inode_Child(dc, ino) == SelectSeq(dc, LAMBDA e : e.child # ino)

dcache_invalidate_inode(dc, ino) ==
  SelectSeq(dc, LAMBDA e : e.parent # ino /\ e.child # ino)

\* The entry found is the most recently used one.
Touch(dc, i) == <<dc[i]>> \o SubSeq(dc, 1, i - 1) \o SubSeq(dc, i + 1, Len(dc))

\* A known name gets its new meaning; a new one takes the place of the least
\* recently used entry when the pool is used up.
dcache_insert(dc, parent, name, child) ==
  LET others == dcache_invalidate_entry(dc, parent, name)
      kept   == IF Len(others) = DCACHE_CAPACITY
                  THEN SubSeq(others, 1, DCACHE_CAPACITY - 1) ELSE others
  IN  IF name \in LongName THEN dc ELSE <<Entry(parent, name, child)>> \o kept
=============================================================================
