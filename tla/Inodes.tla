------------------------------- MODULE Inodes -------------------------------
(***************************************************************************)
(* The layers of fs.c below path names: the block bitmap, the inodes on    *)
(* disk and the table of inodes in memory, as functions of the state of    *)
(* the file system, a record F with the fields                             *)
(*   used    the blocks the bitmap marks                                   *)
(*   data    the units of every block                                      *)
(*   dinode  the inodes on disk                                            *)
(*   inode   the inode table; an entry has its reference count, whether it *)
(*           is valid, the holder of its sleep-lock and a copy of the disk *)
(*           inode                                                         *)
(*   panic   the kernel has panicked                                       *)
(* Sizes and offsets are counted in units, the size of a directory entry;  *)
(* a unit of an indirect block is an address.  What is in a file is not    *)
(* told apart.                                                             *)
(***************************************************************************)
EXTENDS Integers, Sequences, SequencesExt, FiniteSets, FiniteSetsExt

CONSTANTS
  NULL,
  FSSIZE,                \* blocks of the disk
  NINODES,               \* inodes of the disk, 1 .. NINODES - 1
  NINODE,                \* entries of the inode table
  NDIRECT, NINDIRECT,
  BSIZE                  \* units of a block

Inums == 1 .. NINODES - 1
Slots == 1 .. NINODE
ROOTINO == 1
MAXFILE == NDIRECT + NINDIRECT

ASSUME InodesConstantsOK ==
  /\ FSSIZE \in Nat /\ NINODES \in Nat /\ NINODE \in Nat /\ BSIZE \in Nat \ {0}
  /\ NDIRECT \in Nat /\ NINDIRECT \in 0 .. BSIZE /\ NINODES > 1

Zero == [num |-> 0, name |-> ""]
ZeroBlock == [k \in 0 .. BSIZE - 1 |-> Zero]
NoAddrs == [k \in 0 .. NDIRECT |-> 0]
NoInode == [type |-> "none", nlink |-> 0, size |-> 0, addrs |-> NoAddrs]

-----------------------------------------------------------------------------
\* Blocks.  A function that also returns a value returns a record.

alloc(F, b) == [fs |-> [F EXCEPT !.used = @ \cup {b}, !.data[b] = ZeroBlock], addr |-> b]
balloc(F) ==
  LET free == 0 .. FSSIZE - 1 \ F.used
  IN IF free = {} THEN [fs |-> F, addr |-> 0] ELSE alloc(F, Min(free))

bfree(F, blocks) ==
  [F EXCEPT !.used = @ \ blocks, !.panic = @ \/ ~(blocks \subseteq F.used)]

\* The blocks that an inode holds.
Indirect(F, addrs) ==
  IF addrs[NDIRECT] = 0 THEN {}
  ELSE {F.data[addrs[NDIRECT]][k].num : k \in 0 .. NINDIRECT - 1} \ {0}
BlocksOf(F, addrs) == ({addrs[k] : k \in 0 .. NDIRECT} \ {0}) \cup Indirect(F, addrs)

\* The block at addrs[k], allocated if there is none: `a' is what balloc() returns.
setaddr(a, s, k) == [a EXCEPT !.fs = [@ EXCEPT !.inode[s].addrs[k] = a.addr]]
direct(F, s, k) ==
  IF F.inode[s].addrs[k] # 0 THEN [fs |-> F, addr |-> F.inode[s].addrs[k]]
  ELSE setaddr(balloc(F), s, k)

\* The same for the address at k of the indirect block b; i is the indirect block.
setentry(a, b, k) ==
  IF a.addr = 0 THEN a
  ELSE [a EXCEPT !.fs = [@ EXCEPT !.data[b] = [@ EXCEPT ![k] = [@ EXCEPT !.num = a.addr]]]]
indirect(i, k) ==
  IF i.addr = 0 THEN i
  ELSE IF i.fs.data[i.addr][k].num # 0 THEN [i EXCEPT !.addr = i.fs.data[i.addr][k].num]
  ELSE setentry(balloc(i.fs), i.addr, k)

bmap(F, s, bn) ==
  CASE bn < NDIRECT -> direct(F, s, bn)
    [] bn >= MAXFILE -> [fs |-> [F EXCEPT !.panic = TRUE], addr |-> 0]
    [] OTHER -> indirect(direct(F, s, NDIRECT), bn - NDIRECT)

-----------------------------------------------------------------------------
\* Inodes.

dinodeOf(ip) == [type |-> ip.type, nlink |-> ip.nlink, size |-> ip.size, addrs |-> ip.addrs]

iupdate(F, s) == [F EXCEPT !.dinode[F.inode[s].inum] = dinodeOf(F.inode[s])]

\* Mutant of itrunc: the indirect block itself is not freed.
itrunc_keeps_indirect(F, s) ==
  iupdate([bfree(F, BlocksOf(F, F.inode[s].addrs) \ {F.inode[s].addrs[NDIRECT]})
             EXCEPT !.inode[s].addrs = NoAddrs, !.inode[s].size = 0], s)

itrunc(F, s) ==
  iupdate([bfree(F, BlocksOf(F, F.inode[s].addrs))
             EXCEPT !.inode[s].addrs = NoAddrs, !.inode[s].size = 0], s)

iget(F, inum) ==
  LET here == {s \in Slots : F.inode[s].ref > 0 /\ F.inode[s].inum = inum}
      empty == {s \in Slots : F.inode[s].ref = 0}
      s == IF here # {} THEN Min(here) ELSE Min(empty)
  IN IF here = {} /\ empty = {} THEN [fs |-> [F EXCEPT !.panic = TRUE], slot |-> 0]
     ELSE IF here # {} THEN [fs |-> [F EXCEPT !.inode[s].ref = @ + 1], slot |-> s]
     ELSE [fs |-> [F EXCEPT !.inode[s].inum = inum, !.inode[s].ref = 1,
                            !.inode[s].valid = FALSE], slot |-> s]

idup(F, s) == [F EXCEPT !.inode[s].ref = @ + 1]

\* Mutant of ialloc: the inode is not marked as allocated.
ialloc_unmarked(F, type) ==
  LET free == {i \in Inums : F.dinode[i].type = "none"}
  IN IF free = {} THEN [fs |-> F, slot |-> 0] ELSE iget(F, Min(free))

ialloc(F, type) ==
  LET free == {i \in Inums : F.dinode[i].type = "none"}
      i == Min(free)
  IN IF free = {} THEN [fs |-> F, slot |-> 0]
     ELSE iget([F EXCEPT !.dinode[i] = [NoInode EXCEPT !.type = type]], i)

\* ilock() by a process that finds the sleep-lock free.
ilock(F, s, p) ==
  LET i == F.inode[s].inum
      d == F.dinode[i]
  IN IF F.inode[s].valid THEN [F EXCEPT !.inode[s].lock = p]
     ELSE [F EXCEPT !.inode[s] = [inum |-> i, ref |-> @.ref, valid |-> TRUE, lock |-> p,
                                  type |-> d.type, nlink |-> d.nlink, size |-> d.size,
                                  addrs |-> d.addrs],
                    !.panic = @ \/ d.type = "none"]

iunlock(F, s) == [F EXCEPT !.inode[s].lock = NULL]

\* What iput() does to the inode that it frees.
ifree(F, s) ==
  LET T == itrunc(F, s)
  IN [iupdate([T EXCEPT !.inode[s].type = "none"], s)
        EXCEPT !.inode[s].valid = FALSE, !.inode[s].lock = NULL]

-----------------------------------------------------------------------------
\* Content.

\* The units are written one by one until the disk is full or either_copyin()
\* fails after `copied' of them; m is the block that bmap() returns.
fillunit(acc, m, k, copied, u) ==
  IF m.addr = 0 \/ acc.n = copied THEN [acc EXCEPT !.stop = TRUE, !.fs = m.fs]
  ELSE [acc EXCEPT !.fs = [m.fs EXCEPT !.data[m.addr] = [@ EXCEPT ![k] = u]], !.n = @ + 1]
fill(F, s, off, units, copied) ==
  FoldLeft(LAMBDA acc, u :
             IF acc.stop THEN acc
             ELSE fillunit(acc, bmap(acc.fs, s, (off + acc.n) \div BSIZE),
                           (off + acc.n) % BSIZE, copied, u),
           [fs |-> F, n |-> 0, stop |-> FALSE], units)

\* Mutant of filled: the inode is written back only when its size has changed.
filled_unwritten(end, s, off) ==
  [fs |-> IF off + end.n <= end.fs.inode[s].size THEN end.fs
          ELSE iupdate([end.fs EXCEPT !.inode[s].size = off + end.n], s),
   n |-> end.n]

\* writei() when its loop has ended.
filled(end, s, off) ==
  [fs |-> iupdate([end.fs EXCEPT !.inode[s].size = Max({@, off + end.n})], s), n |-> end.n]

writei(F, s, off, units, copied) ==
  IF off > F.inode[s].size \/ off + Len(units) > MAXFILE * BSIZE THEN [fs |-> F, n |-> -1]
  ELSE filled(fill(F, s, off, units, copied), s, off)

\* The address of block bn, 0 if it has none; readi() of one unit.  No block
\* below the size of an inode is missing, so that bmap() never allocates here.
addrOf(F, addrs, bn) ==
  IF bn < NDIRECT THEN addrs[bn]
  ELSE IF addrs[NDIRECT] = 0 THEN 0 ELSE F.data[addrs[NDIRECT]][bn - NDIRECT].num
readi(F, addrs, off) == F.data[addrOf(F, addrs, off \div BSIZE)][off % BSIZE]
unit(F, s, off) == readi(F, F.inode[s].addrs, off)

\* The offset of the entry with the name, or -1.
dirlookup(F, s, name) ==
  LET at == {off \in 0 .. F.inode[s].size - 1 :
               unit(F, s, off).num # 0 /\ unit(F, s, off).name = name}
  IN IF at = {} THEN -1 ELSE Min(at)

linked(w) == [fs |-> w.fs, ok |-> w.n = 1]
dirlink(F, s, name, inum) ==
  LET free == {off \in 0 .. F.inode[s].size - 1 : unit(F, s, off).num = 0}
  IN IF dirlookup(F, s, name) # -1 THEN [fs |-> F, ok |-> FALSE]
     ELSE linked(writei(F, s, Min(free \cup {F.inode[s].size}),
                        <<[num |-> inum, name |-> name]>>, 1))

isdirempty(F, s) == \A off \in 2 .. F.inode[s].size - 1 : unit(F, s, off).num = 0
=============================================================================
