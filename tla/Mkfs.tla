-------------------------------- MODULE Mkfs --------------------------------
(***************************************************************************)
(* The file system image that mkfs.c builds: a root directory and files.   *)
(* M is the state of mkfs: the next free inode and block, the inodes and   *)
(* the content of the blocks.                                              *)
(***************************************************************************)
EXTENDS Inodes

CONSTANT nmeta       \* blocks before the data blocks: boot, super, log, inodes, bitmap

ASSUME MkfsConstantsOK == nmeta \in 1 .. FSSIZE

mk_ialloc(M, type) ==
  [M EXCEPT !.dinode[M.freeinode] = [NoInode EXCEPT !.type = type, !.nlink = 1],
            !.freeinode = @ + 1]

\* The address of block fbn of an inode is in addrs, or in the indirect block.
mk_direct(M, inum, k) ==
  IF M.dinode[inum].addrs[k] # 0 THEN M
  ELSE [M EXCEPT !.dinode[inum].addrs[k] = M.freeblock, !.freeblock = @ + 1]

mk_indirect(M, inum, k) ==
  LET N == mk_direct(M, inum, NDIRECT)
      b == N.dinode[inum].addrs[NDIRECT]
  IN IF N.data[b][k].num # 0 THEN N
     ELSE [N EXCEPT !.data[b] = [@ EXCEPT ![k] = [@ EXCEPT !.num = N.freeblock]], !.freeblock = @ + 1]

\* iappend() of one unit.
iappend(M, inum, u) ==
  LET off == M.dinode[inum].size
      fbn == off \div BSIZE
      N == IF fbn < NDIRECT THEN mk_direct(M, inum, fbn) ELSE mk_indirect(M, inum, fbn - NDIRECT)
      addrs == N.dinode[inum].addrs
      x == IF fbn < NDIRECT THEN addrs[fbn] ELSE N.data[addrs[NDIRECT]][fbn - NDIRECT].num
  IN [N EXCEPT !.data[x] = [@ EXCEPT ![off % BSIZE] = u], !.dinode[inum].size = @ + 1]

\* One file of the command line: its entry in the root directory, its content.
addfile(M, f) ==
  LET inum == M.freeinode
      N == iappend(mk_ialloc(M, "file"), ROOTINO, [num |-> inum, name |-> f.name])
  IN FoldLeft(LAMBDA acc, k : iappend(acc, inum, Zero), N, [k \in 1 .. f.size |-> k])

\* The size of the root directory is rounded up to whole blocks.
fixroot(M) == [M EXCEPT !.dinode[ROOTINO].size = ((@ \div BSIZE) + 1) * BSIZE]

\* The image with these files: the first freeblock blocks are in use.
mkfs(files) ==
  LET M0 == [freeinode |-> 1, freeblock |-> nmeta,
             dinode |-> [i \in Inums |-> NoInode],
             data |-> [b \in 0 .. FSSIZE - 1 |-> ZeroBlock]]
      M1 == iappend(mk_ialloc(M0, "dir"), ROOTINO, [num |-> ROOTINO, name |-> "."])
      M2 == iappend(M1, ROOTINO, [num |-> ROOTINO, name |-> ".."])
      M3 == fixroot(FoldLeft(addfile, M2, files))
  IN [used |-> 0 .. M3.freeblock - 1, data |-> M3.data, dinode |-> M3.dinode]
=============================================================================
