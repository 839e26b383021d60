------------------------------- MODULE Mkfs --------------------------------
(***************************************************************************)
(* mkfs.c: the image the system boots from.  Source files are sequences of *)
(* words, a directory entry is one word, the number of its inode.  Blocks  *)
(* are numbered from the first one after the metadata (block nmeta - 1 is  *)
(* 0 here), so freeblock starts at 1 and None is no block.                 *)
(***************************************************************************)
EXTENDS Integers, Sequences, SequencesExt

CONSTANTS NInodes,
          NBlocks,   \* data blocks are 1..NBlocks
          BSIZE,     \* words in a block
          NDIRECT,
          Sources    \* the lists of files an image may be built from

None    == 0
ROOTINO == 1
Inodes  == 1..NInodes
Blocks  == 1..NBlocks
NINDIRECT == BSIZE
MAXFILE   == NDIRECT + NINDIRECT
Zero      == [j \in 0..BSIZE - 1 |-> 0]
NoBlocks  == [j \in 0..NDIRECT |-> None]

\* The directory's entries do not fill its blocks exactly.  When they do, the size
\* main() fixes counts a block that is not there (mkfs.c:161).
ASSUME ImageAssumption ==
  /\ NInodes \in Nat \ {0} /\ NBlocks \in Nat \ {0} /\ BSIZE \in Nat \ {0} /\ NDIRECT \in Nat
  /\ \A s \in Sources : Len(s) < NInodes /\ (Len(s) + 2) % BSIZE # 0

\* wsect() of zeroes everywhere.
Blank == [inode |-> [i \in Inodes |-> [size |-> 0, addrs |-> NoBlocks]],
          block |-> [b \in Blocks |-> Zero],
          freeinode |-> ROOTINO, freeblock |-> 1]

mkfs_ialloc(m) ==
  [m EXCEPT !.inode[m.freeinode] = [size |-> 0, addrs |-> NoBlocks], !.freeinode = @ + 1]

\* The next free block becomes address j of inode i, or entry j of block a.
Attach(m, i, j) ==
  IF m.inode[i].addrs[j] # None THEN m
  ELSE [m EXCEPT !.inode[i].addrs[j] = m.freeblock, !.freeblock = @ + 1]
AttachEntry(m, a, j) ==
  IF m.block[a][j] # None THEN m
  ELSE [m EXCEPT !.block[a][j] = m.freeblock, !.freeblock = @ + 1]

\* One word at the end of inode i.
AppendWord(i, m, w) ==
  LET off == m.inode[i].size
      fbn == off \div BSIZE
      e   == Attach(m, i, IF fbn < NDIRECT THEN fbn ELSE NDIRECT)
      a   == e.inode[i].addrs[NDIRECT]
      f   == IF fbn < NDIRECT THEN e ELSE AttachEntry(e, a, fbn - NDIRECT)
      x   == IF fbn < NDIRECT THEN f.inode[i].addrs[fbn] ELSE f.block[a][fbn - NDIRECT]
  IN  [f EXCEPT !.block[x][off % BSIZE] = w, !.inode[i].size = off + 1]

iappend(m, i, ws) == FoldLeft(LAMBDA n, w : AppendWord(i, n, w), m, ws)

\* A file of main()'s loop: its inode, its entry in the root directory, its words.
AddFile(m, words) ==
  LET n == iappend(mkfs_ialloc(m), ROOTINO, <<m.freeinode>>)
  IN  iappend(n, m.freeinode, words)

\* main(): "." and "..", the files, the size of the root directory.
mkfs(files) ==
  LET root == iappend(mkfs_ialloc(Blank), ROOTINO, <<ROOTINO, ROOTINO>>)
      m    == FoldLeft(AddFile, root, files)
  IN  [m EXCEPT !.inode[ROOTINO].size = ((@ \div BSIZE) + 1) * BSIZE]

\* The bitmap balloc() writes.
mkfs_balloc(used) == 1..(used - 1)
=============================================================================
