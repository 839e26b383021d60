----------------------------- MODULE FileData ------------------------------
(***************************************************************************)
(* The contents of files: balloc(), bfree(), bmap(), itrunc(), readi() and *)
(* writei() of fs.c under fileread() and filewrite() of file.c, made by    *)
(* processes that share files (and so offsets) and inodes.                 *)
(*                                                                         *)
(* A block holds BSIZE words: data, or the block numbers of an indirect    *)
(* block, so NINDIRECT is BSIZE.  An inode's sleep lock is held over       *)
(* several actions, one for each block; the bitmap's buffer is locked      *)
(* within one.  Which names a file has is Inode's matter: a file no        *)
(* process has open may be removed and used again, and the root directory  *)
(* can only be read.  The disk is the one mkfs made (Mkfs).                *)
(***************************************************************************)
EXTENDS Mkfs, FiniteSets

CONSTANTS Procs, Files,
          MaxChunk,  \* filewrite()'s max, in words
          Counts,    \* sizes of reads and writes
          Value,     \* the word each process writes
          MaxCalls   \* how many calls are made in all

ASSUME DataAssumption == /\ MaxChunk \in Nat \ {0} /\ Counts \subseteq Nat \ {0}
                         /\ Value \in [Procs -> Nat] /\ MaxCalls \in Nat
                         /\ None \notin Procs

VARIABLES bitmap,  \* the blocks marked in use
          block,   \* the blocks' words
          inode,   \* size and addrs of every inode in memory
          dinode,  \* the same on disk
          lock,    \* who holds ip->lock
          file,    \* per file: the inode it is open on, or None, and the offset
          th,      \* per process: where it is in a call, and the call's variables
          expect,  \* what the calls made so far should have left in each inode
          made     \* calls made so far, up to MaxCalls

vars == <<bitmap, block, inode, dinode, lock, file, th, expect, made>>

Idle == [pc |-> "idle", f |-> None, ip |-> None, left |-> 0, n |-> 0, tot |-> 0, buf |-> <<>>]

\* What an image built from files should hold: the root directory's entries, and
\* the zeroes up to the size that main() gave it, then the files.
Promised(files) ==
  [i \in Inodes |->
     IF i = ROOTINO
     THEN [k \in 1..((((Len(files) + 2) \div BSIZE) + 1) * BSIZE) |->
             IF k <= 2 THEN ROOTINO ELSE IF k <= Len(files) + 2 THEN k - 1 ELSE 0]
     ELSE IF i - 1 \in DOMAIN files THEN files[i - 1] ELSE <<>>]

Init ==
  /\ \E files \in Sources :
       LET m == mkfs(files)
       IN  /\ inode = m.inode /\ block = m.block
           /\ bitmap = mkfs_balloc(m.freeblock)
           /\ expect = Promised(files)
  /\ dinode = inode
  /\ lock = [i \in Inodes |-> None]
  /\ file = [f \in Files |-> [ip |-> None, off |-> 0]]
  /\ th = [p \in Procs |-> Idle]
  /\ made = 0

-----------------------------------------------------------------------------
(* Blocks.  d is the disk: [bitmap, block, addrs], addrs those of one inode.*)

Disk(i) == [bitmap |-> bitmap, block |-> block, addrs |-> inode[i].addrs]

Unused(d) == Blocks \ d.bitmap

balloc_NotZeroed(d) == [d EXCEPT !.bitmap = @ \cup {Min(Unused(d))}]

\* The first free block is marked and zeroed.
balloc(d) == [d EXCEPT !.bitmap = @ \cup {Min(Unused(d))}, !.block[Min(Unused(d))] = Zero]

\* bmap()'s allocations, for block bn of the inode: direct, then the indirect
\* block and its entry.
Direct(d, bn) ==
  IF d.addrs[bn] # None THEN d
  ELSE [balloc(d) EXCEPT !.addrs[bn] = Min(Unused(d))]

Indirect(d, bn) ==
  LET e == Direct(d, NDIRECT)
      a == e.addrs[NDIRECT]
  IN  IF e.block[a][bn] # None THEN e
      ELSE [balloc(e) EXCEPT !.block[a][bn] = Min(Unused(e))]

bmap(d, bn) == IF bn < NDIRECT THEN Direct(d, bn) ELSE Indirect(d, bn - NDIRECT)

\* The block number bmap() returns, once everything is allocated.
AddrOf(d, bn) == IF bn < NDIRECT THEN d.addrs[bn]
                 ELSE d.block[d.addrs[NDIRECT]][bn - NDIRECT]

\* How many blocks bmap() has to find; with fewer free ones balloc() panics.
Missing(d, bn) ==
  IF bn < NDIRECT THEN (IF d.addrs[bn] = None THEN 1 ELSE 0)
  ELSE IF d.addrs[NDIRECT] = None THEN 2
  ELSE IF d.block[d.addrs[NDIRECT]][bn - NDIRECT] = None THEN 1 ELSE 0

bmap_panics(d, bn) == bn >= MAXFILE \/ Missing(d, bn) > Cardinality(Unused(d))

-----------------------------------------------------------------------------
(* Calls.                                                                  *)

Goto(p, l) == th' = [th EXCEPT ![p].pc = l]
Made == made < MaxCalls /\ made' = made + 1

open(p, f, i) ==
  /\ th[p].pc = "idle" /\ file[f].ip = None /\ Made
  /\ \A q \in Procs : th[q].pc = "itrunc" => th[q].ip # i
  /\ file' = [file EXCEPT ![f] = [ip |-> i, off |-> 0]]
  /\ UNCHANGED <<bitmap, block, inode, dinode, lock, th, expect>>

\* The last close(); no process is in a call on f.
close(p, f) ==
  /\ th[p].pc = "idle" /\ file[f].ip # None /\ Made
  /\ \A q \in Procs : th[q].f # f
  /\ file' = [file EXCEPT ![f] = [ip |-> None, off |-> 0]]
  /\ UNCHANGED <<bitmap, block, inode, dinode, lock, th, expect>>

\* read() or write() of n words; a directory is open for reading only.
Call(p, f, n, l) ==
  /\ th[p].pc = "idle" /\ file[f].ip # None /\ Made
  /\ l = "filewrite" => file[f].ip # ROOTINO
  /\ th' = [th EXCEPT ![p] = [Idle EXCEPT !.pc = l, !.f = f, !.ip = file[f].ip, !.left = n]]
  /\ UNCHANGED <<bitmap, block, inode, dinode, lock, file, expect>>

-----------------------------------------------------------------------------
(* filewrite(): a few blocks at a time.                                    *)

ilock(p, i)   == lock[i] = None /\ lock' = [lock EXCEPT ![i] = p]

TooLong(off, n) == off + n > MAXFILE * BSIZE

\* ilock() and writei()'s tests for the next piece; a failure ends the call.
filewrite(p) ==
  LET t   == th[p]
      off == file[t.f].off
      n1  == Min({t.left, MaxChunk})
  IN  /\ t.pc = "filewrite"
      /\ lock[t.ip] = None
      /\ IF off > inode[t.ip].size \/ TooLong(off, n1)
         THEN th' = [th EXCEPT ![p] = Idle] /\ UNCHANGED lock
         ELSE /\ ilock(p, t.ip)
              /\ th' = [th EXCEPT ![p].pc = "writei", ![p].n = n1, ![p].tot = 0]
      /\ UNCHANGED <<bitmap, block, inode, dinode, file, expect, made>>

\* One turn of the loop of readi() or writei(): the words of one block.
Span(off, rest) == Min({rest, BSIZE - (off % BSIZE)})

writei(p) ==
  LET t   == th[p]
      off == file[t.f].off + t.tot
      m   == Span(off, t.n - t.tot)
      d   == bmap(Disk(t.ip), off \div BSIZE)
      b   == AddrOf(d, off \div BSIZE)
  IN  /\ t.pc = "writei" /\ t.tot < t.n
      /\ IF bmap_panics(Disk(t.ip), off \div BSIZE)
         THEN Goto(p, "panic") /\ UNCHANGED <<bitmap, block, inode>>
         ELSE /\ bitmap' = d.bitmap
              /\ block' = [d.block EXCEPT ![b] =
                             [j \in 0..BSIZE - 1 |->
                                IF j \in (off % BSIZE)..((off % BSIZE) + m - 1) THEN Value[p] ELSE @[j]]]
              /\ inode' = [inode EXCEPT ![t.ip].addrs = d.addrs]
              /\ th' = [th EXCEPT ![p].tot = t.tot + m]
      /\ UNCHANGED <<dinode, lock, file, expect, made>>

\* The inode after writei() has written up to end, and iupdate() if it grew.
Grown_Shrinks(i, end) == [inode[i] EXCEPT !.size = end]
Grown(i, end) == [inode[i] EXCEPT !.size = IF end > @ THEN end ELSE @]

iupdate_SizeOnly(i, end) == [dinode[i] EXCEPT !.size = Grown(i, end).size]
iupdate(i, end) == IF end > inode[i].size THEN Grown(i, end) ELSE dinode[i]

\* Words w at offset off of the sequence s.
Overwrite(s, off, w) == SubSeq(s, 1, off) \o w \o SubSeq(s, off + Len(w) + 1, Len(s))

writei_end(p) ==
  LET t   == th[p]
      off == file[t.f].off
      w   == [j \in 1..t.n |-> Value[p]]
  IN  /\ t.pc = "writei" /\ t.tot = t.n
      /\ inode' = [inode EXCEPT ![t.ip] = Grown(t.ip, off + t.n)]
      /\ dinode' = [dinode EXCEPT ![t.ip] = iupdate(t.ip, off + t.n)]
      /\ file' = [file EXCEPT ![t.f].off = off + t.n]
      /\ lock' = [lock EXCEPT ![t.ip] = None]
      /\ expect' = [expect EXCEPT ![t.ip] = Overwrite(@, off, w)]
      /\ th' = [th EXCEPT ![p] = IF t.left > t.n
                                  THEN [t EXCEPT !.pc = "filewrite", !.left = t.left - t.n,
                                                 !.n = 0, !.tot = 0]
                                  ELSE Idle]
      /\ UNCHANGED <<bitmap, block, made>>

-----------------------------------------------------------------------------
(* fileread().                                                             *)

fileread(p) ==
  LET t   == th[p]
      off == file[t.f].off
      size == inode[t.ip].size
  IN  /\ t.pc = "fileread"
      /\ lock[t.ip] = None
      /\ IF off > size
         THEN th' = [th EXCEPT ![p] = Idle] /\ UNCHANGED lock
         ELSE /\ ilock(p, t.ip)
              /\ th' = [th EXCEPT ![p].pc = "readi", ![p].n = Min({t.left, size - off})]
      /\ UNCHANGED <<bitmap, block, inode, dinode, file, expect, made>>

readi(p) ==
  LET t   == th[p]
      off == file[t.f].off + t.tot
      m   == Span(off, t.n - t.tot)
      d   == bmap(Disk(t.ip), off \div BSIZE)
      b   == AddrOf(d, off \div BSIZE)
  IN  /\ t.pc = "readi" /\ t.tot < t.n
      /\ IF bmap_panics(Disk(t.ip), off \div BSIZE)
         THEN Goto(p, "panic") /\ UNCHANGED <<bitmap, block, inode>>
         ELSE /\ bitmap' = d.bitmap /\ block' = d.block
              /\ inode' = [inode EXCEPT ![t.ip].addrs = d.addrs]
              /\ th' = [th EXCEPT ![p].tot = t.tot + m,
                                  ![p].buf = @ \o [j \in 1..m |-> d.block[b][(off % BSIZE) + j - 1]]]
      /\ UNCHANGED <<dinode, lock, file, expect, made>>

\* How far the offset moves: by what readi() returned.
Advance(t) == t.n

readi_end(p) ==
  LET t == th[p]
  IN  /\ t.pc = "readi" /\ t.tot = t.n
      /\ file' = [file EXCEPT ![t.f].off = @ + Advance(t)]
      /\ lock' = [lock EXCEPT ![t.ip] = None]
      /\ th' = [th EXCEPT ![p] = Idle]
      /\ UNCHANGED <<bitmap, block, inode, dinode, expect, made>>

-----------------------------------------------------------------------------
(* itrunc(), of a file that has no name left and that no process has open. *)

itrunc(p, i) ==
  /\ th[p].pc = "idle" /\ Made /\ i # ROOTINO
  /\ \A f \in Files : file[f].ip # i
  /\ \A q \in Procs : th[q].ip # i
  /\ ilock(p, i)
  /\ th' = [th EXCEPT ![p] = [Idle EXCEPT !.pc = "itrunc", !.ip = i]]
  /\ UNCHANGED <<bitmap, block, inode, dinode, file, expect>>

\* bfree() of the blocks bs; one that is free already is a panic.
bfree(p, bs) ==
  IF bs \subseteq bitmap THEN bitmap' = bitmap \ bs /\ UNCHANGED th
  ELSE Goto(p, "panic") /\ UNCHANGED bitmap

Listed(i) == {j \in 0..NDIRECT - 1 : inode[i].addrs[j] # None}

itrunc_direct(p) ==
  LET i == th[p].ip
      j == Min(Listed(i))
  IN  /\ th[p].pc = "itrunc" /\ Listed(i) # {}
      /\ bfree(p, {inode[i].addrs[j]})
      /\ inode' = [inode EXCEPT ![i].addrs[j] = None]
      /\ UNCHANGED <<block, dinode, lock, file, expect, made>>

Entries(a) == {block[a][j] : j \in 0..NINDIRECT - 1} \ {None}

itrunc_indirect(p) ==
  LET i == th[p].ip
      a == inode[i].addrs[NDIRECT]
  IN  /\ th[p].pc = "itrunc" /\ Listed(i) = {} /\ a # None
      /\ bfree(p, Entries(a) \cup {a})
      /\ inode' = [inode EXCEPT ![i].addrs[NDIRECT] = None]
      /\ UNCHANGED <<block, dinode, lock, file, expect, made>>

itrunc_end(p) ==
  LET i == th[p].ip
  IN  /\ th[p].pc = "itrunc" /\ inode[i].addrs = NoBlocks
      /\ inode' = [inode EXCEPT ![i].size = 0]
      /\ dinode' = [dinode EXCEPT ![i] = inode'[i]]
      /\ lock' = [lock EXCEPT ![i] = None]
      /\ expect' = [expect EXCEPT ![i] = <<>>]
      /\ th' = [th EXCEPT ![p] = Idle]
      /\ UNCHANGED <<bitmap, block, file, made>>

-----------------------------------------------------------------------------
Running == \A p \in Procs : th[p].pc # "panic"

Next ==
  /\ Running
  /\ \E p \in Procs :
       \/ \E f \in Files, i \in Inodes : open(p, f, i)
       \/ \E f \in Files : close(p, f)
       \/ \E f \in Files, n \in Counts : Call(p, f, n, "filewrite")
       \/ \E f \in Files, n \in Counts : Call(p, f, n, "fileread")
       \/ filewrite(p) \/ writei(p) \/ writei_end(p)
       \/ fileread(p) \/ readi(p) \/ readi_end(p)
       \/ \E i \in Inodes : itrunc(p, i)
       \/ itrunc_direct(p) \/ itrunc_indirect(p) \/ itrunc_end(p)

Spec == Init /\ [][Next]_vars

-----------------------------------------------------------------------------
(* Properties.                                                             *)

\* Every variable has its type.
TypeOK ==
  /\ bitmap \subseteq Blocks
  /\ block \in [Blocks -> [0..BSIZE - 1 -> Nat]]
  /\ inode \in [Inodes -> [size : 0..MAXFILE * BSIZE, addrs : [0..NDIRECT -> 0..NBlocks]]]
  /\ lock \in [Inodes -> Procs \cup {None}]
  /\ file \in [Files -> [ip : Inodes \cup {None}, off : 0..MAXFILE * BSIZE]]

\* The places an inode lists blocks at, and the blocks there.
Places(i) ==
  LET a == inode[i].addrs[NDIRECT]
  IN  {<<i, "addrs", j>> : j \in {j \in 0..NDIRECT : inode[i].addrs[j] # None}}
      \cup (IF a = None THEN {} ELSE {<<i, "a", j>> : j \in {j \in 0..NINDIRECT - 1 : block[a][j] # None}})
BlockAt(x) == IF x[2] = "addrs" THEN inode[x[1]].addrs[x[3]]
              ELSE block[inode[x[1]].addrs[NDIRECT]][x[3]]

\* A block is marked in use exactly when one inode lists it, at one place:
\* growing one file while another is truncated neither leaks a block nor gives
\* one to two files (fs.c:55-95, 372-435).  So a disk with room for files of the
\* largest size never runs out, and no block is freed twice: none of the panics
\* is reached (fs.c:77, 91, 399).
BlocksOwned ==
  LET places == UNION {Places(i) : i \in Inodes}
  IN  /\ TypeOK /\ Running
      /\ bitmap = {BlockAt(x) : x \in places}
      /\ Cardinality(bitmap) = Cardinality(places)

Contents(i) == [k \in 1..inode[i].size |->
                 block[AddrOf(Disk(i), (k - 1) \div BSIZE)][(k - 1) % BSIZE]]

\* What a read in progress has returned so far.
ReadSoFar(p) ==
  LET t   == th[p]
      off == file[t.f].off
  IN  /\ t.n = Min({t.left, Len(expect[t.ip]) - off})
      /\ t.buf = SubSeq(expect[t.ip], off + 1, off + t.tot)

\* A file nobody has locked holds just what the writes so far put there, piece
\* by piece at the shared offset: nothing of another file, of a removed one,
\* or of a failed piece; and a read returns that, as much as it asked for or as
\* there is (file.c:105-110, 135-152; fs.c:452-511).
FileAsWritten ==
  /\ \A i \in Inodes : lock[i] = None => Contents(i) = expect[i]
  /\ \A p \in Procs : th[p].pc = "readi" => ReadSoFar(p)

\* The inode on disk is the one in memory whenever it is unlocked.  writei()
\* calls iupdate() only if the file grew, so a block may be allocated only
\* then, although bmap() allocates for readers too (fs.c:372, 506).
InodeOnDisk == \A i \in Inodes : lock[i] = None => dinode[i] = inode[i]

=============================================================================
