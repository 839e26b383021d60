------------------------------- MODULE Bcache -------------------------------
(***************************************************************************)
(* The buffer cache (bio.c) with its buffers' sleep locks (sleeplock.c) and*)
(* the disk driver behind it (ide.c).                                      *)
(*                                                                         *)
(* Processes get a block's buffer, change it, write it at once (bwrite())  *)
(* or leave it pinned for the log (log_write()), and release it.  A section*)
(* of bcache.lock, of a sleep lock's lk or of idelock is one action, and   *)
(* sleep() belongs to the section it releases.  The disk works on one      *)
(* command at a time and interrupts when it is done.                       *)
(***************************************************************************)
EXTENDS Integers, Sequences, FiniteSets

CONSTANTS Procs, Blocks, Values,
          NBUF,
          MaxPinned,   \* how many buffers the log pins at most
          None         \* no process, no block

Bufs == 1..NBUF

ASSUME SizeAssumption == NBUF \in Nat \ {0} /\ MaxPinned \in Nat
ASSUME NoneAssumption == None \notin Procs \cup Blocks
ASSUME DataAssumption == Values # {}
\* Procs are the processes at work in the file system at one time: what the log
\* does not pin is a buffer for each of them.
ASSUME RoomAssumption == IsFiniteSet(Procs) /\ Cardinality(Procs) + MaxPinned <= NBUF

VARIABLES lru,                             \* bcache's list, head.next first
          blockno, valid, dirty, refcnt, data,  \* of struct buf
          holder,                          \* per buffer: who has its sleep lock
          idequeue,
          disk,                            \* contents of the blocks
          cmd,                             \* the disk's command, and whether it is done
          pc, want, buf                    \* per process: position, block, its buffer

bufVars  == <<lru, blockno, valid, dirty, refcnt, data, holder>>
diskVars == <<idequeue, disk, cmd>>
vars     == <<bufVars, diskVars, pc, want, buf>>

NoCmd == [op |-> "none"]

\* binit() puts each buffer in front of the earlier ones.
binit ==
  /\ lru = [i \in Bufs |-> NBUF + 1 - i]
  /\ blockno = [b \in Bufs |-> None]
  /\ valid = [b \in Bufs |-> FALSE] /\ dirty = [b \in Bufs |-> FALSE]
  /\ refcnt = [b \in Bufs |-> 0]
  /\ holder = [b \in Bufs |-> None]

Init ==
  /\ binit
  /\ data = [b \in Bufs |-> CHOOSE v \in Values : TRUE]
  /\ idequeue = <<>> /\ cmd = NoCmd
  /\ disk \in [Blocks -> Values]
  /\ pc = [p \in Procs |-> "idle"]
  /\ want = [p \in Procs |-> None]
  /\ buf = [p \in Procs |-> 1]

Goto(p, l) == pc' = [pc EXCEPT ![p] = l]

-----------------------------------------------------------------------------
(* bget() and brelse().                                                    *)

Cached(k) == {b \in Bufs : blockno[b] = k}

Recyclable_Dirty(b) == refcnt[b] = 0
Recyclable_InUse(b) == ~dirty[b]
Recyclable(b) == refcnt[b] = 0 /\ ~dirty[b]

\* The least recently used buffer that may be recycled.
Victims == {i \in Bufs : Recyclable(lru[i]) /\ \A j \in Bufs : Recyclable(lru[j]) => j <= i}

bget_hit(p, k) ==
  /\ pc[p] = "idle"
  /\ \E b \in Cached(k) :
       /\ refcnt' = [refcnt EXCEPT ![b] = refcnt[b] + 1]
       /\ buf' = [buf EXCEPT ![p] = b]
  /\ want' = [want EXCEPT ![p] = k]
  /\ Goto(p, "lock")
  /\ UNCHANGED <<lru, blockno, valid, dirty, data, holder, diskVars>>

bget_recycle(p, k) ==
  /\ pc[p] = "idle" /\ Cached(k) = {}
  /\ IF Victims = {}
     THEN Goto(p, "panic") /\ UNCHANGED <<blockno, valid, dirty, refcnt, want, buf>>
     ELSE /\ \E i \in Victims : LET b == lru[i] IN
               /\ blockno' = [blockno EXCEPT ![b] = k]
               /\ valid' = [valid EXCEPT ![b] = FALSE]
               /\ dirty' = [dirty EXCEPT ![b] = FALSE]
               /\ refcnt' = [refcnt EXCEPT ![b] = 1]
               /\ buf' = [buf EXCEPT ![p] = b]
          /\ want' = [want EXCEPT ![p] = k]
          /\ Goto(p, "lock")
  /\ UNCHANGED <<lru, data, holder, diskVars>>

\* acquiresleep(), and bread()'s test of B_VALID by the new holder.
acquiresleep(p) ==
  /\ pc[p] = "lock"
  /\ LET b == buf[p] IN
     \/ /\ holder[b] # None
        /\ Goto(p, "locksleep")
        /\ UNCHANGED holder
     \/ /\ holder[b] = None
        /\ holder' = [holder EXCEPT ![b] = p]
        /\ Goto(p, IF valid[b] THEN "held" ELSE "iderw")
  /\ UNCHANGED <<lru, blockno, valid, dirty, refcnt, data, diskVars, want, buf>>

LockWoken_Nobody(b, f) == f
LockWoken(b, f) == [p \in Procs |-> IF f[p] = "locksleep" /\ buf[p] = b THEN "lock" ELSE f[p]]

\* brelse() up to bcache.lock: the panic test and releasesleep().
releasesleep(p) ==
  /\ pc[p] = "held"
  /\ LET b == buf[p] IN
     IF holder[b] # p
     THEN Goto(p, "panic") /\ UNCHANGED holder
     ELSE /\ holder' = [holder EXCEPT ![b] = None]
          /\ pc' = LockWoken(b, [pc EXCEPT ![p] = "unref"])
  /\ UNCHANGED <<lru, blockno, valid, dirty, refcnt, data, diskVars, want, buf>>

Dropped(n) == n - 1

\* b is linked out of its place and in at the front: those before it move back.
ToFront(b) ==
  LET n == CHOOSE i \in Bufs : lru[i] = b
  IN  [i \in Bufs |-> IF i = 1 THEN b ELSE lru[IF i <= n THEN i - 1 ELSE i]]

brelse(p) ==
  /\ pc[p] = "unref"
  /\ LET b == buf[p] IN
     /\ refcnt' = [refcnt EXCEPT ![b] = Dropped(refcnt[b])]
     /\ lru' = IF refcnt'[b] = 0 THEN ToFront(b) ELSE lru
  /\ Goto(p, "idle")
  /\ want' = [want EXCEPT ![p] = None]
  /\ UNCHANGED <<blockno, valid, dirty, data, holder, diskVars, buf>>

-----------------------------------------------------------------------------
(* The holder of a buffer changes it.                                      *)

Change(p, v) == data' = [data EXCEPT ![buf[p]] = v]

\* bwrite(): B_DIRTY, then iderw().
bwrite(p, v) ==
  /\ pc[p] = "held"
  /\ Change(p, v)
  /\ dirty' = [dirty EXCEPT ![buf[p]] = holder[buf[p]] = p \/ dirty[buf[p]]]
  /\ Goto(p, IF holder[buf[p]] = p THEN "iderw" ELSE "panic")
  /\ UNCHANGED <<lru, blockno, valid, refcnt, holder, diskVars, want, buf>>

\* log_write() pins the buffer; the log limits how many it pins.
log_write(p, v) ==
  /\ pc[p] = "held"
  /\ Cardinality({b \in Bufs : dirty[b]} \cup {buf[p]}) <= MaxPinned
  /\ Change(p, v)
  /\ dirty' = [dirty EXCEPT ![buf[p]] = TRUE]
  /\ UNCHANGED <<lru, blockno, valid, refcnt, holder, diskVars, pc, want, buf>>

-----------------------------------------------------------------------------
(* The driver.                                                             *)

\* idestart(): a write's data go to the disk with the command.
Started(b) == IF dirty[b] THEN [op |-> "write", block |-> blockno[b], data |-> data[b], done |-> FALSE]
                          ELSE [op |-> "read", block |-> blockno[b], done |-> FALSE]

Ready(b) == valid[b] /\ ~dirty[b]

iderw(p) ==
  /\ pc[p] = "iderw"
  /\ LET b == buf[p] IN
     IF holder[b] # p \/ Ready(b)
     THEN Goto(p, "panic") /\ UNCHANGED <<idequeue, cmd>>
     ELSE /\ idequeue' = Append(idequeue, b)
          /\ cmd' = IF idequeue = <<>> THEN Started(b) ELSE cmd
          /\ Goto(p, "iosleep")
  /\ UNCHANGED <<bufVars, disk, want, buf>>

\* Woken, with idelock again: the loop's test.
iderw_woken(p) ==
  /\ pc[p] = "iowoken"
  /\ Goto(p, IF Ready(buf[p]) THEN "held" ELSE "iosleep")
  /\ UNCHANGED <<bufVars, diskVars, want, buf>>

\* The disk carries out its command and raises its interrupt.
Complete ==
  /\ cmd.op # "none" /\ ~cmd.done
  /\ disk' = IF cmd.op = "write" THEN [disk EXCEPT ![cmd.block] = cmd.data] ELSE disk
  /\ cmd' = [cmd EXCEPT !.done = TRUE]
  /\ UNCHANGED <<bufVars, idequeue, pc, want, buf>>

NextCmd_None(q) == NoCmd
NextCmd(q) == IF q = <<>> THEN NoCmd ELSE Started(Head(q))

ideintr ==
  /\ cmd.op # "none" /\ cmd.done /\ idequeue # <<>>
  /\ LET b == Head(idequeue) IN
     /\ idequeue' = Tail(idequeue)
     /\ data' = IF dirty[b] THEN data ELSE [data EXCEPT ![b] = disk[cmd.block]]
     /\ valid' = [valid EXCEPT ![b] = TRUE]
     /\ dirty' = [dirty EXCEPT ![b] = FALSE]
     /\ pc' = [p \in Procs |-> IF pc[p] = "iosleep" /\ buf[p] = b THEN "iowoken" ELSE pc[p]]
     /\ cmd' = NextCmd(Tail(idequeue))
  /\ UNCHANGED <<lru, blockno, refcnt, holder, disk, want, buf>>

-----------------------------------------------------------------------------
Get(p) == \E k \in Blocks : bget_hit(p, k) \/ bget_recycle(p, k)

Use(p) == \E v \in Values : bwrite(p, v) \/ log_write(p, v)

KernelStep(p) ==
  acquiresleep(p) \/ iderw(p) \/ iderw_woken(p) \/ releasesleep(p) \/ brelse(p)

DiskStep == Complete \/ ideintr

Running == \A p \in Procs : pc[p] # "panic"

Next == Running /\ (DiskStep \/ \E p \in Procs : Get(p) \/ Use(p) \/ KernelStep(p))

Spec == Init /\ [][Next]_vars

-----------------------------------------------------------------------------
(* Properties.                                                             *)

\* Every variable keeps its type; bcache's list always links every buffer.
TypeOK ==
  /\ lru \in [Bufs -> Bufs] /\ \A b \in Bufs : \E i \in Bufs : lru[i] = b
  /\ blockno \in [Bufs -> Blocks \cup {None}]
  /\ valid \in [Bufs -> BOOLEAN] /\ dirty \in [Bufs -> BOOLEAN]
  /\ refcnt \in [Bufs -> Nat] /\ data \in [Bufs -> Values]
  /\ holder \in [Bufs -> Procs \cup {None}]
  /\ idequeue \in Seq(Bufs) /\ disk \in [Blocks -> Values]
  /\ pc \in [Procs -> {"idle", "lock", "locksleep", "held", "iderw", "iosleep",
                       "iowoken", "unref", "panic"}]
  /\ want \in [Procs -> Blocks \cup {None}] /\ buf \in [Procs -> Bufs]

\* A block is never in two buffers, however requests for it interleave (bio.c:66-91).
OneBufferPerBlock ==
  \A b, c \in Bufs : blockno[b] = blockno[c] /\ blockno[b] # None => b = c

\* A block is in one buffer.  From bget() to brelse() a process's buffer stays the buffer of the block it
\* asked for, also while it waits for the lock; bread() returns it locked and
\* valid (bio.c:71-74, 82-88, 95-106).  No panic of bget(), brelse(), bwrite() or
\* iderw() is reached while the log leaves a buffer for each process (bio.c:92,
\* 113, 124; ide.c:143-145).
BufferKept ==
  /\ TypeOK /\ Running /\ OneBufferPerBlock
  /\ \A p \in Procs : pc[p] # "idle" =>
       /\ blockno[buf[p]] = want[p]
       /\ pc[p] = "held" => holder[buf[p]] = p /\ valid[buf[p]]

\* What a process that gets the block would read.
Contents(k) == IF \E b \in Cached(k) : valid[b]
               THEN data[CHOOSE b \in Cached(k) : valid[b]] ELSE disk[k]

\* A block's contents change only by the process that holds its buffer: no
\* update is lost when buffers are recycled, requests queue up and reads and
\* writes of the disk are still under way (bio.c:79-82, ide.c:94-99, 117-123).
OnlyHolderChanges ==
  [][\A k \in Blocks : Contents(k)' # Contents(k) =>
       \E p \in Procs : pc[p] = "held" /\ want[p] = k]_vars

\* The disk works exactly while requests are queued, and on the first one: no
\* request is forgotten and none is answered with another's interrupt
\* (ide.c:108-128, 151-159).
DiskServesHead ==
  /\ idequeue = <<>> <=> cmd.op = "none"
  /\ idequeue # <<>> => /\ cmd.block = blockno[Head(idequeue)]
                        /\ cmd.op = "write" <=> dirty[Head(idequeue)]

\* A process sleeps for a buffer's lock only while somebody holds it
\* (sleeplock.c:26-28, 38-40).
LockSleeperWaits == \A p \in Procs : pc[p] = "locksleep" => holder[buf[p]] # None

=============================================================================
