---------------------------- MODULE BcacheProofs ----------------------------
(***************************************************************************)
(* Proofs about the buffer cache, for every number of buffers, processes   *)
(* and blocks that leaves a buffer for each process at work.               *)
(***************************************************************************)
EXTENDS Bcache, FiniteSetTheorems, TLAPS

-----------------------------------------------------------------------------
(* The inductive invariant.                                                *)

\* The two halves of TypeOK.
Listed == lru \in [Bufs -> Bufs] /\ \A b \in Bufs : \E i \in Bufs : lru[i] = b
Typed ==
  /\ blockno \in [Bufs -> Blocks \cup {None}]
  /\ valid \in [Bufs -> BOOLEAN] /\ dirty \in [Bufs -> BOOLEAN]
  /\ refcnt \in [Bufs -> Nat] /\ data \in [Bufs -> Values]
  /\ holder \in [Bufs -> Procs \cup {None}]
  /\ idequeue \in Seq(Bufs) /\ disk \in [Blocks -> Values]
  /\ pc \in [Procs -> {"idle", "lock", "locksleep", "held", "iderw", "iosleep",
                       "iowoken", "unref", "panic"}]
  /\ want \in [Procs -> Blocks \cup {None}] /\ buf \in [Procs -> Bufs]

Locking == {"held", "iderw", "iosleep", "iowoken"}

\* A sleep lock is held by just the process that is between acquiresleep() and
\* releasesleep().
LockHeld ==
  /\ \A p \in Procs : pc[p] \in Locking => holder[buf[p]] = p
  /\ \A b \in Bufs : holder[b] # None => pc[holder[b]] \in Locking /\ buf[holder[b]] = b

\* refcnt counts the processes between bget() and brelse(), and their buffer is
\* that of the block they asked for.
Users(b) == {p \in Procs : pc[p] # "idle" /\ buf[p] = b}
Referenced == \A b \in Bufs : refcnt[b] = Cardinality(Users(b))
Asked == \A p \in Procs : pc[p] # "idle" => want[p] \in Blocks /\ blockno[buf[p]] = want[p]

\* What B_VALID and B_DIRTY say of the holder's progress.
Flags == \A p \in Procs : /\ pc[p] = "held" => valid[buf[p]]
                          /\ pc[p] = "iowoken" => Ready(buf[p])
                          /\ pc[p] \in {"iderw", "iosleep"} => ~Ready(buf[p])

\* A buffer that is not written yet is valid, and one that is has the disk's data.
Clean == \A b \in Bufs : /\ dirty[b] => valid[b]
                         /\ valid[b] => blockno[b] \in Blocks
                         /\ Ready(b) => data[b] = disk[blockno[b]]

\* The queue holds the buffers of just the processes asleep in iderw(), once each.
Queued ==
  /\ \A i, j \in 1..Len(idequeue) : idequeue[i] = idequeue[j] => i = j
  /\ \A i \in 1..Len(idequeue) : \E p \in Procs : pc[p] = "iosleep" /\ buf[p] = idequeue[i]
  /\ \A p \in Procs : pc[p] = "iosleep" => \E i \in 1..Len(idequeue) : buf[p] = idequeue[i]

\* The disk's command is the one idestart() made from the head of the queue.
Commands == [op : {"write"}, block : Blocks, data : Values, done : BOOLEAN]
       \cup [op : {"read"}, block : Blocks, done : BOOLEAN]
Commanded ==
  IF idequeue = <<>> THEN cmd = NoCmd
  ELSE LET b == Head(idequeue)
       IN  /\ cmd \in Commands /\ cmd.block = blockno[b]
           /\ IF dirty[b] THEN /\ cmd.op = "write" /\ cmd.data = data[b]
                               /\ cmd.done => disk[blockno[b]] = data[b]
                          ELSE cmd.op = "read"

\* The buffers that only the log keeps from being recycled.
Pinned == {b \in Bufs : dirty[b] /\ \A p \in Procs : pc[p] \in {"iderw", "iosleep"} => buf[p] # b}
LogPins == Cardinality(Pinned) <= MaxPinned

BcacheInv ==
  /\ Listed /\ Typed /\ Running /\ OneBufferPerBlock /\ LockSleeperWaits
  /\ LockHeld /\ Referenced /\ Asked /\ Flags /\ Clean /\ Queued /\ Commanded /\ LogPins

-----------------------------------------------------------------------------
(* Counting.                                                               *)

\* A set of numbers up to N has a largest one.
LEMMA HasLargest ==
  ASSUME NEW N \in Nat, NEW S \in SUBSET (1..N), S # {}
  PROVE  \E m \in S : \A j \in S : j <= m
<1> SUFFICES ASSUME \A m \in S : \E j \in S : ~(j <= m) PROVE FALSE
  OBVIOUS
<1> DEFINE T == {i \in 1..N : \E j \in S : i <= j}
           f == [i \in T |-> i + 1]
<1>1. 1 \in T
  <2>1. PICK j \in S : TRUE BY Zenon
  <2>2. j \in 1..N OBVIOUS
  <2> QED BY <2>2
<1>2. f \in [T -> T \ {1}] OBVIOUS
<1>3. IsFiniteSet(T)
  <2>1. IsFiniteSet(1..N) BY FS_Interval
  <2> QED BY <2>1, FS_Subset
<1>4. IsFiniteSet(T \ {1}) /\ Cardinality(T \ {1}) = Cardinality(T) - 1 /\ Cardinality(T) \in Nat
  <2> HIDE DEF T
  <2> QED BY <1>1, <1>3, FS_RemoveElement, FS_CardinalityType
<1>5. \E x, y \in T : x # y /\ f[x] = f[y]
  <2> HIDE DEF T, f
  <2>1. Cardinality(T \ {1}) < Cardinality(T) BY <1>4
  <2> QED BY ONLY <2>1, <1>2, <1>3, <1>4, FS_PigeonHole
<1> QED BY <1>5

\* Fewer buffers are referenced than there are processes but the one that asks.
LEMMA FewReferenced ==
  ASSUME BcacheInv, NEW p \in Procs, pc[p] = "idle"
  PROVE  LET R == {b \in Bufs : refcnt[b] # 0}
         IN  IsFiniteSet(R) /\ Cardinality(R) \in Nat /\ Cardinality(R) <= Cardinality(Procs) - 1
<1> DEFINE R == {b \in Bufs : refcnt[b] # 0}
           Q == Procs \ {p}
           g == [b \in R |-> CHOOSE q \in Procs : pc[q] # "idle" /\ buf[q] = b]
<1>1. \A b \in R : \E q \in Procs : pc[q] # "idle" /\ buf[q] = b
  <2> SUFFICES ASSUME NEW b \in Bufs, refcnt[b] # 0, \A q \in Procs : ~(pc[q] # "idle" /\ buf[q] = b)
               PROVE  FALSE
    OBVIOUS
  <2>1. Users(b) = {} BY DEF Users
  <2> QED BY <2>1, FS_EmptySet DEF BcacheInv, Referenced
<1>2. g \in [R -> Q] BY <1>1
<1>3. \A x, y \in R : g[x] = g[y] => x = y BY <1>1
<1>4. IsFiniteSet(R) /\ Cardinality(R) \in Nat
  <2>1. IsFiniteSet(Bufs) BY SizeAssumption, FS_Interval DEF Bufs
  <2> QED BY <2>1, FS_Subset, FS_CardinalityType
<1>5. IsFiniteSet(Q) /\ Cardinality(Q) = Cardinality(Procs) - 1 /\ Cardinality(Procs) \in Nat
  BY RoomAssumption, FS_RemoveElement, FS_CardinalityType
<1>6. Cardinality(R) <= Cardinality(Q)
  <2> HIDE DEF R, Q, g
  <2> SUFFICES ASSUME Cardinality(Q) < Cardinality(R) PROVE FALSE BY <1>4, <1>5
  <2> QED BY ONLY Cardinality(Q) < Cardinality(R), <1>2, <1>3, <1>4, <1>5, FS_PigeonHole
<1> QED BY <1>4, <1>5, <1>6

\* So bget() finds a buffer to recycle.
LEMMA HasVictim ==
  ASSUME BcacheInv, NEW p \in Procs, pc[p] = "idle"
  PROVE  Victims # {}
<1> DEFINE R == {b \in Bufs : refcnt[b] # 0}
<1>1. IsFiniteSet(Bufs) /\ Cardinality(Bufs) = NBUF BY SizeAssumption, FS_Interval DEF Bufs
<1>2. IsFiniteSet(R) /\ Cardinality(R) \in Nat /\ Cardinality(R) <= Cardinality(Procs) - 1
  BY FewReferenced
<1>3. IsFiniteSet(Pinned) /\ Cardinality(Pinned) \in Nat /\ Cardinality(Pinned) <= MaxPinned
  BY <1>1, FS_Subset, FS_CardinalityType DEF Pinned, BcacheInv, LogPins
<1>4. Bufs # R \cup Pinned
  <2> HIDE DEF R
  <2>1. Cardinality(R \cup Pinned) <= Cardinality(R) + Cardinality(Pinned)
    <3>1. IsFiniteSet(R \cap Pinned) BY <1>2, FS_Intersection
    <3>2. Cardinality(R \cap Pinned) \in Nat BY <3>1, FS_CardinalityType
    <3>3. Cardinality(R \cup Pinned) = Cardinality(R) + Cardinality(Pinned) - Cardinality(R \cap Pinned)
      BY <1>2, <1>3, FS_Union
    <3> QED BY <3>2, <3>3, <1>2, <1>3
  <2>2. Cardinality(Procs) \in Nat BY RoomAssumption, FS_CardinalityType
  <2>3. Cardinality(R \cup Pinned) < NBUF
    <3>1. Cardinality(R \cup Pinned) \in Nat BY <1>2, <1>3, FS_Union, FS_CardinalityType, Zenon
    <3> QED BY <3>1, <2>1, <2>2, <1>2, <1>3, RoomAssumption, SizeAssumption
  <2> QED BY <2>3, <1>1, SizeAssumption
<1>5. PICK b \in Bufs : refcnt[b] = 0 /\ b \notin Pinned BY <1>4 DEF Pinned
<1>6. Recyclable(b)
  <2> SUFFICES ASSUME dirty[b] PROVE FALSE BY <1>5 DEF Recyclable
  <2>1. PICK q \in Procs : pc[q] \in {"iderw", "iosleep"} /\ buf[q] = b BY <1>5 DEF Pinned
  <2>2. q \in Users(b) BY <2>1 DEF Users
  <2>3. IsFiniteSet(Users(b)) BY RoomAssumption, FS_Subset DEF Users
  <2>4. Cardinality(Users(b)) = 0 BY <1>5 DEF BcacheInv, Referenced
  <2> QED BY <2>2, <2>3, <2>4, FS_EmptySet
<1>7. PICK i \in Bufs : lru[i] = b BY DEF BcacheInv, Listed
<1> DEFINE S == {j \in Bufs : Recyclable(lru[j])}
<1>8. S \in SUBSET (1..NBUF) /\ S # {} BY <1>6, <1>7 DEF Bufs
<1>9. PICK m \in S : \A j \in S : j <= m
  <2> HIDE DEF S
  <2> QED BY <1>8, HasLargest, SizeAssumption, Zenon
<1> QED BY <1>9 DEF Victims


-----------------------------------------------------------------------------
(* Facts the steps share.                                                  *)

\* Two processes never have the same buffer locked.
LEMMA Exclusive ==
  ASSUME LockHeld, NEW p \in Procs, NEW q \in Procs,
         pc[p] \in Locking, pc[q] \in Locking, buf[p] = buf[q]
  PROVE  p = q
BY DEF LockHeld

\* Nobody has a buffer whose refcnt is 0.
LEMMA Unreferenced ==
  ASSUME BcacheInv, NEW b \in Bufs, refcnt[b] = 0
  PROVE  \A q \in Procs : buf[q] = b => pc[q] = "idle"
<1>1. IsFiniteSet(Users(b)) BY RoomAssumption, FS_Subset DEF Users
<1>2. Users(b) = {} BY <1>1, FS_EmptySet DEF BcacheInv, Referenced
<1> QED BY <1>2 DEF Users

\* The head of the queue is the buffer of a process asleep in iderw().
LEMMA HeadQueued ==
  ASSUME BcacheInv, idequeue # <<>>
  PROVE  /\ Head(idequeue) \in Bufs
         /\ \E q \in Procs : pc[q] = "iosleep" /\ buf[q] = Head(idequeue)
<1>1. idequeue \in Seq(Bufs) BY DEF BcacheInv, Typed
<1>2. Head(idequeue) = idequeue[1] /\ 1 \in 1..Len(idequeue) /\ idequeue[1] \in Bufs BY <1>1
<1> QED BY <1>2 DEF BcacheInv, Queued

LEMMA FewerPins ==
  ASSUME BcacheInv, Pinned' \subseteq Pinned
  PROVE  LogPins'
<1>1. IsFiniteSet(Bufs) BY SizeAssumption, FS_Interval DEF Bufs
<1>2. IsFiniteSet(Pinned) BY <1>1, FS_Subset DEF Pinned
<1>3. IsFiniteSet(Pinned') /\ Cardinality(Pinned') <= Cardinality(Pinned) BY <1>2, FS_Subset
<1>4. Cardinality(Pinned) \in Nat /\ Cardinality(Pinned') \in Nat BY <1>2, <1>3, FS_CardinalityType
<1> QED BY <1>3, <1>4, SizeAssumption DEF BcacheInv, LogPins

\* A step that neither gets nor releases a buffer.
LEMMA SameUsers ==
  ASSUME BcacheInv, UNCHANGED <<blockno, refcnt, want, buf>>,
         \A q \in Procs : pc'[q] = "idle" <=> pc[q] = "idle"
  PROVE  Referenced' /\ Asked' /\ OneBufferPerBlock'
<1>1. \A b \in Bufs : Users(b)' = Users(b) BY DEF Users
<1>2. Referenced' BY <1>1 DEF BcacheInv, Referenced
<1> QED BY <1>2 DEF BcacheInv, Asked, OneBufferPerBlock

\* brelse() moves the buffer to the front of the list, which keeps the others.
LEMMA ToFrontLists ==
  ASSUME Listed, NEW b \in Bufs
  PROVE  ToFront(b) \in [Bufs -> Bufs] /\ \A c \in Bufs : \E i \in Bufs : ToFront(b)[i] = c
<1> DEFINE n == CHOOSE i \in Bufs : lru[i] = b
           l == [i \in Bufs |-> IF i = 1 THEN b ELSE lru[IF i <= n THEN i - 1 ELSE i]]
<1>1. n \in Bufs /\ lru[n] = b BY DEF Listed
<1>2. ToFront(b) = l BY DEF ToFront
<1> HIDE DEF n
<1>3. l \in [Bufs -> Bufs]
  <2> SUFFICES ASSUME NEW i \in Bufs, i # 1 PROVE lru[IF i <= n THEN i - 1 ELSE i] \in Bufs
    OBVIOUS
  <2>1. (IF i <= n THEN i - 1 ELSE i) \in Bufs BY <1>1, SizeAssumption DEF Bufs
  <2> QED BY <2>1 DEF Listed
<1>4. ASSUME NEW c \in Bufs PROVE \E i \in Bufs : l[i] = c
  <2>1. PICK j \in Bufs : lru[j] = c BY DEF Listed
  <2>2. CASE j = n
    <3>1. 1 \in Bufs BY SizeAssumption DEF Bufs
    <3> QED BY <2>1, <2>2, <3>1, <1>1
  <2>3. CASE j < n
    <3>1. j + 1 \in Bufs /\ j + 1 # 1 /\ j + 1 <= n /\ (j + 1) - 1 = j
      BY <2>3, <1>1, SizeAssumption DEF Bufs
    <3>2. l[j + 1] = lru[j] BY <3>1
    <3> QED BY <3>1, <3>2, <2>1
  <2>4. CASE j > n
    <3>1. j # 1 /\ ~(j <= n) BY <2>4, <1>1, SizeAssumption DEF Bufs
    <3> QED BY <3>1, <2>1
  <2>5. j \in Int /\ n \in Int BY <1>1, SizeAssumption DEF Bufs
  <2> QED BY <2>2, <2>3, <2>4, <2>5
<1> QED BY <1>2, <1>3, <1>4

LEMMA InitBcache == Init => BcacheInv
<1> SUFFICES ASSUME Init PROVE BcacheInv OBVIOUS
<1> USE DEF Init, binit
<1>1. Listed /\ Typed
  <2>1. lru \in [Bufs -> Bufs] /\ \A b \in Bufs : \E i \in Bufs : lru[i] = b
    <3>1. \A b \in Bufs : NBUF + 1 - b \in Bufs /\ lru[NBUF + 1 - b] = b BY SizeAssumption DEF Bufs
    <3> QED BY <3>1, SizeAssumption DEF Bufs
  <2>2. 1 \in Bufs BY SizeAssumption DEF Bufs
  <2>3. (CHOOSE v \in Values : TRUE) \in Values BY DataAssumption
  <2>4. idequeue \in Seq(Bufs) OBVIOUS
  <2>5. Typed BY <2>2, <2>3, <2>4 DEF Typed
  <2> QED BY <2>1, <2>5 DEF Listed
<1>2. Running /\ OneBufferPerBlock /\ LockSleeperWaits /\ LockHeld /\ Asked /\ Flags /\ Clean
  BY DEF Running, OneBufferPerBlock, LockSleeperWaits, LockHeld, Locking, Asked, Flags, Clean, Ready
<1>3. Queued /\ Commanded BY DEF Queued, Commanded
<1>4. Referenced
  <2>1. \A b \in Bufs : Users(b) = {} BY DEF Users
  <2> QED BY <2>1, FS_EmptySet, Zenon DEF Referenced
<1>5. LogPins
  <2>1. Pinned = {} BY DEF Pinned
  <2> QED BY <2>1, FS_EmptySet, SizeAssumption DEF LogPins
<1> QED BY <1>1, <1>2, <1>3, <1>4, <1>5 DEF BcacheInv


\* A step that queues no request and does not change a queued buffer.
LEMMA SameRequests ==
  ASSUME BcacheInv, UNCHANGED diskVars,
         \A q \in Procs : pc'[q] = "iosleep" <=> pc[q] = "iosleep",
         \A q \in Procs : pc[q] = "iosleep" =>
           /\ buf'[q] = buf[q] /\ blockno'[buf[q]] = blockno[buf[q]]
           /\ dirty'[buf[q]] = dirty[buf[q]] /\ data'[buf[q]] = data[buf[q]]
  PROVE  Queued' /\ Commanded'
<1>1. Queued' BY DEF diskVars, BcacheInv, Queued
<1>2. CASE idequeue = <<>> BY <1>2, <1>1 DEF diskVars, BcacheInv, Commanded
<1>3. CASE idequeue # <<>>
  <2> DEFINE b == Head(idequeue)
  <2>1. PICK q \in Procs : pc[q] = "iosleep" /\ buf[q] = b BY <1>3, HeadQueued
  <2>2. blockno'[b] = blockno[b] /\ dirty'[b] = dirty[b] /\ data'[b] = data[b] BY <2>1
  <2>3. idequeue' # <<>> /\ Head(idequeue') = b /\ cmd' = cmd /\ disk' = disk BY <1>3 DEF diskVars
  <2> HIDE DEF b
  <2>4. /\ cmd \in Commands /\ cmd.block = blockno[b]
        /\ IF dirty[b] THEN /\ cmd.op = "write" /\ cmd.data = data[b]
                            /\ cmd.done => disk[blockno[b]] = data[b]
                       ELSE cmd.op = "read"
    BY <1>3 DEF BcacheInv, Commanded, b
  <2> QED BY <1>1, <2>2, <2>3, <2>4 DEF Commanded
<1> QED BY <1>2, <1>3

-----------------------------------------------------------------------------
(* bget() and brelse().                                                    *)

LEMMA HitStep ==
  ASSUME BcacheInv, NEW p \in Procs, NEW k \in Blocks, bget_hit(p, k)
  PROVE  BcacheInv'
<1>1. PICK b \in Bufs : /\ blockno[b] = k
                        /\ refcnt' = [refcnt EXCEPT ![b] = refcnt[b] + 1]
                        /\ buf' = [buf EXCEPT ![p] = b]
  BY Zenon DEF bget_hit, Cached
<1>2. /\ pc[p] = "idle" /\ pc' = [pc EXCEPT ![p] = "lock"] /\ want' = [want EXCEPT ![p] = k]
      /\ UNCHANGED <<lru, blockno, valid, dirty, data, holder>> /\ UNCHANGED diskVars
  BY DEF bget_hit, Goto
<1>3. Listed' /\ Typed /\ Typed'
  <2>1. Listed' BY <1>2 DEF BcacheInv, Listed
  <2>2. Typed BY DEF BcacheInv
  <2>3. Typed' BY <2>2, <1>1, <1>2 DEF Typed, diskVars
  <2> QED BY <2>1, <2>2, <2>3
<1>4. Running' /\ OneBufferPerBlock' /\ LockSleeperWaits' /\ Asked' /\ Flags' /\ Clean'
  BY <1>1, <1>2, <1>3 DEF BcacheInv, Typed, Running, OneBufferPerBlock, LockSleeperWaits, Asked, Flags,
                          Clean, Ready, diskVars
<1>5. LockHeld' BY <1>1, <1>2, <1>3 DEF BcacheInv, Typed, LockHeld, Locking
<1>6. Queued' /\ Commanded' BY <1>1, <1>2, <1>3, SameRequests DEF Typed
<1>7. LogPins'
  <2>1. Pinned' \subseteq Pinned BY <1>1, <1>2, <1>3, ZenonT(30) DEF Pinned, Typed
  <2> QED BY <2>1, FewerPins
<1>8. Referenced'
  <2> SUFFICES ASSUME NEW c \in Bufs PROVE refcnt'[c] = Cardinality(Users(c)') BY DEF Referenced
  <2>1. CASE c # b
    <3>1. Users(c)' = Users(c) BY <2>1, <1>1, <1>2, <1>3 DEF Users, Typed
    <3> QED BY <3>1, <2>1, <1>1, <1>3 DEF BcacheInv, Referenced, Typed
  <2>2. CASE c = b
    <3>1. Users(c)' = Users(c) \cup {p} /\ p \notin Users(c)
      BY <2>2, <1>1, <1>2, <1>3 DEF Users, Typed
    <3>2. IsFiniteSet(Users(c)) BY RoomAssumption, FS_Subset DEF Users
    <3>3. Cardinality(Users(c)') = Cardinality(Users(c)) + 1
      <4> DEFINE U == Users(c)  V == Users(c)'
      <4> HIDE DEF U, V
      <4>1. V = U \cup {p} /\ p \notin U /\ IsFiniteSet(U) BY <3>1, <3>2 DEF U, V
      <4>2. Cardinality(V) = Cardinality(U) + 1 BY ONLY <4>1, FS_AddElement, Zenon
      <4> QED BY <4>2 DEF U, V
    <3> QED BY <3>3, <2>2, <1>1, <1>3 DEF BcacheInv, Referenced, Typed
  <2> QED BY <2>1, <2>2
<1> QED BY <1>3, <1>4, <1>5, <1>6, <1>7, <1>8 DEF BcacheInv

LEMMA RecycleStep ==
  ASSUME BcacheInv, NEW p \in Procs, NEW k \in Blocks, bget_recycle(p, k)
  PROVE  BcacheInv'
<1>1. pc[p] = "idle" /\ Cached(k) = {} BY DEF bget_recycle
<1>2. PICK i \in Victims : LET b == lru[i] IN
               /\ blockno' = [blockno EXCEPT ![b] = k]
               /\ valid' = [valid EXCEPT ![b] = FALSE]
               /\ dirty' = [dirty EXCEPT ![b] = FALSE]
               /\ refcnt' = [refcnt EXCEPT ![b] = 1]
               /\ buf' = [buf EXCEPT ![p] = b]
  BY <1>1, HasVictim DEF bget_recycle
<1> DEFINE b == lru[i]
<1>3. /\ pc' = [pc EXCEPT ![p] = "lock"] /\ want' = [want EXCEPT ![p] = k]
      /\ UNCHANGED <<lru, data, holder>> /\ UNCHANGED diskVars
  BY <1>1, HasVictim DEF bget_recycle, Goto
<1>4. Listed /\ Typed BY DEF BcacheInv
<1>5. b \in Bufs /\ refcnt[b] = 0 /\ ~dirty[b] BY <1>4 DEF Victims, Recyclable, Listed
<1>6. \A q \in Procs : buf[q] = b => pc[q] = "idle" BY <1>5, Unreferenced
<1> HIDE DEF b
<1>7. Listed' /\ Typed' BY <1>2, <1>3, <1>4, <1>5, ZenonT(30) DEF Listed, Typed, diskVars, b
<1>8. Running' /\ OneBufferPerBlock' /\ LockSleeperWaits' /\ Asked'
  BY <1>1, <1>2, <1>3, <1>4, <1>5, <1>6
  DEF BcacheInv, Typed, Running, OneBufferPerBlock, LockSleeperWaits, Asked, Cached, b
<1>9. Flags' BY <1>1, <1>2, <1>3, <1>4, <1>5, <1>6 DEF BcacheInv, Typed, Flags, Ready, b
<1>10. Clean' BY <1>2, <1>3, <1>4, <1>5 DEF BcacheInv, Typed, Clean, Ready, diskVars, b
<1>11. LockHeld' BY <1>1, <1>2, <1>3, <1>4, <1>5, <1>6 DEF BcacheInv, Typed, LockHeld, Locking, b
<1>12. Queued' /\ Commanded'
  <2>1. \A q \in Procs : pc[q] = "iosleep" => q # p /\ buf[q] # b BY <1>1, <1>6
  <2> QED BY <2>1, <1>1, <1>2, <1>3, <1>4, SameRequests, Zenon DEF Typed, b
<1>13. LogPins'
  <2>1. Pinned' \subseteq Pinned BY <1>1, <1>2, <1>3, <1>4, <1>5, Zenon DEF Pinned, Typed, b
  <2> QED BY <2>1, FewerPins
<1>14. Referenced'
  <2> SUFFICES ASSUME NEW c \in Bufs PROVE refcnt'[c] = Cardinality(Users(c)') BY DEF Referenced
  <2>1. CASE c # b
    <3>1. Users(c)' = Users(c) BY <2>1, <1>1, <1>2, <1>3, <1>4, <1>5 DEF Users, Typed, b
    <3> QED BY <3>1, <2>1, <1>2, <1>4, <1>5 DEF BcacheInv, Referenced, Typed, b
  <2>2. CASE c = b
    <3>1. Users(c)' = {p} BY <2>2, <1>1, <1>2, <1>3, <1>4, <1>5, <1>6 DEF Users, Typed, b
    <3> QED BY <3>1, <2>2, <1>2, <1>4, <1>5, FS_Singleton, Zenon DEF Typed, b
  <2> QED BY <2>1, <2>2
<1> QED BY <1>7, <1>8, <1>9, <1>10, <1>11, <1>12, <1>13, <1>14 DEF BcacheInv


LEMMA AcquireStep ==
  ASSUME BcacheInv, NEW p \in Procs, acquiresleep(p)
  PROVE  BcacheInv'
<1> DEFINE b == buf[p]
<1>1. /\ pc[p] = "lock"
      /\ UNCHANGED <<lru, blockno, valid, dirty, refcnt, data, want, buf>> /\ UNCHANGED diskVars
  BY DEF acquiresleep
<1>2. Listed' /\ Typed /\ b \in Bufs /\ p # None
  BY <1>1, NoneAssumption DEF BcacheInv, Listed, Typed
<1>3. PICK l \in {"locksleep", "held", "iderw"} :
        /\ pc' = [pc EXCEPT ![p] = l]
        /\ l = "locksleep" => holder[b] # None /\ holder' = holder
        /\ l # "locksleep" => holder[b] = None /\ holder' = [holder EXCEPT ![b] = p]
        /\ l = "held" <=> l # "locksleep" /\ valid[b]
  BY DEF acquiresleep, Goto
<1>4. Typed'
  <2>1. holder' \in [Bufs -> Procs \cup {None}] BY <1>2, <1>3, ZenonT(30) DEF Typed
  <2>2. pc' \in [Procs -> {"idle", "lock", "locksleep", "held", "iderw", "iosleep",
                           "iowoken", "unref", "panic"}]
    BY <1>2, <1>3 DEF Typed
  <2> QED BY <2>1, <2>2, <1>1, <1>2 DEF Typed, diskVars
<1>5. Running' /\ LockSleeperWaits' BY <1>1, <1>2, <1>3 DEF BcacheInv, Typed, Running, LockSleeperWaits
<1>6. Flags' /\ Clean'
  BY <1>1, <1>2, <1>3 DEF BcacheInv, Typed, Flags, Clean, Ready, diskVars
<1>7. LockHeld'
  <2>1. CASE l = "locksleep" BY <2>1, <1>1, <1>2, <1>3 DEF BcacheInv, Typed, LockHeld, Locking
  <2>2. CASE l # "locksleep"
    <3>1. pc'[p] \in Locking /\ \A q \in Procs : q # p => pc'[q] = pc[q]
      BY <2>2, <1>2, <1>3 DEF Typed, Locking
    <3>2. \A q \in Procs : pc[q] \in Locking => q # p /\ buf[q] # b
      BY <2>2, <1>1, <1>2, <1>3, NoneAssumption DEF BcacheInv, LockHeld, Locking
    <3>3. holder' = [holder EXCEPT ![b] = p] BY <2>2, <1>3
    <3>4. \A q \in Procs : pc'[q] \in Locking => holder'[buf[q]] = q
      BY <3>1, <3>2, <3>3, <1>2, Zenon DEF BcacheInv, Typed, LockHeld
    <3>5. \A c \in Bufs : holder'[c] # None => pc'[holder'[c]] \in Locking /\ buf[holder'[c]] = c
      <4> SUFFICES ASSUME NEW c \in Bufs, holder'[c] # None
                   PROVE  pc'[holder'[c]] \in Locking /\ buf[holder'[c]] = c
        OBVIOUS
      <4>1. CASE c = b BY <4>1, <3>1, <3>3, <1>2 DEF Typed
      <4>2. CASE c # b
        <5>1. holder'[c] = holder[c] /\ holder[c] \in Procs BY <4>2, <3>3, <1>2 DEF Typed
        <5>2. pc[holder[c]] \in Locking /\ buf[holder[c]] = c BY <5>1 DEF BcacheInv, LockHeld
        <5> QED BY <5>1, <5>2, <3>1, <3>2
      <4> QED BY <4>1, <4>2
    <3> QED BY <3>4, <3>5, <1>1 DEF LockHeld
  <2> QED BY <2>1, <2>2
<1>8. Queued' /\ Commanded' BY <1>1, <1>2, <1>3, SameRequests DEF Typed
<1>9. LogPins'
  <2>1. Pinned' \subseteq Pinned BY <1>1, <1>2, <1>3 DEF Pinned, Typed
  <2> QED BY <2>1, FewerPins
<1>10. Referenced' /\ Asked' /\ OneBufferPerBlock' BY <1>1, <1>2, <1>3, SameUsers DEF Typed
<1> QED BY <1>2, <1>4, <1>5, <1>6, <1>7, <1>8, <1>9, <1>10 DEF BcacheInv

LEMMA ReleaseStep ==
  ASSUME BcacheInv, NEW p \in Procs, releasesleep(p)
  PROVE  BcacheInv'
<1> DEFINE b == buf[p]
<1>1. /\ pc[p] = "held" /\ holder[b] = p
      /\ UNCHANGED <<lru, blockno, valid, dirty, refcnt, data, want, buf>> /\ UNCHANGED diskVars
  BY DEF releasesleep, BcacheInv, LockHeld, Locking
<1>2. Listed' /\ Typed /\ b \in Bufs /\ p # None
  BY <1>1, NoneAssumption DEF BcacheInv, Listed, Typed
<1>3. /\ holder' = [holder EXCEPT ![b] = None]
      /\ pc' = [q \in Procs |-> IF q = p THEN "unref"
                                ELSE IF pc[q] = "locksleep" /\ buf[q] = b THEN "lock" ELSE pc[q]]
  <2>1. holder' = [holder EXCEPT ![b] = None] /\ pc' = LockWoken(b, [pc EXCEPT ![p] = "unref"])
    BY <1>1 DEF releasesleep
  <2> QED BY <2>1, <1>2 DEF LockWoken, Typed
<1>4. Typed' BY <1>1, <1>2, <1>3 DEF Typed, diskVars
<1>5. Running' /\ LockSleeperWaits' BY <1>1, <1>2, <1>3 DEF BcacheInv, Typed, Running, LockSleeperWaits
<1>6. Flags' /\ Clean'
  BY <1>1, <1>2, <1>3 DEF BcacheInv, Typed, Flags, Clean, Ready, diskVars
<1>7. LockHeld'
  <2>1. \A q \in Procs : pc'[q] \in Locking => q # p /\ pc[q] \in Locking
    BY <1>2, <1>3 DEF Typed, Locking
  <2>2. \A q \in Procs : pc'[q] \in Locking => buf[q] # b
    BY <2>1, <1>1, Exclusive DEF Locking, BcacheInv
  <2>3. \A q \in Procs : pc[q] \in Locking /\ q # p => pc'[q] \in Locking
    BY <1>2, <1>3 DEF Typed, Locking
  <2> QED BY <2>1, <2>2, <2>3, <1>1, <1>2, <1>3 DEF BcacheInv, Typed, LockHeld
<1>8. Queued' /\ Commanded' BY <1>1, <1>2, <1>3, SameRequests DEF Typed
<1>9. LogPins'
  <2>1. Pinned' \subseteq Pinned BY <1>1, <1>2, <1>3, ZenonT(30) DEF Pinned, Typed
  <2> QED BY <2>1, FewerPins
<1>10. Referenced' /\ Asked' /\ OneBufferPerBlock' BY <1>1, <1>2, <1>3, SameUsers DEF Typed
<1> QED BY <1>2, <1>4, <1>5, <1>6, <1>7, <1>8, <1>9, <1>10 DEF BcacheInv

LEMMA BrelseStep ==
  ASSUME BcacheInv, NEW p \in Procs, brelse(p)
  PROVE  BcacheInv'
<1> DEFINE b == buf[p]
<1>1. /\ pc[p] = "unref" /\ refcnt' = [refcnt EXCEPT ![b] = refcnt[b] - 1]
      /\ pc' = [pc EXCEPT ![p] = "idle"] /\ want' = [want EXCEPT ![p] = None]
      /\ UNCHANGED <<blockno, valid, dirty, data, holder, buf>> /\ UNCHANGED diskVars
  BY DEF brelse, Goto, Dropped
<1>2. Typed /\ b \in Bufs BY DEF BcacheInv, Typed
<1>3. Listed'
  <2>1. lru' = ToFront(b) \/ lru' = lru BY DEF brelse
  <2>2. Listed BY DEF BcacheInv
  <2>3. CASE lru' = lru BY <2>2, <2>3 DEF Listed
  <2>4. CASE lru' = ToFront(b)
    <3> DEFINE l == ToFront(b)
    <3>1. l \in [Bufs -> Bufs] /\ \A c \in Bufs : \E i \in Bufs : l[i] = c
      BY <2>2, <1>2, ToFrontLists, ZenonT(30)
    <3> HIDE DEF l
    <3>2. lru' = l BY <2>4 DEF l
    <3> QED BY <3>1, <3>2 DEF Listed
  <2> QED BY <2>1, <2>3, <2>4
<1>4. ASSUME NEW c \in Bufs PROVE IsFiniteSet(Users(c)) BY RoomAssumption, FS_Subset DEF Users
<1>5. Cardinality(Users(b)) = refcnt[b] /\ p \in Users(b) /\ refcnt[b] # 0
  <2>1. Cardinality(Users(b)) = refcnt[b] /\ p \in Users(b) BY <1>1, <1>2 DEF BcacheInv, Referenced, Users
  <2> QED BY <2>1, <1>2, <1>4, FS_EmptySet
<1>6. Typed' BY <1>1, <1>2, <1>5 DEF Typed, diskVars
<1>7. Running' /\ OneBufferPerBlock' /\ LockSleeperWaits' /\ Asked'
  BY <1>1, <1>2 DEF BcacheInv, Typed, Running, OneBufferPerBlock, LockSleeperWaits, Asked
<1>8. Flags' /\ Clean' BY <1>1, <1>2 DEF BcacheInv, Typed, Flags, Clean, Ready, diskVars
<1>9. LockHeld' BY <1>1, <1>2 DEF BcacheInv, Typed, LockHeld, Locking
<1>10. Queued' /\ Commanded' BY <1>1, <1>2, SameRequests DEF Typed
<1>11. LogPins'
  <2>1. Pinned' \subseteq Pinned BY <1>1, <1>2 DEF Pinned, Typed
  <2> QED BY <2>1, FewerPins
<1>12. Referenced'
  <2> SUFFICES ASSUME NEW c \in Bufs PROVE refcnt'[c] = Cardinality(Users(c)') BY DEF Referenced
  <2>1. CASE c # b
    <3>1. Users(c)' = Users(c) BY <2>1, <1>1, <1>2 DEF Users, Typed
    <3> QED BY <3>1, <2>1, <1>1, <1>2 DEF BcacheInv, Referenced, Typed
  <2>2. CASE c = b
    <3> DEFINE U == Users(c)  V == Users(c)'
    <3>1. V = U \ {p} BY <2>2, <1>1, <1>2 DEF Users, Typed
    <3>2. p \in U /\ IsFiniteSet(U) BY <2>2, <1>4, <1>5
    <3> HIDE DEF U, V
    <3>3. Cardinality(V) = Cardinality(U) - 1 BY ONLY <3>1, <3>2, FS_RemoveElement, Zenon
    <3>4. Cardinality(Users(c)') = Cardinality(Users(c)) - 1 BY <3>3 DEF U, V
    <3> QED BY <3>4, <2>2, <1>1, <1>2, <1>5 DEF Typed
  <2> QED BY <2>1, <2>2
<1> QED BY <1>3, <1>6, <1>7, <1>8, <1>9, <1>10, <1>11, <1>12 DEF BcacheInv


-----------------------------------------------------------------------------
(* The holder of a buffer changes it.                                      *)

LEMMA BwriteStep ==
  ASSUME BcacheInv, NEW p \in Procs, NEW v \in Values, bwrite(p, v)
  PROVE  BcacheInv'
<1> DEFINE b == buf[p]
<1>1. /\ pc[p] = "held" /\ holder[b] = p /\ pc' = [pc EXCEPT ![p] = "iderw"]
      /\ data' = [data EXCEPT ![b] = v] /\ dirty' = [dirty EXCEPT ![b] = TRUE]
      /\ UNCHANGED <<lru, blockno, valid, refcnt, holder, want, buf>> /\ UNCHANGED diskVars
  <2>1. pc[p] = "held" /\ holder[b] = p BY DEF bwrite, BcacheInv, LockHeld, Locking
  <2> QED BY <2>1, ZenonT(30) DEF bwrite, Change, Goto
<1>2. Listed' /\ Typed /\ b \in Bufs /\ valid[b] BY <1>1 DEF BcacheInv, Listed, Typed, Flags
<1>3. \A q \in Procs : q # p /\ pc[q] \in Locking => buf[q] # b
  BY <1>1, Exclusive DEF BcacheInv, Locking
<1>4. Typed' BY <1>1, <1>2 DEF Typed, diskVars
<1>5. Running' /\ LockSleeperWaits' BY <1>1, <1>2 DEF BcacheInv, Typed, Running, LockSleeperWaits
<1>6. Flags' BY <1>1, <1>2, <1>3 DEF BcacheInv, Typed, Flags, Ready, Locking
<1>7. Clean' BY <1>1, <1>2 DEF BcacheInv, Typed, Clean, Ready, diskVars
<1>8. LockHeld' BY <1>1, <1>2 DEF BcacheInv, Typed, LockHeld, Locking
<1>9. Queued' /\ Commanded'
  <2>1. \A q \in Procs : pc[q] = "iosleep" => buf[q] # b BY <1>1, <1>3 DEF Locking
  <2> QED BY <2>1, <1>1, <1>2, SameRequests, ZenonT(30) DEF Typed
<1>10. LogPins'
  <2>1. Pinned' \subseteq Pinned BY <1>1, <1>2 DEF Pinned, Typed
  <2> QED BY <2>1, FewerPins
<1>11. Referenced' /\ Asked' /\ OneBufferPerBlock' BY <1>1, <1>2, SameUsers DEF Typed
<1> QED BY <1>2, <1>4, <1>5, <1>6, <1>7, <1>8, <1>9, <1>10, <1>11 DEF BcacheInv

LEMMA LogWriteStep ==
  ASSUME BcacheInv, NEW p \in Procs, NEW v \in Values, log_write(p, v)
  PROVE  BcacheInv'
<1> DEFINE b == buf[p]
           D == {c \in Bufs : dirty[c]} \cup {b}
<1>1. /\ pc[p] = "held" /\ Cardinality(D) <= MaxPinned
      /\ data' = [data EXCEPT ![b] = v] /\ dirty' = [dirty EXCEPT ![b] = TRUE]
      /\ UNCHANGED <<lru, blockno, valid, refcnt, holder, pc, want, buf>> /\ UNCHANGED diskVars
  BY DEF log_write, Change
<1>2. Listed' /\ Typed /\ b \in Bufs /\ valid[b] BY <1>1 DEF BcacheInv, Listed, Typed, Flags
<1>3. \A q \in Procs : q # p /\ pc[q] \in Locking => buf[q] # b
  BY <1>1, Exclusive DEF BcacheInv, Locking
<1>4. Typed' BY <1>1, <1>2 DEF Typed, diskVars
<1>5. Running' /\ LockSleeperWaits' BY <1>1, <1>2 DEF BcacheInv, Typed, Running, LockSleeperWaits
<1>6. Flags' BY <1>1, <1>2, <1>3 DEF BcacheInv, Typed, Flags, Ready, Locking
<1>7. Clean' BY <1>1, <1>2 DEF BcacheInv, Typed, Clean, Ready, diskVars
<1>8. LockHeld' BY <1>1, <1>2 DEF BcacheInv, Typed, LockHeld, Locking
<1>9. Queued' /\ Commanded'
  <2>1. \A q \in Procs : pc[q] = "iosleep" => buf[q] # b BY <1>1, <1>3 DEF Locking
  <2> QED BY <2>1, <1>1, <1>2, SameRequests, Zenon DEF Typed
<1>10. LogPins'
  <2>1. Pinned' \subseteq D BY <1>1, <1>2 DEF Pinned, Typed
  <2>2. IsFiniteSet(D)
    <3>1. IsFiniteSet(Bufs) BY SizeAssumption, FS_Interval DEF Bufs
    <3>2. D \in SUBSET Bufs BY <1>2
    <3> HIDE DEF D
    <3> QED BY <3>1, <3>2, FS_Subset
  <2>3. Cardinality(D) <= MaxPinned BY <1>1
  <2> HIDE DEF D
  <2>4. IsFiniteSet(Pinned') /\ Cardinality(Pinned') <= Cardinality(D) BY <2>1, <2>2, FS_Subset
  <2>5. Cardinality(D) \in Nat /\ Cardinality(Pinned') \in Nat BY <2>2, <2>4, FS_CardinalityType
  <2> QED BY <2>3, <2>4, <2>5, SizeAssumption DEF LogPins
<1>11. Referenced' /\ Asked' /\ OneBufferPerBlock' BY <1>1, <1>2, SameUsers DEF Typed
<1> QED BY <1>2, <1>4, <1>5, <1>6, <1>7, <1>8, <1>9, <1>10, <1>11 DEF BcacheInv

LEMMA WokenStep ==
  ASSUME BcacheInv, NEW p \in Procs, iderw_woken(p)
  PROVE  BcacheInv'
<1>1. /\ pc[p] = "iowoken" /\ pc' = [pc EXCEPT ![p] = "held"] /\ Ready(buf[p])
      /\ UNCHANGED bufVars /\ UNCHANGED diskVars /\ UNCHANGED <<want, buf>>
  BY ZenonT(30) DEF iderw_woken, Goto, BcacheInv, Flags
<1>2. UNCHANGED <<lru, blockno, valid, dirty, refcnt, data, holder>> BY <1>1 DEF bufVars
<1>3. Listed' /\ Typed BY <1>2 DEF BcacheInv, Listed
<1>4. Typed' BY <1>1, <1>2, <1>3 DEF Typed, diskVars
<1>5. Running' /\ LockSleeperWaits'
  BY <1>1, <1>2, <1>3 DEF BcacheInv, Typed, Running, LockSleeperWaits
<1>6. Flags' /\ Clean'
  BY <1>1, <1>2, <1>3 DEF BcacheInv, Typed, Flags, Clean, Ready, diskVars
<1>7. LockHeld' BY <1>1, <1>2, <1>3 DEF BcacheInv, Typed, LockHeld, Locking
<1>8. Queued' /\ Commanded' BY <1>1, <1>2, <1>3, SameRequests DEF Typed
<1>9. LogPins'
  <2>1. Pinned' \subseteq Pinned BY <1>1, <1>2, <1>3 DEF Pinned, Typed
  <2> QED BY <2>1, FewerPins
<1>10. Referenced' /\ Asked' /\ OneBufferPerBlock' BY <1>1, <1>2, <1>3, SameUsers DEF Typed
<1> QED BY <1>3, <1>4, <1>5, <1>6, <1>7, <1>8, <1>9, <1>10 DEF BcacheInv


-----------------------------------------------------------------------------
(* The driver.                                                             *)

\* What idestart() tells the disk.
LEMMA StartedCommand ==
  ASSUME NEW b \in Bufs, blockno[b] \in Blocks, data[b] \in Values
  PROVE  /\ Started(b) \in Commands /\ Started(b).block = blockno[b] /\ ~Started(b).done
         /\ IF dirty[b] THEN Started(b).op = "write" /\ Started(b).data = data[b]
                        ELSE Started(b).op = "read"
<1>1. CASE dirty[b] BY <1>1 DEF Started, Commands
<1>2. CASE ~dirty[b] BY <1>2 DEF Started, Commands
<1> QED BY <1>1, <1>2

LEMMA IderwStep ==
  ASSUME BcacheInv, NEW p \in Procs, iderw(p)
  PROVE  BcacheInv'
<1> DEFINE b == buf[p]
<1>1. pc[p] = "iderw" /\ holder[b] = p /\ ~Ready(b) BY DEF iderw, BcacheInv, LockHeld, Locking, Flags
<1>2. /\ pc' = [pc EXCEPT ![p] = "iosleep"]
      /\ idequeue' = Append(idequeue, b)
      /\ cmd' = IF idequeue = <<>> THEN Started(b) ELSE cmd
      /\ UNCHANGED <<lru, blockno, valid, dirty, refcnt, data, holder, disk, want, buf>>
  BY <1>1 DEF iderw, Goto, bufVars
<1>3. Listed' /\ Typed /\ b \in Bufs BY <1>2 DEF BcacheInv, Listed, Typed
<1>4. /\ idequeue' \in Seq(Bufs) /\ Len(idequeue') = Len(idequeue) + 1 /\ Len(idequeue) \in Nat
      /\ \A i \in 1..Len(idequeue) : idequeue'[i] = idequeue[i]
      /\ idequeue'[Len(idequeue) + 1] = b
  <2>1. idequeue \in Seq(Bufs) BY <1>3 DEF Typed
  <2> QED BY <2>1, <1>2, <1>3
<1>5. Typed' BY <1>2, <1>3, <1>4 DEF Typed
<1>6. Running' /\ LockSleeperWaits'
  BY <1>1, <1>2, <1>3 DEF BcacheInv, Typed, Running, LockSleeperWaits
<1>7. Flags' /\ Clean' BY <1>1, <1>2, <1>3 DEF BcacheInv, Typed, Flags, Clean, Ready
<1>8. LockHeld' BY <1>1, <1>2, <1>3 DEF BcacheInv, Typed, LockHeld, Locking
<1>9. Queued'
  <2>1. \A i \in 1..Len(idequeue) : idequeue[i] # b
    <3> SUFFICES ASSUME NEW i \in 1..Len(idequeue), idequeue[i] = b PROVE FALSE OBVIOUS
    <3>1. PICK q \in Procs : pc[q] = "iosleep" /\ buf[q] = b BY ZenonT(30) DEF BcacheInv, Queued
    <3>2. p = q BY <3>1, <1>1, Exclusive, ZenonT(30) DEF BcacheInv, Locking
    <3> QED BY <3>1, <3>2, <1>1
  <2>2. \A i \in 1..Len(idequeue') : i \in 1..Len(idequeue) \/ i = Len(idequeue) + 1
    <3>1. Len(idequeue') = Len(idequeue) + 1 /\ Len(idequeue) \in Nat BY <1>4
    <3> QED BY ONLY <3>1
  <2>3. \A i, j \in 1..Len(idequeue') : idequeue'[i] = idequeue'[j] => i = j
    BY <2>1, <2>2, <1>4 DEF BcacheInv, Queued
  <2>4. \A i \in 1..Len(idequeue') : \E q \in Procs : pc'[q] = "iosleep" /\ buf[q] = idequeue'[i]
    <3> SUFFICES ASSUME NEW i \in 1..Len(idequeue')
                 PROVE  \E q \in Procs : pc'[q] = "iosleep" /\ buf[q] = idequeue'[i]
      OBVIOUS
    <3>1. CASE i = Len(idequeue) + 1 BY <3>1, <1>2, <1>3, <1>4 DEF Typed
    <3>2. CASE i \in 1..Len(idequeue)
      <4>1. PICK q \in Procs : pc[q] = "iosleep" /\ buf[q] = idequeue[i] BY <3>2 DEF BcacheInv, Queued
      <4> QED BY <4>1, <3>2, <1>2, <1>3, <1>4 DEF Typed
    <3> QED BY <3>1, <3>2, <2>2
  <2>5. \A q \in Procs : pc'[q] = "iosleep" => \E i \in 1..Len(idequeue') : buf[q] = idequeue'[i]
    <3> SUFFICES ASSUME NEW q \in Procs, pc'[q] = "iosleep"
                 PROVE  \E i \in 1..Len(idequeue') : buf[q] = idequeue'[i]
      OBVIOUS
    <3>1. CASE q = p BY <3>1, <1>4
    <3>2. CASE q # p
      <4>1. PICK i \in 1..Len(idequeue) : buf[q] = idequeue[i]
        BY <3>2, <1>2, <1>3 DEF BcacheInv, Queued, Typed
      <4>2. i \in 1..Len(idequeue') BY <1>4
      <4> QED BY <4>1, <4>2, <1>4
    <3> QED BY <3>1, <3>2
  <2> QED BY <2>3, <2>4, <2>5, <1>2, ZenonT(30) DEF Queued
<1>10. Commanded'
  <2>1. idequeue' # <<>> BY <1>3, <1>2 DEF Typed
  <2>2. CASE idequeue = <<>>
    <3>1. Head(idequeue') = b BY <2>2, <1>2, <1>3
    <3>2. blockno[b] \in Blocks /\ data[b] \in Values BY <1>1, <1>3, ZenonT(30) DEF BcacheInv, Asked, Typed
    <3>3. cmd' = Started(b) BY <2>2, <1>2
    <3> HIDE DEF b
    <3>4. /\ cmd' \in Commands /\ cmd'.block = blockno[b] /\ ~cmd'.done
          /\ IF dirty[b] THEN cmd'.op = "write" /\ cmd'.data = data[b] ELSE cmd'.op = "read"
      BY <3>2, <3>3, <1>3, StartedCommand
    <3> QED BY <2>1, <3>1, <3>4, <1>2, Zenon DEF Commanded
  <2>3. CASE idequeue # <<>>
    <3>1. Head(idequeue') = Head(idequeue) BY <2>3, <1>2, <1>3 DEF Typed
    <3> QED BY <2>1, <2>3, <3>1, <1>2 DEF BcacheInv, Commanded
  <2> QED BY <2>2, <2>3
<1>11. LogPins'
  <2>1. Pinned' \subseteq Pinned BY <1>1, <1>2, <1>3 DEF Pinned, Typed
  <2> QED BY <2>1, FewerPins
<1>12. Referenced' /\ Asked' /\ OneBufferPerBlock' BY <1>1, <1>2, <1>3, SameUsers DEF Typed
<1> QED BY <1>3, <1>5, <1>6, <1>7, <1>8, <1>9, <1>10, <1>11, <1>12 DEF BcacheInv

LEMMA DoneCommand ==
  ASSUME NEW c \in Commands
  PROVE  LET d == [c EXCEPT !.done = TRUE]
         IN  d \in Commands /\ d.op = c.op /\ d.block = c.block /\ (c.op = "write" => d.data = c.data)
<1>1. CASE c \in [op : {"write"}, block : Blocks, data : Values, done : BOOLEAN]
  BY <1>1, Zenon DEF Commands
<1>2. CASE c \in [op : {"read"}, block : Blocks, done : BOOLEAN]
  BY <1>2, Zenon DEF Commands
<1> QED BY <1>1, <1>2 DEF Commands

LEMMA CompleteStep ==
  ASSUME BcacheInv, Complete
  PROVE  BcacheInv'
<1> DEFINE b == Head(idequeue)
<1>1. /\ cmd.op # "none" /\ ~cmd.done
      /\ disk' = IF cmd.op = "write" THEN [disk EXCEPT ![cmd.block] = cmd.data] ELSE disk
      /\ cmd' = [cmd EXCEPT !.done = TRUE]
      /\ UNCHANGED <<lru, blockno, valid, dirty, refcnt, data, holder, idequeue, pc, want, buf>>
  BY DEF Complete, bufVars
<1>2. Listed' /\ Typed BY <1>1 DEF BcacheInv, Listed
<1>3. idequeue # <<>>
  <2>1. cmd # NoCmd BY ONLY <1>1 DEF NoCmd
  <2>2. Commanded BY DEF BcacheInv
  <2> QED BY ONLY <2>1, <2>2, Zenon DEF Commanded
<1>4. PICK q \in Procs : pc[q] = "iosleep" /\ buf[q] = b BY <1>3, HeadQueued
<1> HIDE DEF b
<1>5. b \in Bufs /\ blockno[b] \in Blocks /\ (dirty[b] => valid[b])
  <2>1. b \in Bufs BY <1>2, <1>4 DEF Typed
  <2>2. blockno[b] \in Blocks BY <1>4 DEF BcacheInv, Asked
  <2> QED BY <2>1, <2>2 DEF BcacheInv, Clean
<1>6. /\ cmd \in Commands /\ cmd.block = blockno[b]
      /\ IF dirty[b] THEN cmd.op = "write" /\ cmd.data = data[b] ELSE cmd.op = "read"
  BY <1>3 DEF BcacheInv, Commanded, b
<1>7. disk' = IF dirty[b] THEN [disk EXCEPT ![blockno[b]] = data[b]] ELSE disk
  BY <1>1, <1>6, Zenon
<1>8. /\ cmd' \in Commands /\ cmd'.block = blockno[b]
      /\ IF dirty[b] THEN cmd'.op = "write" /\ cmd'.data = data[b] ELSE cmd'.op = "read"
  BY <1>1, <1>6, DoneCommand
<1>9. Typed'
  <2>1. disk' \in [Blocks -> Values] BY <1>2, <1>5, <1>7 DEF Typed
  <2> QED BY <2>1, <1>1, <1>2 DEF Typed
<1>10. Clean'
  <2>1. \A c \in Bufs : Ready(c) => disk'[blockno[c]] = disk[blockno[c]]
    BY <1>2, <1>5, <1>7, NoneAssumption, Zenon DEF BcacheInv, OneBufferPerBlock, Clean, Ready, Typed
  <2> QED BY <2>1, <1>1 DEF BcacheInv, Clean, Ready
<1>11. Commanded'
  <2>1. dirty[b] => disk'[blockno[b]] = data[b] BY <1>2, <1>5, <1>7 DEF Typed
  <2>2. idequeue' # <<>> /\ Head(idequeue') = b BY <1>1, <1>3 DEF b
  <2> QED BY <2>1, <2>2, <1>1, <1>8 DEF Commanded
<1>12. Queued' /\ Running' /\ OneBufferPerBlock' /\ LockSleeperWaits' /\ LockHeld' /\ Asked' /\ Flags'
  BY <1>1 DEF BcacheInv, Queued, Running, OneBufferPerBlock, LockSleeperWaits, LockHeld, Asked, Flags, Ready
<1>13. LogPins'
  <2>1. Pinned' \subseteq Pinned BY <1>1 DEF Pinned
  <2> QED BY <2>1, FewerPins
<1>14. Referenced' BY <1>1, SameUsers
<1> QED BY <1>2, <1>9, <1>10, <1>11, <1>12, <1>13, <1>14 DEF BcacheInv


LEMMA IntrStep ==
  ASSUME BcacheInv, ideintr
  PROVE  BcacheInv'
<1> DEFINE b == Head(idequeue)
           t == Tail(idequeue)
<1>1. /\ cmd.op # "none" /\ cmd.done /\ idequeue # <<>>
      /\ idequeue' = t
      /\ data' = IF dirty[b] THEN data ELSE [data EXCEPT ![b] = disk[cmd.block]]
      /\ valid' = [valid EXCEPT ![b] = TRUE]
      /\ dirty' = [dirty EXCEPT ![b] = FALSE]
      /\ pc' = [q \in Procs |-> IF pc[q] = "iosleep" /\ buf[q] = b THEN "iowoken" ELSE pc[q]]
      /\ cmd' = IF t = <<>> THEN NoCmd ELSE Started(Head(t))
      /\ UNCHANGED <<lru, blockno, refcnt, holder, disk, want, buf>>
  BY DEF ideintr, NextCmd
<1>2. Listed' /\ Typed BY <1>1 DEF BcacheInv, Listed
<1>3. PICK p \in Procs : pc[p] = "iosleep" /\ buf[p] = b BY <1>1, HeadQueued
<1>4. /\ t \in Seq(Bufs) /\ Len(t) = Len(idequeue) - 1 /\ Len(idequeue) \in Nat \ {0}
      /\ \A i \in 1..Len(t) : t[i] = idequeue[i + 1]
      /\ b = idequeue[1]
  <2>1. idequeue \in Seq(Bufs) /\ idequeue # <<>> BY <1>1, <1>2 DEF Typed
  <2> QED BY <2>1
<1> HIDE DEF b, t
<1>5. b \in Bufs /\ blockno[b] \in Blocks
  <2>1. b \in Bufs BY <1>2, <1>3 DEF Typed
  <2>2. blockno[b] \in Blocks BY <1>3 DEF BcacheInv, Asked
  <2> QED BY <2>1, <2>2
<1>6. /\ cmd.block = blockno[b]
      /\ dirty[b] => disk[blockno[b]] = data[b] BY <1>1 DEF BcacheInv, Commanded, b
<1>7. data'[b] = disk[blockno[b]] /\ \A c \in Bufs : c # b => data'[c] = data[c]
  BY <1>1, <1>2, <1>5, <1>6 DEF Typed
<1>8. Typed'
  <2>1. data' \in [Bufs -> Values] BY <1>1, <1>2, <1>5, <1>6 DEF Typed
  <2>2. valid' \in [Bufs -> BOOLEAN] /\ dirty' \in [Bufs -> BOOLEAN] BY <1>1, <1>2, ZenonT(30) DEF Typed
  <2>3. pc' \in [Procs -> {"idle", "lock", "locksleep", "held", "iderw", "iosleep",
                           "iowoken", "unref", "panic"}]
    BY <1>1, <1>2 DEF Typed
  <2> QED BY <2>1, <2>2, <2>3, <1>1, <1>2, <1>4 DEF Typed
<1>9. \A q \in Procs : q # p /\ pc[q] \in Locking => buf[q] # b
  BY <1>3, Exclusive DEF BcacheInv, Locking
<1>10. pc' = [pc EXCEPT ![p] = "iowoken"]
  <2>1. \A q \in Procs : pc[q] = "iosleep" /\ buf[q] = b => q = p BY <1>9 DEF Locking
  <2> QED BY <2>1, <1>1, <1>2, <1>3, ZenonT(30) DEF Typed
<1>11. Running' /\ LockSleeperWaits'
  BY <1>1, <1>2, <1>10 DEF BcacheInv, Typed, Running, LockSleeperWaits
<1>12. Flags'
  <2> SUFFICES ASSUME NEW q \in Procs
               PROVE  /\ pc'[q] = "held" => valid'[buf[q]]
                      /\ pc'[q] = "iowoken" => valid'[buf[q]] /\ ~dirty'[buf[q]]
                      /\ pc'[q] \in {"iderw", "iosleep"} => ~(valid'[buf[q]] /\ ~dirty'[buf[q]])
    BY <1>1 DEF Flags, Ready
  <2>1. CASE q = p BY <2>1, <1>1, <1>2, <1>3, <1>5, <1>10 DEF Typed
  <2>2. CASE q # p
    <3>1. pc'[q] = pc[q] BY <2>2, <1>2, <1>10 DEF Typed
    <3>2. CASE pc[q] \in Locking
      <4>1. valid'[buf[q]] = valid[buf[q]] /\ dirty'[buf[q]] = dirty[buf[q]]
        BY <3>2, <2>2, <1>1, <1>2, <1>9, Zenon DEF Typed
      <4> QED BY <3>1, <4>1, ZenonT(30) DEF BcacheInv, Flags, Ready
    <3> QED BY <3>1, <3>2 DEF Locking
  <2> QED BY <2>1, <2>2
<1>13. Clean' BY <1>1, <1>2, <1>5, <1>7, ZenonT(30) DEF BcacheInv, Typed, Clean, Ready
<1>14. LockHeld'
  <2>1. \A q \in Procs : pc'[q] \in Locking <=> pc[q] \in Locking BY <1>2, <1>3, <1>10 DEF Typed, Locking
  <2>2. LockHeld BY DEF BcacheInv
  <2>3. \A q \in Procs : pc'[q] \in Locking => holder[buf[q]] = q BY <2>1, <2>2 DEF LockHeld
  <2>4. \A c \in Bufs : holder[c] # None => pc'[holder[c]] \in Locking /\ buf[holder[c]] = c
    BY <2>1, <2>2, <1>2 DEF LockHeld, Typed
  <2> QED BY <2>3, <2>4, <1>1, ZenonT(30) DEF LockHeld
<1>15. Queued'
  <2>0. Len(t) = Len(idequeue) - 1 /\ Len(idequeue) \in Nat \ {0} BY <1>4
  <2>1. \A i \in 1..Len(t) : i + 1 \in 1..Len(idequeue) /\ i + 1 # 1 BY ONLY <2>0
  <2>2. 1 \in 1..Len(idequeue) BY ONLY <2>0
  <2>3. \A i \in 1..Len(t) : t[i] # b
    <3> SUFFICES ASSUME NEW i \in 1..Len(t), t[i] = b PROVE FALSE OBVIOUS
    <3>1. idequeue[i + 1] = idequeue[1] BY <1>4
    <3>2. i + 1 = 1 BY <3>1, <2>1, <2>2 DEF BcacheInv, Queued
    <3> QED BY <3>2, <2>1
  <2>4. \A i, j \in 1..Len(t) : t[i] = t[j] => i = j
    <3> SUFFICES ASSUME NEW i \in 1..Len(t), NEW j \in 1..Len(t), t[i] = t[j] PROVE i = j OBVIOUS
    <3>1. idequeue[i + 1] = idequeue[j + 1] BY <1>4
    <3>2. i + 1 = j + 1 BY <3>1, <2>1 DEF BcacheInv, Queued
    <3> QED BY <3>2
  <2>5. \A i \in 1..Len(t) : \E q \in Procs : pc'[q] = "iosleep" /\ buf[q] = t[i]
    <3> SUFFICES ASSUME NEW i \in 1..Len(t) PROVE \E q \in Procs : pc'[q] = "iosleep" /\ buf[q] = t[i]
      OBVIOUS
    <3>1. PICK q \in Procs : pc[q] = "iosleep" /\ buf[q] = idequeue[i + 1] BY <2>1 DEF BcacheInv, Queued
    <3>2. buf[q] = t[i] /\ t[i] # b BY <3>1, <2>3, <1>4
    <3> QED BY <3>1, <3>2, <1>1
  <2>6. \A q \in Procs : pc'[q] = "iosleep" => \E i \in 1..Len(t) : buf[q] = t[i]
    <3> SUFFICES ASSUME NEW q \in Procs, pc'[q] = "iosleep" PROVE \E i \in 1..Len(t) : buf[q] = t[i]
      OBVIOUS
    <3>1. pc[q] = "iosleep" /\ buf[q] # b BY <1>1
    <3>2. PICK j \in 1..Len(idequeue) : buf[q] = idequeue[j] BY <3>1 DEF BcacheInv, Queued
    <3>3. j # 1 BY <3>1, <3>2, <1>4
    <3>4. j - 1 \in 1..Len(t) /\ (j - 1) + 1 = j BY <3>3, <1>4
    <3> QED BY <3>2, <3>4, <1>4, ZenonT(30)
  <2> QED BY <2>4, <2>5, <2>6, <1>1, ZenonT(30) DEF Queued
<1>16. Commanded'
  <2>1. CASE t = <<>> BY <2>1, <1>1 DEF Commanded
  <2>2. CASE t # <<>>
    <3> DEFINE c == Head(t)
    <3>1. c \in Bufs /\ c # b
      <4>1. c = t[1] /\ 1 \in 1..Len(t) /\ 1 + 1 \in 1..Len(idequeue) /\ 1 \in 1..Len(idequeue)
        BY <2>2, <1>4
      <4>2. t[1] = idequeue[1 + 1] BY <4>1, <1>4
      <4>3. idequeue[1 + 1] # idequeue[1] BY <4>1 DEF BcacheInv, Queued
      <4> QED BY <4>1, <4>2, <4>3, <1>4
    <3> HIDE DEF c
    <3>2. dirty'[c] = dirty[c] /\ data'[c] = data[c] BY <3>1, <1>1, <1>2, <1>7 DEF Typed
    <3>3. cmd' = Started(c) BY <2>2, <1>1 DEF c
    <3>4. idequeue' # <<>> /\ Head(idequeue') = c /\ blockno' = blockno BY <2>2, <1>1 DEF c
    <3>5. PICK q \in Procs : pc[q] = "iosleep" /\ buf[q] = c
      <4>1. 1 \in 1..Len(t) /\ c = t[1] /\ 1 + 1 \in 1..Len(idequeue) BY <2>2, <1>4 DEF c
      <4> QED BY <4>1, <1>4 DEF BcacheInv, Queued
    <3>6. blockno[c] \in Blocks /\ data[c] \in Values
      BY <3>1, <3>5, <1>2, ZenonT(30) DEF BcacheInv, Asked, Typed
    <3>7. /\ cmd' \in Commands /\ cmd'.block = blockno[c] /\ ~cmd'.done
          /\ IF dirty[c] THEN cmd'.op = "write" /\ cmd'.data = data[c] ELSE cmd'.op = "read"
      BY <3>1, <3>3, <3>6, StartedCommand, Zenon
    <3> QED BY <3>2, <3>4, <3>7 DEF Commanded
  <2> QED BY <2>1, <2>2
<1>17. LogPins'
  <2>1. Pinned' \subseteq Pinned BY <1>1, <1>2, <1>3, <1>5, <1>10 DEF Pinned, Typed
  <2> QED BY <2>1, FewerPins
<1>18. Referenced' /\ Asked' /\ OneBufferPerBlock'
  <2>1. \A q \in Procs : pc'[q] = "idle" <=> pc[q] = "idle" BY <1>2, <1>3, <1>10 DEF Typed
  <2> QED BY <2>1, <1>1, SameUsers
<1> QED BY <1>2, <1>8, <1>11, <1>12, <1>13, <1>14, <1>15, <1>16, <1>17, <1>18 DEF BcacheInv


LEMMA StutterStep == BcacheInv /\ UNCHANGED vars => BcacheInv'
<1> SUFFICES ASSUME BcacheInv, UNCHANGED vars PROVE BcacheInv' OBVIOUS
<1>1. /\ UNCHANGED <<lru, blockno, valid, dirty, refcnt, data, holder, pc, want, buf>>
      /\ UNCHANGED <<idequeue, disk, cmd>>
  BY DEF vars, bufVars, diskVars
<1>2. Listed' /\ Typed' BY <1>1 DEF BcacheInv, Listed, Typed
<1>3. Running' /\ LockSleeperWaits' /\ LockHeld' /\ Flags' /\ Clean'
  BY <1>1, ZenonT(30) DEF BcacheInv, Running, LockSleeperWaits, LockHeld, Flags, Ready, Clean
<1>4. Queued' /\ Commanded' BY <1>1, SameRequests DEF diskVars
<1>5. LogPins'
  <2>1. Pinned' \subseteq Pinned BY <1>1 DEF Pinned
  <2> QED BY <2>1, FewerPins
<1>6. Referenced' /\ Asked' /\ OneBufferPerBlock' BY <1>1, SameUsers
<1> QED BY <1>2, <1>3, <1>4, <1>5, <1>6 DEF BcacheInv

LEMMA BcacheStep == BcacheInv /\ [Next]_vars => BcacheInv'
<1> SUFFICES ASSUME BcacheInv, Next PROVE BcacheInv' BY StutterStep
<1>1. CASE DiskStep BY <1>1, CompleteStep, IntrStep DEF DiskStep
<1>2. ASSUME NEW p \in Procs, Get(p) PROVE BcacheInv' BY <1>2, HitStep, RecycleStep DEF Get
<1>3. ASSUME NEW p \in Procs, Use(p) PROVE BcacheInv' BY <1>3, BwriteStep, LogWriteStep DEF Use
<1>4. ASSUME NEW p \in Procs, KernelStep(p) PROVE BcacheInv'
  BY <1>4, AcquireStep, IderwStep, WokenStep, ReleaseStep, BrelseStep DEF KernelStep
<1> QED BY <1>1, <1>2, <1>3, <1>4 DEF Next

LEMMA BcacheInvariant == Spec => []BcacheInv
BY InitBcache, BcacheStep, PTL DEF Spec

-----------------------------------------------------------------------------
(* What a block contains.                                                  *)

\* A block shows its valid buffer's data, or what is on the disk if it has none.
Shows ==
  \A k \in Blocks :
     /\ \A b \in Bufs : blockno[b] = k /\ valid[b] => Contents(k) = data[b]
     /\ (\A b \in Bufs : blockno[b] = k => ~valid[b]) => Contents(k) = disk[k]

LEMMA ContentsShow == BcacheInv => Shows
<1> SUFFICES ASSUME BcacheInv, NEW k \in Blocks
             PROVE  /\ \A b \in Bufs : blockno[b] = k /\ valid[b] => Contents(k) = data[b]
                    /\ (\A b \in Bufs : blockno[b] = k => ~valid[b]) => Contents(k) = disk[k]
  BY DEF Shows
<1>1. ASSUME NEW b \in Bufs, blockno[b] = k, valid[b] PROVE Contents(k) = data[b]
  <2>1. OneBufferPerBlock /\ k # None BY NoneAssumption DEF BcacheInv
  <2>2. b \in Cached(k) BY <1>1 DEF Cached
  <2>3. \A c \in Cached(k) : c = b BY <1>1, <2>1 DEF Cached, OneBufferPerBlock
  <2>4. (CHOOSE c \in Cached(k) : valid[c]) = b BY ONLY <2>2, <2>3, <1>1
  <2>5. \E c \in Cached(k) : valid[c] BY ONLY <2>2, <1>1
  <2> QED BY ONLY <2>4, <2>5, ZenonT(30) DEF Contents
<1>2. ASSUME \A b \in Bufs : blockno[b] = k => ~valid[b] PROVE Contents(k) = disk[k]
  <2>1. \A c \in Cached(k) : ~valid[c] BY <1>2 DEF Cached
  <2> QED BY ONLY <2>1 DEF Contents
<1> QED BY <1>1, <1>2

LEMMA ContentsShowNext == BcacheInv' => Shows'
BY ContentsShow, PTL

\* What a buffer or the disk shows, before and after a step.
LEMMA ContentsAre ==
  ASSUME BcacheInv, BcacheInv', NEW k \in Blocks
  PROVE  /\ \A b \in Bufs : blockno[b] = k /\ valid[b] => Contents(k) = data[b]
         /\ (\A b \in Bufs : blockno[b] = k => ~valid[b]) => Contents(k) = disk[k]
         /\ \A b \in Bufs : blockno'[b] = k /\ valid'[b] => Contents(k)' = data'[b]
         /\ (\A b \in Bufs : blockno'[b] = k => ~valid'[b]) => Contents(k)' = disk'[k]
<1>1. Shows BY ContentsShow
<1>2. Shows' BY ContentsShowNext
<1> QED BY ONLY <1>1, <1>2, k \in Blocks DEF Shows

LEMMA SameBuffer ==
  ASSUME BcacheInv, BcacheInv', NEW k \in Blocks, NEW b \in Bufs, blockno[b] = k, valid[b],
         blockno'[b] = k, valid'[b], data'[b] = data[b]
  PROVE  Contents(k)' = Contents(k)
<1>1. Contents(k) = data[b] BY ContentsAre, ZenonT(30)
<1>2. Contents(k)' = data'[b] BY ContentsAre
<1> QED BY ONLY <1>1, <1>2, data'[b] = data[b]

Unheld(k) == \A p \in Procs : ~(pc[p] = "held" /\ want[p] = k)

LEMMA RecycleShows ==
  ASSUME BcacheInv, BcacheInv', NEW k \in Blocks, NEW p \in Procs, NEW j \in Blocks, bget_recycle(p, j)
  PROVE  Contents(k)' = Contents(k)
<1>1. pc[p] = "idle" /\ Cached(j) = {} /\ UNCHANGED <<data, disk>> BY DEF bget_recycle, diskVars
<1>2. PICK i \in Victims : LET b == lru[i] IN
        blockno' = [blockno EXCEPT ![b] = j] /\ valid' = [valid EXCEPT ![b] = FALSE]
  BY <1>1, HasVictim DEF bget_recycle
<1> DEFINE b == lru[i]
<1>3. b \in Bufs /\ ~dirty[b] /\ Typed BY DEF Victims, Recyclable, BcacheInv, Listed
<1> HIDE DEF b
<1>4. blockno' = [blockno EXCEPT ![b] = j] /\ valid' = [valid EXCEPT ![b] = FALSE] BY <1>2 DEF b
<1>5. CASE \E c \in Bufs : c # b /\ blockno[c] = k /\ valid[c]
  <2>1. PICK c \in Bufs : c # b /\ blockno[c] = k /\ valid[c] BY <1>5
  <2>2. blockno'[c] = k /\ valid'[c] /\ data'[c] = data[c] BY <2>1, <1>1, <1>3, <1>4 DEF Typed
  <2> QED BY <2>1, <2>2, SameBuffer, ZenonT(30)
<1>6. CASE \A c \in Bufs : c # b => ~(blockno[c] = k /\ valid[c])
  <2>1. \A c \in Bufs : blockno'[c] = k => ~valid'[c] BY <1>3, <1>4, <1>6 DEF Typed
  <2>2. Contents(k)' = disk[k] BY <2>1, <1>1, ContentsAre, ZenonT(30)
  <2>3. CASE blockno[b] = k /\ valid[b]
    <3>1. Contents(k) = data[b] BY <2>3, <1>3, ContentsAre, ZenonT(30)
    <3>2. data[b] = disk[k] BY <2>3, <1>3, ZenonT(30) DEF BcacheInv, Clean, Ready
    <3> QED BY <2>2, <3>1, <3>2, ZenonT(30)
  <2>4. CASE ~(blockno[b] = k /\ valid[b])
    <3>1. Contents(k) = disk[k] BY <2>4, <1>6, ContentsAre, ZenonT(30)
    <3> QED BY <2>2, <3>1
  <2> QED BY <2>3, <2>4, ZenonT(30)
<1> QED BY <1>5, <1>6

LEMMA ChangeShows ==
  ASSUME BcacheInv, BcacheInv', NEW k \in Blocks, Unheld(k), NEW p \in Procs, NEW v \in Values,
         bwrite(p, v) \/ log_write(p, v)
  PROVE  Contents(k)' = Contents(k)
<1> DEFINE b == buf[p]
<1>1. pc[p] = "held" /\ data' = [data EXCEPT ![b] = v] /\ UNCHANGED <<blockno, valid, disk>>
  BY DEF bwrite, log_write, Change, diskVars
<1>2. b \in Bufs /\ Typed /\ blockno[b] # k
  <2>1. want[p] # k BY <1>1 DEF Unheld
  <2>2. blockno[b] = want[p] BY <1>1, ZenonT(30) DEF BcacheInv, Asked
  <2> QED BY <2>1, <2>2 DEF BcacheInv, Typed
<1>3. \A c \in Bufs : blockno[c] = k => data'[c] = data[c] BY <1>1, <1>2 DEF Typed
<1> HIDE DEF b
<1>4. CASE \E c \in Bufs : blockno[c] = k /\ valid[c] BY <1>1, <1>3, <1>4, SameBuffer, ZenonT(30)
<1>5. CASE \A c \in Bufs : blockno[c] = k => ~valid[c] BY <1>1, <1>5, ContentsAre, ZenonT(30)
<1> QED BY <1>4, <1>5

LEMMA CompleteShows ==
  ASSUME BcacheInv, BcacheInv', NEW k \in Blocks, Complete
  PROVE  Contents(k)' = Contents(k)
<1> DEFINE b == Head(idequeue)
<1>1. /\ cmd.op # "none" /\ UNCHANGED <<blockno, valid, data>>
      /\ disk' = IF cmd.op = "write" THEN [disk EXCEPT ![cmd.block] = cmd.data] ELSE disk
  BY DEF Complete, bufVars
<1>2. idequeue # <<>>
  <2>1. cmd # NoCmd BY ONLY <1>1 DEF NoCmd
  <2>2. Commanded BY DEF BcacheInv
  <2> QED BY ONLY <2>1, <2>2, Zenon DEF Commanded
<1>3. b \in Bufs BY ONLY BcacheInv, <1>2, HeadQueued
<1> HIDE DEF b
<1>4. cmd.op = "write" => cmd.block = blockno[b] /\ valid[b]
  BY <1>2, <1>3, ZenonT(30) DEF BcacheInv, Commanded, Clean, b
<1>5. CASE \E c \in Bufs : blockno[c] = k /\ valid[c] BY <1>1, <1>5, SameBuffer, ZenonT(30)
<1>6. CASE \A c \in Bufs : blockno[c] = k => ~valid[c]
  <2>1. disk'[k] = disk[k] BY <1>1, <1>3, <1>4, <1>6, ZenonT(30) DEF BcacheInv, Typed
  <2> QED BY <2>1, <1>1, <1>6, ContentsAre
<1> QED BY <1>5, <1>6, Zenon

LEMMA IntrShows ==
  ASSUME BcacheInv, BcacheInv', NEW k \in Blocks, ideintr
  PROVE  Contents(k)' = Contents(k)
<1> DEFINE b == Head(idequeue)
<1>1. /\ idequeue # <<>> /\ cmd.op # "none" /\ cmd.done
      /\ data' = IF dirty[b] THEN data ELSE [data EXCEPT ![b] = disk[cmd.block]]
      /\ valid' = [valid EXCEPT ![b] = TRUE] /\ UNCHANGED <<blockno, disk>>
  BY DEF ideintr
<1>2. PICK p \in Procs : pc[p] = "iosleep" /\ buf[p] = b BY <1>1, HeadQueued
<1>3. Typed /\ b \in Bufs /\ cmd.block = blockno[b] /\ (valid[b] <=> dirty[b])
  <2>1. Typed /\ b \in Bufs BY <1>1, HeadQueued, ZenonT(30) DEF BcacheInv
  <2>2. cmd.block = blockno[b] BY <1>1, ZenonT(30) DEF BcacheInv, Commanded
  <2>3. ~Ready(b) BY <1>2 DEF BcacheInv, Flags
  <2> QED BY <2>1, <2>2, <2>3, ZenonT(30) DEF BcacheInv, Clean, Ready, Typed
<1> HIDE DEF b
<1>4. CASE blockno[b] # k
  <2>1. \A c \in Bufs : blockno[c] = k => data'[c] = data[c] /\ valid'[c] = valid[c]
    BY <1>1, <1>3, <1>4, ZenonT(30) DEF Typed
  <2>2. CASE \E c \in Bufs : blockno[c] = k /\ valid[c]
    <3>1. PICK c \in Bufs : blockno[c] = k /\ valid[c] BY <2>2
    <3>2. blockno'[c] = k /\ valid'[c] /\ data'[c] = data[c] BY <3>1, <2>1, <1>1, Zenon
    <3> QED BY <3>1, <3>2, SameBuffer
  <2>3. CASE \A c \in Bufs : blockno[c] = k => ~valid[c] BY <2>1, <2>3, <1>1, ContentsAre, ZenonT(30)
  <2> QED BY <2>2, <2>3
<1>5. CASE blockno[b] = k
  <2>1. Contents(k)' = data'[b] BY <1>1, <1>3, <1>5, ContentsAre DEF Typed
  <2>2. CASE dirty[b] BY <2>1, <2>2, <1>1, <1>3, <1>5, ContentsAre, ZenonT(30)
  <2>3. CASE ~dirty[b]
    <3>1. \A c \in Bufs : blockno[c] = k => c = b
      BY <1>3, <1>5, NoneAssumption, ZenonT(30) DEF BcacheInv, OneBufferPerBlock
    <3>2. Contents(k) = disk[k] BY <2>3, <3>1, <1>3, ContentsAre, ZenonT(30)
    <3> QED BY <2>1, <2>3, <3>2, <1>1, <1>3, <1>5 DEF Typed
  <2> QED BY <2>2, <2>3
<1> QED BY <1>4, <1>5


LEMMA StepShows ==
  BcacheInv /\ BcacheInv' /\ [Next]_vars =>
    \A k \in Blocks : Contents(k)' # Contents(k) => \E p \in Procs : pc[p] = "held" /\ want[p] = k
<1> SUFFICES ASSUME BcacheInv, BcacheInv', [Next]_vars, NEW k \in Blocks, Unheld(k)
             PROVE  Contents(k)' = Contents(k)
  BY DEF Unheld
<1>1. ASSUME UNCHANGED <<blockno, valid, data, disk>> PROVE Contents(k)' = Contents(k)
  BY <1>1 DEF Contents, Cached
<1>2. CASE UNCHANGED vars BY <1>1, <1>2 DEF vars, bufVars, diskVars
<1>3. CASE DiskStep BY <1>3, CompleteShows, IntrShows DEF DiskStep
<1>4. ASSUME NEW p \in Procs, Get(p) PROVE Contents(k)' = Contents(k)
  <2>1. PICK j \in Blocks : bget_hit(p, j) \/ bget_recycle(p, j) BY <1>4 DEF Get
  <2>2. CASE bget_hit(p, j) BY <2>2, <1>1 DEF bget_hit, diskVars
  <2> QED BY <2>1, <2>2, RecycleShows
<1>5. ASSUME NEW p \in Procs, Use(p) PROVE Contents(k)' = Contents(k)
  BY <1>5, ChangeShows DEF Use
<1>6. ASSUME NEW p \in Procs, KernelStep(p) PROVE Contents(k)' = Contents(k)
  <2>1. UNCHANGED <<blockno, valid, data, disk>>
    BY <1>6, Zenon DEF KernelStep, acquiresleep, iderw, iderw_woken, releasesleep, brelse, bufVars, diskVars
  <2> QED BY <2>1, <1>1
<1> QED BY <1>2, <1>3, <1>4, <1>5, <1>6 DEF Next

-----------------------------------------------------------------------------
\* From bget() to brelse() a process has the one buffer of its block, locked and
\* valid once bread() returns, and none of bio.c's and ide.c's panics is reached,
\* for any number of processes that the log leaves a buffer each (bio.c:66-92).
THEOREM BufferKeptCorrect == Spec => []BufferKept
<1>1. BcacheInv => BufferKept
  <2> SUFFICES ASSUME BcacheInv PROVE BufferKept OBVIOUS
  <2>1. TypeOK BY DEF BcacheInv, Listed, Typed, TypeOK
  <2>2. \A p \in Procs : pc[p] # "idle" =>
          /\ blockno[buf[p]] = want[p]
          /\ pc[p] = "held" => holder[buf[p]] = p /\ valid[buf[p]]
    BY DEF BcacheInv, Asked, LockHeld, Locking, Flags
  <2> QED BY <2>1, <2>2 DEF BcacheInv, BufferKept
<1> QED BY <1>1, BcacheInvariant, PTL

\* The disk works on the first request of the queue and on nothing else, for any
\* number of requests (ide.c:108-128, 151-159).
THEOREM DiskServesHeadCorrect == Spec => []DiskServesHead
<1>1. BcacheInv => DiskServesHead
  <2> SUFFICES ASSUME BcacheInv PROVE DiskServesHead OBVIOUS
  <2>1. CASE idequeue = <<>> BY <2>1 DEF BcacheInv, Commanded, DiskServesHead, NoCmd
  <2>2. CASE idequeue # <<>>
    BY <2>2 DEF BcacheInv, Commanded, DiskServesHead
  <2> QED BY <2>1, <2>2
<1> QED BY <1>1, BcacheInvariant, PTL

\* No process sleeps for a sleep lock that nobody holds (sleeplock.c:26-40).
THEOREM LockSleeperWaitsCorrect == Spec => []LockSleeperWaits
<1>1. BcacheInv => LockSleeperWaits BY DEF BcacheInv
<1> QED BY <1>1, BcacheInvariant, PTL

\* A block's contents, in its buffer or on the disk, change only by the process
\* that holds its buffer: recycling, reading and writing lose no update, however
\* the requests of any number of processes interleave (bio.c:79-88, ide.c:94-123).
THEOREM OnlyHolderChangesCorrect == Spec => OnlyHolderChanges
<1>1. BcacheInv /\ BcacheInv' /\ [Next]_vars =>
        [\A k \in Blocks : Contents(k)' # Contents(k) =>
           \E p \in Procs : pc[p] = "held" /\ want[p] = k]_vars
  BY StepShows
<1> QED BY <1>1, BcacheInvariant, PTL DEF Spec, OnlyHolderChanges
=============================================================================
