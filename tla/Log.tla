-------------------------------- MODULE Log --------------------------------
(***************************************************************************)
(* The write-ahead log (log.c) over the buffer cache and the disk: begin_op,*)
(* log_write, end_op, commit, and recovery after a crash at any point.     *)
(*                                                                         *)
(* Every bwrite() is synchronous and one atomic disk write; a section of   *)
(* log.lock is one action.  A buffer holds its block's latest contents and *)
(* is pinned while B_DIRTY (bio.c:82); a buffer that is not pinned and not *)
(* in use may be recycled at any time.  The buffers of the log's own       *)
(* blocks always equal the disk and are left out.                          *)
(***************************************************************************)
EXTENDS Integers, Sequences, FiniteSets

CONSTANTS Blocks,       \* home blocks
          Values,       \* contents of a block
          Calls,        \* processes that make file system calls
          MAXOPBLOCKS,  \* what begin_op() reserves for a call
          OpWrites,     \* how many log_write()s a call makes at most
          NoValue       \* a block that is not cached

ASSUME SizesAssumption == /\ MAXOPBLOCKS \in Nat \ {0} /\ OpWrites \in Nat
                          /\ IsFiniteSet(Calls)
\* A call writes less than is reserved for it: three calls that wrote all of it
\* would fill the log's data blocks, of which there are only nlog - 1.
ASSUME BudgetAssumption == OpWrites < MAXOPBLOCKS
ASSUME ValuesAssumption == Values # {} /\ NoValue \notin Values \cup Blocks

LOGSIZE == MAXOPBLOCKS * 3
nlog    == LOGSIZE   \* blocks of the log on disk, its header included

VARIABLES home,        \* on disk: the blocks' home locations
          logd,        \* on disk: the log's data blocks, by tail
          hdr,         \* on disk: the log header
          cache,       \* buffer contents, or NoValue
          dirty,       \* blocks whose buffer has B_DIRTY
          lh,          \* log.lh
          outstanding, committing,
          pc, blk, left,  \* per call: position, the block being written, writes to go
          stage, tail  \* progress of commit() or recover_from_log()

diskVars == <<home, logd, hdr>>
bufVars  == <<cache, dirty>>
logVars  == <<lh, outstanding, committing>>
callVars == <<pc, blk, left>>
vars     == <<diskVars, bufVars, logVars, callVars, stage, tail>>

LogData == 0..nlog - 1   \* tails; tail nlog - 1 would lie beyond the log

Init ==
  /\ home \in [Blocks -> Values]
  /\ logd = [t \in LogData |-> CHOOSE v \in Values : TRUE]
  /\ hdr = <<>>
  /\ cache = [b \in Blocks |-> NoValue]
  /\ dirty = {}
  /\ lh = <<>> /\ outstanding = 0 /\ committing = FALSE
  /\ pc = [o \in Calls |-> "idle"]
  /\ blk = [o \in Calls |-> NoValue]
  /\ left = [o \in Calls |-> 0]
  /\ stage = "read_head" /\ tail = 0

Booting == stage \in {"read_head", "recover", "recovered"}
Stages  == {"read_head", "recover", "recovered",
            "none", "write_log", "write_head", "install", "erase", "done"}

\* A buffer some call has locked; only that call may touch it.
InUse(b) == \E o \in Calls : pc[o] \in {"write", "append"} /\ blk[o] = b

Woken_Nobody(f)   == f
\* wakeup(&log).
Woken(f) == [o \in Calls |-> IF f[o] = "asleep" THEN "begin" ELSE f[o]]

Logged(b) == \E i \in 1..Len(lh) : lh[i] = b

-----------------------------------------------------------------------------
(* File system calls.                                                      *)

Enter(o) ==
  /\ ~Booting /\ pc[o] = "idle"
  /\ pc' = [pc EXCEPT ![o] = "begin"]
  /\ UNCHANGED <<diskVars, bufVars, logVars, blk, left, stage, tail>>

HasRoom == Len(lh) + (outstanding + 1) * MAXOPBLOCKS <= LOGSIZE

MustWait_NotForCommit == ~HasRoom
MustWait == committing \/ ~HasRoom

begin_op(o) ==
  /\ pc[o] = "begin"
  /\ \/ /\ MustWait
        /\ pc' = [pc EXCEPT ![o] = "asleep"]
        /\ UNCHANGED <<outstanding, left>>
     \/ /\ ~MustWait
        /\ outstanding' = outstanding + 1
        /\ pc' = [pc EXCEPT ![o] = "active"]
        /\ left' = [left EXCEPT ![o] = OpWrites]
  /\ UNCHANGED <<diskVars, bufVars, lh, committing, blk, stage, tail>>

\* bread() by anyone: the buffer is filled from the disk.
bread(b) ==
  /\ ~Booting /\ cache[b] = NoValue
  /\ cache' = [cache EXCEPT ![b] = home[b]]
  /\ UNCHANGED <<diskVars, dirty, logVars, callVars, stage, tail>>

Recycle_Dirty(b) ==
  /\ cache[b] # NoValue /\ ~InUse(b)
  /\ cache' = [cache EXCEPT ![b] = NoValue]
  /\ UNCHANGED <<diskVars, dirty, logVars, callVars, stage, tail>>

\* bget() recycles a buffer.
Recycle(b) ==
  /\ cache[b] # NoValue /\ b \notin dirty /\ ~InUse(b)
  /\ cache' = [cache EXCEPT ![b] = NoValue]
  /\ UNCHANGED <<diskVars, dirty, logVars, callVars, stage, tail>>

\* The caller changes the locked buffer and calls log_write().
Modify(o, b, v) ==
  /\ pc[o] = "active" /\ left[o] > 0
  /\ cache[b] # NoValue /\ ~InUse(b)
  /\ cache' = [cache EXCEPT ![b] = v]
  /\ pc'  = [pc EXCEPT ![o] = "write"]
  /\ blk' = [blk EXCEPT ![o] = b]
  /\ left' = [left EXCEPT ![o] = left[o] - 1]
  /\ UNCHANGED <<diskVars, dirty, logVars, stage, tail>>

TooBig == Len(lh) >= LOGSIZE \/ Len(lh) >= nlog - 1

\* log_write()'s tests, made without log.lock.
log_write_check(o) ==
  /\ pc[o] = "write"
  /\ pc' = [pc EXCEPT ![o] = IF TooBig \/ outstanding < 1 THEN "panic" ELSE "append"]
  /\ UNCHANGED <<diskVars, bufVars, logVars, blk, left, stage, tail>>

\* log_write()'s section, then brelse().
log_write(o) ==
  /\ pc[o] = "append"
  /\ lh' = IF Logged(blk[o]) THEN lh ELSE Append(lh, blk[o])
  /\ dirty' = dirty \cup {blk[o]}
  /\ pc'  = [pc EXCEPT ![o] = "active"]
  /\ blk' = [blk EXCEPT ![o] = NoValue]
  /\ UNCHANGED <<diskVars, cache, outstanding, committing, left, stage, tail>>

end_op(o) ==
  /\ pc[o] = "active"
  /\ outstanding' = outstanding - 1
  /\ left' = [left EXCEPT ![o] = 0]
  /\ IF committing
     THEN pc' = [pc EXCEPT ![o] = "panic"] /\ UNCHANGED <<committing, stage>>
     ELSE IF outstanding = 1
     THEN /\ committing' = TRUE
          /\ pc' = [pc EXCEPT ![o] = "commit"]
          /\ stage' = IF lh = <<>> THEN "done" ELSE "write_log"
     ELSE pc' = Woken([pc EXCEPT ![o] = "idle"]) /\ UNCHANGED <<committing, stage>>
  /\ UNCHANGED <<diskVars, bufVars, lh, blk, tail>>

-----------------------------------------------------------------------------
(* commit(), one disk write at a time, by the call that ended last.        *)

write_log ==
  /\ stage = "write_log"
  /\ LET b == lh[tail + 1]
     IN  logd' = [logd EXCEPT ![tail] = IF cache[b] = NoValue THEN home[b] ELSE cache[b]]
  /\ tail'  = IF tail + 1 = Len(lh) THEN 0 ELSE tail + 1
  /\ stage' = IF tail + 1 = Len(lh) THEN "write_head" ELSE stage
  /\ UNCHANGED <<home, hdr, bufVars, logVars, callVars>>

write_head ==
  /\ stage = "write_head"
  /\ hdr' = lh
  /\ stage' = "install"
  /\ UNCHANGED <<home, logd, bufVars, logVars, callVars, tail>>

\* install_trans(), in commit() and in recovery: the destination's buffer is
\* overwritten, written and thereby clean.
Install(from, to) ==
  /\ stage = from
  /\ IF tail < Len(lh)
     THEN LET b == lh[tail + 1]
          IN  /\ home'  = [home EXCEPT ![b] = logd[tail]]
              /\ cache' = [cache EXCEPT ![b] = logd[tail]]
              /\ dirty' = dirty \ {b}
              /\ tail'  = tail + 1
              /\ UNCHANGED <<lh, stage>>
     ELSE /\ lh' = <<>> /\ tail' = 0 /\ stage' = to
          /\ UNCHANGED <<home, bufVars>>
  /\ UNCHANGED <<logd, hdr, outstanding, committing, callVars>>

install_trans == Install("install", "erase")

erase ==
  /\ stage = "erase"
  /\ hdr' = lh
  /\ stage' = "done"
  /\ UNCHANGED <<home, logd, bufVars, logVars, callVars, tail>>

end_commit(o) ==
  /\ pc[o] = "commit" /\ stage = "done"
  /\ committing' = FALSE
  /\ pc' = Woken([pc EXCEPT ![o] = "idle"])
  /\ stage' = "none"
  /\ UNCHANGED <<diskVars, bufVars, lh, outstanding, blk, left, tail>>

-----------------------------------------------------------------------------
(* A crash loses memory; the next boot runs initlog().                     *)

Crash ==
  /\ cache' = [b \in Blocks |-> NoValue] /\ dirty' = {}
  /\ lh' = <<>> /\ outstanding' = 0 /\ committing' = FALSE
  /\ pc' = [o \in Calls |-> "idle"]
  /\ blk' = [o \in Calls |-> NoValue] /\ left' = [o \in Calls |-> 0]
  /\ stage' = "read_head" /\ tail' = 0
  /\ UNCHANGED diskVars

read_head ==
  /\ stage = "read_head"
  /\ lh' = hdr
  /\ stage' = "recover"
  /\ UNCHANGED <<diskVars, bufVars, outstanding, committing, callVars, tail>>

recover_install == Install("recover", "recovered")

recover_erase ==
  /\ stage = "recovered"
  /\ hdr' = lh
  /\ stage' = "none"
  /\ UNCHANGED <<home, logd, bufVars, logVars, callVars, tail>>

-----------------------------------------------------------------------------
CallStep(o) ==
  \/ begin_op(o) \/ log_write_check(o) \/ log_write(o) \/ end_op(o) \/ end_commit(o)
  \/ \E b \in Blocks, v \in Values : Modify(o, b, v)

CommitStep   == write_log \/ write_head \/ install_trans \/ erase
RecoveryStep == read_head \/ recover_install \/ recover_erase

\* panic() stops the machine; only a reset follows.
Running == \A o \in Calls : pc[o] # "panic"

Next ==
  \/ /\ Running
     /\ \/ \E o \in Calls : Enter(o) \/ CallStep(o)
        \/ \E b \in Blocks : bread(b) \/ Recycle(b)
        \/ CommitStep \/ RecoveryStep
  \/ Crash

Spec == Init /\ [][Next]_vars

\* Processes in the kernel run on, the disk answers, and a boot goes on.
FairSpec == /\ Spec
            /\ \A o \in Calls : WF_vars(Running /\ CallStep(o))
            /\ WF_vars(Running /\ CommitStep)
            /\ WF_vars(Running /\ RecoveryStep)

-----------------------------------------------------------------------------
(* Properties.                                                             *)

\* Every variable keeps its type.
TypeOK ==
  /\ home \in [Blocks -> Values] /\ logd \in [LogData -> Values]
  /\ hdr \in Seq(Blocks) /\ lh \in Seq(Blocks)
  /\ cache \in [Blocks -> Values \cup {NoValue}] /\ dirty \subseteq Blocks
  /\ outstanding \in Nat /\ committing \in BOOLEAN /\ tail \in Nat /\ stage \in Stages
  /\ pc \in [Calls -> {"idle", "begin", "asleep", "active", "write", "append", "commit", "panic"}]
  /\ blk \in [Calls -> Blocks \cup {NoValue}] /\ left \in [Calls -> 0..OpWrites]

\* What a reboot would restore: the log's copy of a block if the header lists it.
Durable == [b \in Blocks |->
              IF \E i \in 1..Len(hdr) : hdr[i] = b
              THEN logd[(CHOOSE i \in 1..Len(hdr) : hdr[i] = b) - 1]
              ELSE home[b]]

\* What a read returns; nobody reads before recovery is over.
View == [b \in Blocks |-> IF cache[b] = NoValue THEN home[b] ELSE cache[b]]

Active == {o \in Calls : pc[o] \in {"active", "write", "append"}}

\* The log implements an atomic disk: updates become durable all at once, only
\* while no call is active, and a crash at any point, recovery included, goes
\* back to the last commit (log.c:9-21, 98-100, 192-202, 115-122).
Abstract == INSTANCE AtomicDisk WITH
              durable <- Durable,
              current <- IF Booting THEN Durable ELSE View,
              active  <- Active
AtomicUpdates == Abstract!Spec

\* No call runs into log_write()'s or end_op()'s panics: begin_op() reserves
\* enough room for what the admitted calls still write (log.c:132, 152, 218-221).
NoPanic == TypeOK /\ \A o \in Calls : pc[o] # "panic"

\* write_log() never writes outside the log's area on disk (log.c:183), although
\* log_write() tests the limit before it takes the lock.
LogInArea == Len(lh) <= nlog - 1 /\ Len(lh) <= LOGSIZE

\* What a call may still write, and all that is still to come for the log.
Need(o) == left[o] + (IF pc[o] \in {"write", "append"} THEN 1 ELSE 0)
Due     == {x \in Calls \X (1..OpWrites) : x[1] \in Active /\ x[2] <= Need(x[1])}

\* The inductive invariant behind NoPanic and LogInArea: what is logged and what
\* is due fit in the area, and no call is active during commit() or a boot.
BudgetInv ==
  /\ TypeOK
  /\ \A o \in Calls : pc[o] # "panic" /\ Need(o) <= OpWrites
                       /\ (pc[o] \in {"write", "append"} => blk[o] \in Blocks)
  /\ outstanding = Cardinality(Active)
  /\ committing => Active = {}
  /\ Booting => \A o \in Calls : pc[o] = "idle"
  /\ Len(hdr) <= nlog - 1
  /\ Len(lh) + Cardinality(Due) <= nlog - 1

\* A block is pinned exactly while its update is only in memory or the log: a
\* buffer that may be recycled has the contents of the block's home location
\* (log.c:231, bio.c:79-82).
UnpinnedIsClean ==
  \A b \in Blocks : cache[b] # NoValue /\ b \notin dirty /\ ~InUse(b) => cache[b] = home[b]

Entries(s)  == {s[i] : i \in 1..Len(s)}
Distinct(s) == \A i, j \in 1..Len(s) : s[i] = s[j] => i = j

\* The log's copies of the blocks of s are what is read, or what is at home.
Copied(s, n)    == \A i \in 1..n : logd[i - 1] = View[s[i]]
Installed(s, n) == \A i \in 1..n : home[s[i]] = logd[i - 1]

\* The inductive invariant behind AtomicUpdates: where commit() and recovery have
\* got to, and how the header, the log's copies, the buffers and the blocks at
\* home agree at each stage.
StageInv ==
  /\ Distinct(lh) /\ Distinct(hdr)
  /\ UnpinnedIsClean /\ dirty \subseteq Entries(lh)
  /\ committing <=> stage \in {"write_log", "write_head", "install", "erase", "done"}
  /\ stage \in {"none", "write_log", "write_head", "done"} => hdr = <<>>
  /\ stage \notin {"write_log", "install", "recover"} => tail = 0
  /\ stage \in {"read_head", "recovered", "erase", "done"} => lh = <<>>
  /\ Booting => dirty = {}
  /\ stage = "write_log" => tail < Len(lh) /\ Copied(lh, tail)
  /\ stage = "write_head" => Copied(lh, Len(lh))
  /\ stage = "install" => /\ hdr = lh /\ tail <= Len(lh)
                          /\ Copied(lh, Len(lh)) /\ Installed(lh, tail)
                          /\ dirty \subseteq {lh[i] : i \in tail + 1..Len(lh)}
  /\ stage = "recover" => hdr = lh /\ tail <= Len(lh) /\ Installed(lh, tail)
  /\ stage \in {"erase", "recovered"} => Installed(hdr, Len(hdr))

\* Both together: at every point of calls, commit() and recovery the log fits in
\* its area, nothing has panicked (log.c:152, 218-221), and disk, log and buffers
\* agree as far as the stage promises (log.c:68-122, 192-202).
LogInv == BudgetInv /\ StageInv

\* A call that sleeps in begin_op(), for a commit or for room, is woken again:
\* end_op() wakes the log's sleepers on each of its paths (log.c:161, 171).
SleeperWoken == \A o \in Calls : pc[o] = "asleep" ~> pc[o] # "asleep"

=============================================================================
