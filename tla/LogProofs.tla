----------------------------- MODULE LogProofs ------------------------------
(***************************************************************************)
(* Proofs about the log, for any number of blocks and calls: what is       *)
(* logged and what is still due fit in the log, no call panics, disk, log  *)
(* and buffers agree at every point of commit() and of recovery, and the   *)
(* log implements an atomic disk, across crashes.                          *)
(***************************************************************************)
EXTENDS Log, FiniteSetTheorems, TLAPS

-----------------------------------------------------------------------------
(* Counting what is due.                                                   *)

\* n calls that write less than b each write less than n * b in all.
LEMMA LessEach ==
  ASSUME NEW n \in Nat \ {0}, NEW a \in Nat, NEW b \in Nat, a < b
  PROVE  n * a + 1 <= n * b
<1>1. PICK c \in Nat : b = a + 1 + c BY b - a - 1 \in Nat
<1>2. n * b = n * a + n + n * c BY <1>1
<1>3. n * c \in Nat /\ n * a \in Nat OBVIOUS
<1> QED BY <1>2, <1>3

LEMMA FiniteDue ==
  /\ IsFiniteSet(Active) /\ Cardinality(Active) \in Nat
  /\ IsFiniteSet(Due) /\ Cardinality(Due) \in Nat
<1>1. IsFiniteSet(1..OpWrites) BY FS_Interval, SizesAssumption
<1>2. IsFiniteSet(Calls \X (1..OpWrites)) BY <1>1, FS_Product, SizesAssumption
<1>3. IsFiniteSet(Due) BY <1>2, FS_Subset DEF Due
<1>4. IsFiniteSet(Active) BY FS_Subset, SizesAssumption DEF Active
<1> QED BY <1>3, <1>4, FS_CardinalityType

LEMMA FiniteDueNext ==
  /\ IsFiniteSet(Active') /\ Cardinality(Active') \in Nat
  /\ IsFiniteSet(Due') /\ Cardinality(Due') \in Nat
<1>1. IsFiniteSet(1..OpWrites) BY FS_Interval, SizesAssumption
<1>2. IsFiniteSet(Calls \X (1..OpWrites)) BY <1>1, FS_Product, SizesAssumption
<1>3. IsFiniteSet(Due') BY <1>2, FS_Subset DEF Due
<1>4. IsFiniteSet(Active') BY FS_Subset, SizesAssumption DEF Active
<1> QED BY <1>3, <1>4, FS_CardinalityType

\* Each call has at most OpWrites blocks to go.
LEMMA DueBoundNext == Cardinality(Due') <= Cardinality(Active') * OpWrites
<1>1. IsFiniteSet(1..OpWrites) /\ Cardinality(1..OpWrites) = OpWrites
  BY FS_Interval, SizesAssumption
<1>2. Due' \subseteq Active' \X (1..OpWrites) BY DEF Due
<1>3. /\ IsFiniteSet(Active' \X (1..OpWrites))
      /\ Cardinality(Active' \X (1..OpWrites)) = Cardinality(Active') * OpWrites
  BY <1>1, FiniteDueNext, FS_Product, Zenon
<1> QED BY <1>2, <1>3, FS_Subset

\* A step that adds nothing to what is due or logged.
LEMMA QuietBudget ==
  ASSUME BudgetInv, TypeOK',
         UNCHANGED <<pc, blk, left, outstanding>>,
         Len(lh') <= Len(lh) \/ (Active = {} /\ Len(lh') <= nlog - 1),
         Len(hdr') <= nlog - 1,
         committing' => committing,
         Booting' => Booting
  PROVE  BudgetInv'
<1>1. Active' = Active /\ Due' = Due BY DEF Active, Due, Need
<1>2. Active = {} => Due = {} BY DEF Due
<1>3. Cardinality(Due) \in Nat /\ Cardinality({}) = 0 BY FiniteDue, FS_EmptySet
<1>4. Len(lh) \in Nat /\ Len(lh') \in Nat /\ nlog - 1 \in Int
  BY SizesAssumption DEF BudgetInv, TypeOK, nlog, LOGSIZE
<1>5. Cardinality(Due') = Cardinality(Due) BY <1>1
<1>6. Len(lh) + Cardinality(Due) <= nlog - 1 BY DEF BudgetInv
<1>7. CASE Len(lh') <= Len(lh) BY <1>1, <1>3, <1>4, <1>5, <1>6, <1>7 DEF BudgetInv, Need
<1>8. CASE Active = {} /\ Len(lh') <= nlog - 1
  <2>1. Cardinality(Due') = 0 BY <1>2, <1>3, <1>5, <1>8, Zenon
  <2> QED BY <1>1, <1>4, <1>8, <2>1 DEF BudgetInv, Need
<1> QED BY <1>7, <1>8

\* A step of calls that leaves the log alone.
LEMMA CallBudget ==
  ASSUME BudgetInv, TypeOK',
         UNCHANGED <<lh, hdr>>, ~Booting',
         \A o \in Calls : pc'[o] # "panic" /\ Need(o)' <= OpWrites
                          /\ (pc'[o] \in {"write", "append"} => blk'[o] \in Blocks),
         outstanding' = Cardinality(Active'),
         committing' => Active' = {},
         Due' \subseteq Due
  PROVE  BudgetInv'
<1>1. Cardinality(Due') <= Cardinality(Due) BY FiniteDue, FS_Subset
<1>2. Cardinality(Due) \in Nat /\ Cardinality(Due') \in Nat BY FiniteDue, FiniteDueNext
<1>3. Len(lh) \in Nat /\ nlog - 1 \in Int
  BY SizesAssumption DEF BudgetInv, TypeOK, nlog, LOGSIZE
<1>4. Len(lh') + Cardinality(Due') <= nlog - 1 BY <1>1, <1>2, <1>3 DEF BudgetInv
<1> QED BY <1>4 DEF BudgetInv

-----------------------------------------------------------------------------
(* Each step keeps the budget.                                             *)

LEMMA BudgetEnter ==
  ASSUME BudgetInv, TypeOK', NEW o \in Calls, Enter(o)
  PROVE  BudgetInv'
<1> USE DEF BudgetInv, TypeOK, Enter, logVars, diskVars
<1>1. Active' = Active BY DEF Active
<1>2. \A q \in Calls : Need(q)' = Need(q) BY DEF Need
<1>3. Due' = Due BY <1>1, <1>2 DEF Due
<1>4. ~Booting' BY DEF Booting
<1> QED BY <1>1, <1>2, <1>3, <1>4, CallBudget

LEMMA BudgetBegin ==
  ASSUME BudgetInv, TypeOK', NEW o \in Calls, begin_op(o)
  PROVE  BudgetInv'
<1> USE DEF BudgetInv, TypeOK, begin_op, diskVars
<1>1. ~Booting' BY DEF Booting
<1>2. CASE MustWait
  <2>1. Active' = Active BY <1>2 DEF Active
  <2>2. \A q \in Calls : Need(q)' = Need(q) BY <1>2 DEF Need
  <2>3. Due' = Due BY <2>1, <2>2 DEF Due
  <2> QED BY <1>1, <1>2, <2>1, <2>2, <2>3, CallBudget
<1>3. CASE ~MustWait
  <2>1. Active' = Active \cup {o} /\ o \notin Active BY <1>3 DEF Active
  <2>2. Cardinality(Active') = outstanding + 1 BY <2>1, FiniteDue, FS_AddElement, Zenon
  <2>3. \A q \in Calls : Need(q)' <= OpWrites BY <1>3, SizesAssumption DEF Need
  <2> DEFINE used == (outstanding + 1) * OpWrites
             reserved == (outstanding + 1) * MAXOPBLOCKS
  <2>4. Cardinality(Due') <= used BY <2>2, DueBoundNext
  <2>5. used \in Int /\ reserved \in Int /\ used + 1 <= reserved
    <3>1. /\ outstanding + 1 \in Nat \ {0} /\ OpWrites \in Nat /\ MAXOPBLOCKS \in Nat
          /\ OpWrites < MAXOPBLOCKS
      BY BudgetAssumption, SizesAssumption
    <3> QED BY ONLY <3>1, LessEach
  <2>6. Len(lh) + reserved <= nlog
    BY <1>3 DEF MustWait, HasRoom, nlog
  <2>7. Cardinality(Due') \in Nat BY FiniteDueNext
  <2>8. Len(lh') + Cardinality(Due') <= nlog - 1
    <3>1. Len(lh) \in Nat /\ lh' = lh OBVIOUS
    <3>2. nlog \in Int BY SizesAssumption DEF nlog, LOGSIZE
    <3> HIDE DEF used, reserved
    <3> QED BY ONLY <2>4, <2>5, <2>6, <2>7, <3>1, <3>2
  <2>9. ~committing' BY <1>3 DEF MustWait
  <2> QED BY <1>1, <1>3, <2>2, <2>3, <2>8, <2>9
<1> QED BY <1>2, <1>3

LEMMA BudgetModify ==
  ASSUME BudgetInv, TypeOK', NEW o \in Calls, NEW b \in Blocks, NEW v \in Values, Modify(o, b, v)
  PROVE  BudgetInv'
<1> USE DEF BudgetInv, TypeOK, Modify, logVars, diskVars
<1>1. Active' = Active BY DEF Active
<1>2. \A q \in Calls : Need(q)' = Need(q) BY SizesAssumption DEF Need
<1>3. Due' = Due BY <1>1, <1>2 DEF Due
<1>4. ~Booting' BY DEF Booting
<1> QED BY <1>1, <1>2, <1>3, <1>4, CallBudget

\* A call that writes has a block due, so there is room for it and it is counted.
LEMMA Admitted ==
  ASSUME BudgetInv, NEW o \in Calls, pc[o] \in {"write", "append"}
  PROVE  /\ o \in Active /\ outstanding >= 1 /\ Need(o) \in 1..OpWrites
         /\ <<o, Need(o)>> \in Due /\ Len(lh) + 1 <= nlog - 1
<1> USE DEF BudgetInv, TypeOK
<1>1. o \in Active BY DEF Active
<1>2. Need(o) \in 1..OpWrites BY SizesAssumption DEF Need
<1>3. <<o, Need(o)>> \in Due BY <1>1, <1>2 DEF Due
<1>4. Cardinality(Due) # 0 /\ Cardinality(Active) # 0 BY <1>1, <1>3, FiniteDue, FS_EmptySet
<1>5. Cardinality(Due) \in Nat /\ Cardinality(Active) \in Nat BY FiniteDue
<1>6. Len(lh) \in Nat /\ nlog - 1 \in Int BY SizesAssumption DEF nlog, LOGSIZE
<1> QED BY <1>1, <1>2, <1>3, <1>4, <1>5, <1>6

LEMMA BudgetCheck ==
  ASSUME BudgetInv, TypeOK', NEW o \in Calls, log_write_check(o)
  PROVE  BudgetInv'
<1> USE DEF BudgetInv, TypeOK, log_write_check, logVars, diskVars
<1>1. Len(lh) \in Nat /\ Len(lh) + 1 <= nlog - 1 /\ outstanding >= 1
  <2>1. pc[o] \in {"write", "append"} OBVIOUS
  <2>2. Len(lh) + 1 <= nlog - 1 /\ outstanding >= 1 BY <2>1, Admitted, Zenon
  <2> QED BY <2>2
<1>2. ~TooBig /\ ~(outstanding < 1)
  BY <1>1, SizesAssumption DEF TooBig, nlog, LOGSIZE
<1>3. pc' = [pc EXCEPT ![o] = "append"] BY <1>2, Zenon
<1>4. Active' = Active BY <1>3, Zenon DEF Active
<1>5. \A q \in Calls : Need(q)' = Need(q) BY <1>3 DEF Need
<1>6. Due' = Due BY <1>4, <1>5 DEF Due
<1>7. ~Booting' BY DEF Booting
<1> QED BY <1>3, <1>4, <1>5, <1>6, <1>7, CallBudget

LEMMA BudgetLogWrite ==
  ASSUME BudgetInv, TypeOK', NEW o \in Calls, log_write(o)
  PROVE  BudgetInv'
<1> USE DEF BudgetInv, TypeOK, log_write, diskVars
<1>1. /\ Need(o) \in 1..OpWrites /\ <<o, Need(o)>> \in Due BY Admitted
<1>2. Active' = Active BY DEF Active
<1>3. /\ \A q \in Calls : q # o => Need(q)' = Need(q)
      /\ Need(o)' = Need(o) - 1
  BY DEF Need
<1>4. \A q \in Calls : Need(q)' <= OpWrites BY <1>1, <1>3, SizesAssumption
<1>5. Due' \subseteq Due \ {<<o, Need(o)>>} BY <1>1, <1>2, <1>3, SizesAssumption DEF Due
<1>6. Cardinality(Due') <= Cardinality(Due) - 1
  <2>1. /\ IsFiniteSet(Due \ {<<o, Need(o)>>})
        /\ Cardinality(Due \ {<<o, Need(o)>>}) = Cardinality(Due) - 1
    BY <1>1, FiniteDue, FS_RemoveElement, Zenon
  <2> QED BY <1>5, <2>1, FS_Subset
<1>7. Len(lh') <= Len(lh) + 1 /\ Len(lh) \in Nat /\ Len(lh') \in Nat OBVIOUS
<1>8. Cardinality(Due) \in Nat /\ Cardinality(Due') \in Nat /\ nlog - 1 \in Int
  BY FiniteDue, FiniteDueNext, SizesAssumption DEF nlog, LOGSIZE
<1>9. Len(lh) + Cardinality(Due) <= nlog - 1 OBVIOUS
<1>10. Len(lh') + Cardinality(Due') <= nlog - 1 BY <1>6, <1>7, <1>8, <1>9
<1>11. ~Booting' BY DEF Booting
<1> QED BY <1>2, <1>4, <1>10, <1>11

LEMMA BudgetEndOp ==
  ASSUME BudgetInv, TypeOK', NEW o \in Calls, end_op(o)
  PROVE  BudgetInv'
<1> USE DEF BudgetInv, TypeOK, end_op, diskVars
<1>1. o \in Active BY DEF Active
<1>2. ~committing /\ ~Booting BY <1>1 DEF Active
<1>3. pc' \in {[pc EXCEPT ![o] = "commit"], Woken([pc EXCEPT ![o] = "idle"])} BY <1>2
<1>4. \A q \in Calls : /\ q # o => pc'[q] = pc[q] \/ (pc[q] = "asleep" /\ pc'[q] = "begin")
                       /\ pc'[o] \in {"commit", "idle"}
  BY <1>3 DEF Woken
<1>5. Active' = Active \ {o} BY <1>4 DEF Active
<1>6. Cardinality(Active') = Cardinality(Active) - 1 BY <1>1, <1>5, FiniteDue, FS_RemoveElement, ZenonT(30)
<1>7. /\ \A q \in Calls : q # o => Need(q)' = Need(q)
      /\ Need(o)' = 0
  BY <1>4, SizesAssumption DEF Need
<1>8. Due' \subseteq Due BY <1>5, <1>7 DEF Due
<1>9. committing' => Active' = {}
  <2>1. outstanding # 1 => committing' = committing BY <1>2
  <2>2. committing' => outstanding = 1 BY <1>2, <2>1, Zenon
  <2>3. outstanding = 1 => Cardinality(Active') = 0 BY <1>6
  <2> QED BY <2>2, <2>3, FiniteDueNext, FS_EmptySet
<1>10. ~Booting' BY <1>2 DEF Booting
<1>11. \A q \in Calls : pc'[q] # "panic" /\ Need(q)' <= OpWrites
                        /\ (pc'[q] \in {"write", "append"} => blk'[q] \in Blocks)
  <2>1. \A q \in Calls : pc[q] # "panic" /\ Need(q) <= OpWrites
                         /\ (pc[q] \in {"write", "append"} => blk[q] \in Blocks)
    OBVIOUS
  <2>2. blk' = blk /\ OpWrites \in Nat BY SizesAssumption
  <2> QED BY ONLY <1>4, <1>7, <2>1, <2>2
<1>12. outstanding' = Cardinality(Active') BY <1>6
<1> QED BY <1>8, <1>9, <1>10, <1>11, <1>12, CallBudget

LEMMA BudgetEndCommit ==
  ASSUME BudgetInv, TypeOK', NEW o \in Calls, end_commit(o)
  PROVE  BudgetInv'
<1> USE DEF BudgetInv, TypeOK, end_commit, diskVars
<1>1. \A q \in Calls : /\ q # o => pc'[q] = pc[q] \/ (pc[q] = "asleep" /\ pc'[q] = "begin")
                       /\ pc'[o] = "idle"
  BY DEF Woken
<1>2. Active' = Active BY <1>1, Zenon DEF Active
<1>3. \A q \in Calls : Need(q)' = Need(q) BY <1>1, Zenon DEF Need
<1>4. Due' = Due BY <1>2, <1>3 DEF Due
<1>5. ~Booting' BY DEF Booting
<1>6. \A q \in Calls : pc'[q] # "panic" /\ Need(q)' <= OpWrites
                       /\ (pc'[q] \in {"write", "append"} => blk'[q] \in Blocks)
  BY <1>1, <1>3, ZenonT(30)
<1> QED BY <1>2, <1>4, <1>5, <1>6, CallBudget, Zenon

LEMMA BudgetCrash ==
  ASSUME BudgetInv, TypeOK', Crash
  PROVE  BudgetInv'
<1> USE DEF BudgetInv, TypeOK, Crash, diskVars
<1>1. Active' = {} /\ Due' = {} BY DEF Active, Due
<1>2. Cardinality(Active') = 0 /\ Cardinality(Due') = 0 BY <1>1, FS_EmptySet
<1>3. \A q \in Calls : Need(q)' <= OpWrites BY SizesAssumption DEF Need
<1>4. nlog - 1 \in Nat BY SizesAssumption DEF nlog, LOGSIZE
<1> QED BY <1>1, <1>2, <1>3, <1>4 DEF Booting

\* Buffers, and the disk writes of commit() and of recovery.
LEMMA BudgetQuiet ==
  ASSUME BudgetInv, TypeOK',
         \/ \E b \in Blocks : bread(b) \/ Recycle(b)
         \/ CommitStep \/ RecoveryStep \/ UNCHANGED vars
  PROVE  BudgetInv'
<1> USE DEF diskVars, bufVars, logVars, callVars
<1>1. UNCHANGED <<pc, blk, left, outstanding, committing>>
  BY DEF bread, Recycle, CommitStep, RecoveryStep, write_log, write_head, install_trans, erase,
         read_head, recover_install, recover_erase, Install, vars
<1>2. Booting' => Booting
  BY DEF bread, Recycle, CommitStep, RecoveryStep, write_log, write_head, install_trans, erase,
         read_head, recover_install, recover_erase, Install, vars, Booting
<1>3. /\ Len(lh) <= nlog - 1 /\ Len(hdr) <= nlog - 1
      /\ Len(lh) \in Nat /\ Len(<<>>) = 0 /\ nlog - 1 \in Nat
  <2>1. Len(lh) \in Nat BY DEF BudgetInv, TypeOK
  <2>2. Len(lh) + Cardinality(Due) <= nlog - 1 /\ Len(hdr) <= nlog - 1 BY DEF BudgetInv
  <2>3. nlog - 1 \in Nat BY SizesAssumption DEF nlog, LOGSIZE
  <2> QED BY <2>1, <2>2, <2>3, FiniteDue
<1>4. hdr' \in {hdr, lh}
  BY DEF bread, Recycle, CommitStep, RecoveryStep, write_log, write_head, install_trans, erase,
         read_head, recover_install, recover_erase, Install, vars
<1>5. Booting => Active = {} BY DEF BudgetInv, Active
<1>6. lh' \in {lh, <<>>} \/ (lh' = hdr /\ Booting)
  BY DEF bread, Recycle, CommitStep, RecoveryStep, write_log, write_head, install_trans, erase,
         read_head, recover_install, recover_erase, Install, vars, Booting
<1>7. Len(lh') <= Len(lh) \/ (Active = {} /\ Len(lh') <= nlog - 1) BY <1>3, <1>5, <1>6
<1>8. Len(hdr') <= nlog - 1 BY <1>3, <1>4
<1> QED BY <1>1, <1>2, <1>7, <1>8, QuietBudget

-----------------------------------------------------------------------------
(* Types.                                                                  *)

LEMMA TypeStep ==
  ASSUME TypeOK, BudgetInv, StageInv, Next
  PROVE  TypeOK'
<1> USE SizesAssumption, ValuesAssumption
    DEF TypeOK, diskVars, bufVars, logVars, callVars, Stages
<1>1. ASSUME NEW o \in Calls, Enter(o) \/ begin_op(o) \/ log_write_check(o) \/ end_op(o) \/ end_commit(o)
      PROVE  TypeOK'
  <2>1. CASE Enter(o) BY <2>1 DEF Enter
  <2>2. CASE begin_op(o)
    <3>1. OpWrites \in 0..OpWrites OBVIOUS
    <3>2. CASE MustWait BY <2>2, <3>2, Zenon DEF begin_op
    <3>3. CASE ~MustWait
      <4>1. left' = [left EXCEPT ![o] = OpWrites] /\ outstanding' = outstanding + 1
        BY <2>2, <3>3 DEF begin_op
      <4>2. left' \in [Calls -> 0..OpWrites] BY <3>1, <4>1
      <4>3. outstanding' \in Nat BY <4>1
      <4> QED BY <2>2, <3>3, <4>2, <4>3, Zenon DEF begin_op
    <3> QED BY <3>2, <3>3
  <2>3. CASE log_write_check(o) BY <2>3 DEF log_write_check
  <2>4. CASE end_op(o)
    <3>1. o \in Active BY <2>4 DEF Active, end_op
    <3>2. outstanding # 0 BY <3>1, FiniteDue, FS_EmptySet DEF BudgetInv
    <3>3. outstanding' \in Nat /\ left' \in [Calls -> 0..OpWrites] BY <2>4, <3>2 DEF end_op
    <3>4. CASE committing BY <2>4, <3>3, <3>4, Zenon DEF end_op
    <3>5. CASE ~committing /\ outstanding = 1 BY <2>4, <3>3, <3>5, Zenon DEF end_op
    <3>6. CASE ~committing /\ outstanding # 1 BY <2>4, <3>3, <3>6 DEF end_op, Woken
    <3> QED BY <3>4, <3>5, <3>6
  <2>5. CASE end_commit(o) BY <2>5, Zenon DEF end_commit, Woken
  <2> QED BY <1>1, <2>1, <2>2, <2>3, <2>4, <2>5
<1>2. ASSUME NEW o \in Calls, log_write(o) PROVE TypeOK'
  <2>1. blk[o] \in Blocks BY <1>2 DEF BudgetInv, log_write
  <2> QED BY <1>2, <2>1 DEF log_write
<1>3. ASSUME NEW o \in Calls, NEW b \in Blocks, NEW v \in Values, Modify(o, b, v) PROVE TypeOK'
  BY <1>3 DEF Modify
<1>4. ASSUME NEW b \in Blocks, bread(b) \/ Recycle(b) PROVE TypeOK'
  BY <1>4, ZenonT(30) DEF bread, Recycle
<1>5. CASE write_log
  <2>1. tail + 1 \in 1..Len(lh) BY <1>5 DEF write_log, StageInv
  <2>2. lh[tail + 1] \in Blocks BY <2>1
  <2>3. (IF cache[lh[tail + 1]] = NoValue THEN home[lh[tail + 1]] ELSE cache[lh[tail + 1]]) \in Values
    BY <2>2
  <2>4. logd' \in [LogData -> Values] BY <1>5, <2>3, Zenon DEF write_log
  <2>5. tail' \in Nat /\ stage' \in Stages BY <1>5 DEF write_log
  <2> QED BY <1>5, <2>4, <2>5 DEF write_log
<1>6. ASSUME NEW from, NEW to \in Stages, Install(from, to)
      PROVE  TypeOK'
  <2>1. CASE tail < Len(lh)
    <3>1. tail + 1 \in 1..Len(lh) BY <2>1
    <3>2. lh[tail + 1] \in Blocks BY <3>1
    <3>3. tail \in LogData
      BY <2>1, FiniteDue DEF BudgetInv, LogData, nlog, LOGSIZE
    <3> QED BY <1>6, <2>1, <3>2, <3>3 DEF Install
  <2>2. CASE ~(tail < Len(lh)) BY <1>6, <2>2 DEF Install
  <2> QED BY <2>1, <2>2
<1>7. CASE write_head \/ erase \/ read_head \/ recover_erase
  BY <1>7 DEF write_head, erase, read_head, recover_erase
<1>8. CASE install_trans \/ recover_install BY <1>6, <1>8 DEF install_trans, recover_install
<1>9. CASE Crash
  <2>1. 0 \in 0..OpWrites /\ <<>> \in Seq(Blocks) OBVIOUS
  <2>2. left' \in [Calls -> 0..OpWrites] /\ blk' \in [Calls -> Blocks \cup {NoValue}]
    BY <1>9, <2>1 DEF Crash
  <2> QED BY <1>9, <2>1, <2>2, Zenon DEF Crash
<1> HIDE DEF TypeOK
<1> QED
  BY <1>1, <1>2, <1>3, <1>4, <1>5, <1>7, <1>8, <1>9 DEF Next, CallStep, CommitStep, RecoveryStep

-----------------------------------------------------------------------------
(* Each step keeps the stages.                                             *)

\* What most of the steps use of the invariant.
LEMMA LogFacts ==
  ASSUME LogInv
  PROVE  /\ lh \in Seq(Blocks) /\ hdr \in Seq(Blocks) /\ tail \in Nat
         /\ Distinct(lh) /\ Distinct(hdr) /\ UnpinnedIsClean /\ dirty \subseteq Entries(lh)
         /\ nlog \in Nat /\ Len(lh) <= nlog - 1
<1>1. lh \in Seq(Blocks) /\ hdr \in Seq(Blocks) /\ tail \in Nat BY DEF LogInv, BudgetInv, TypeOK
<1>2. Distinct(lh) /\ Distinct(hdr) /\ UnpinnedIsClean /\ dirty \subseteq Entries(lh)
  BY DEF LogInv, StageInv
<1>3. nlog \in Nat BY SizesAssumption DEF nlog, LOGSIZE
<1>4. Len(lh) + Cardinality(Due) <= nlog - 1 BY DEF LogInv, BudgetInv
<1>5. Len(lh) <= nlog - 1 BY <1>1, <1>3, <1>4, FiniteDue
<1> QED BY <1>1, <1>2, <1>3, <1>5

\* Contents are values, so a filled buffer is never taken for an empty one.
LEMMA Contents ==
  ASSUME LogInv
  PROVE  /\ \A b \in Blocks : home[b] \in Values
         /\ \A t \in LogData : logd[t] \in Values /\ logd[t] # NoValue
         /\ logd \in [LogData -> Values] /\ home \in [Blocks -> Values]
         /\ cache \in [Blocks -> Values \cup {NoValue}]
<1>1. /\ logd \in [LogData -> Values] /\ home \in [Blocks -> Values]
      /\ cache \in [Blocks -> Values \cup {NoValue}]
  BY DEF LogInv, BudgetInv, TypeOK
<1> QED BY <1>1, ValuesAssumption

\* While a call is active nothing is being committed or recovered.
LEMMA ActiveStage ==
  ASSUME LogInv, NEW o \in Calls, pc[o] \in {"active", "write", "append"}
  PROVE  stage = "none" /\ hdr = <<>> /\ tail = 0 /\ ~committing
<1>1. o \in Active BY DEF Active
<1>2. ~committing /\ ~Booting BY <1>1 DEF LogInv, BudgetInv
<1>3. stage \in Stages BY DEF LogInv, BudgetInv, TypeOK
<1> QED BY <1>2, <1>3 DEF LogInv, StageInv, Booting, Stages

LEMMA EmptyLog == Distinct(<<>>) /\ Entries(<<>>) = {}
BY DEF Distinct, Entries

\* A step that leaves the log, the disk and what is read alone.
LEMMA StageFrame ==
  ASSUME StageInv, UnpinnedIsClean', View' = View,
         UNCHANGED <<home, logd, hdr, lh, dirty, committing, stage, tail>>
  PROVE  StageInv' /\ Booting' = Booting
<1>1. \A s, n : Copied(s, n) => Copied(s, n)' BY DEF Copied
<1>2. \A s, n : Installed(s, n) => Installed(s, n)' BY DEF Installed
<1> QED BY <1>1, <1>2 DEF StageInv, Booting

\* A step that leaves the blocks, the buffers and their users alone.
LEMMA BufferFrame ==
  ASSUME LogInv, UNCHANGED <<home, cache, dirty, pc, blk>>
  PROVE  UnpinnedIsClean' /\ View' = View
<1>1. UnpinnedIsClean BY LogFacts
<1> QED BY <1>1 DEF UnpinnedIsClean, InUse, View

\* A buffer may be filled, or recycled, unnoticed.
LEMMA StageBuffer ==
  ASSUME LogInv, NEW b \in Blocks, bread(b) \/ Recycle(b)
  PROVE  StageInv' /\ View' = View
<1>1. UNCHANGED <<home, logd, hdr, lh, dirty, committing, stage, tail, pc, blk>>
  BY DEF bread, Recycle, diskVars, logVars, callVars
<1>2. \/ cache[b] = NoValue /\ cache' = [cache EXCEPT ![b] = home[b]]
      \/ cache[b] # NoValue /\ b \notin dirty /\ ~InUse(b) /\ cache' = [cache EXCEPT ![b] = NoValue]
  BY DEF bread, Recycle
<1>3. \A c \in Blocks : cache'[c] = IF c = b THEN cache'[b] ELSE cache[c] BY <1>2, Contents
<1>4. \/ cache[b] = NoValue /\ cache'[b] = home[b] /\ cache'[b] # NoValue
      \/ cache[b] = home[b] /\ cache'[b] = NoValue
  <2>1. CASE cache[b] = NoValue BY <1>2, <2>1, Contents, ValuesAssumption
  <2>2. CASE cache[b] # NoValue BY <1>2, <2>2, Contents, LogFacts DEF UnpinnedIsClean
  <2> QED BY <2>1, <2>2
<1>5. \A c \in Blocks : InUse(c)' = InUse(c) BY <1>1 DEF InUse
<1>6. UnpinnedIsClean' BY <1>1, <1>3, <1>4, <1>5, LogFacts DEF UnpinnedIsClean
<1>7. \A c \in Blocks : View'[c] = View[c] BY <1>1, <1>3, <1>4 DEF View
<1>8. View' = View BY <1>7 DEF View
<1> QED BY <1>1, <1>6, <1>8, StageFrame DEF LogInv

\* Steps of calls that touch no block.
LEMMA StageCall ==
  ASSUME LogInv, BudgetInv', NEW o \in Calls,
         Enter(o) \/ begin_op(o) \/ log_write_check(o) \/ end_op(o) \/ end_commit(o)
  PROVE  StageInv' /\ UNCHANGED <<home, logd, hdr, cache>> /\ Booting' = Booting
<1>1. \A c \in Blocks : InUse(c)' = InUse(c)
  <2>1. pc \in [Calls -> {"idle", "begin", "asleep", "active", "write", "append", "commit", "panic"}]
    BY DEF LogInv, BudgetInv, TypeOK
  <2>2. \A q \in Calls : pc'[q] # "panic" BY DEF BudgetInv
  <2>3. blk' = blk BY DEF Enter, begin_op, log_write_check, end_op, end_commit
  <2>4. CASE Enter(o) BY <2>1, <2>3, <2>4 DEF Enter, InUse
  <2>5. CASE begin_op(o) BY <2>1, <2>3, <2>5 DEF begin_op, InUse
  <2>6. CASE log_write_check(o)
    <3>1. pc' = [pc EXCEPT ![o] = "append"] /\ pc[o] = "write"
      BY <2>1, <2>2, <2>6, ZenonT(30) DEF log_write_check
    <3> QED BY <2>1, <2>3, <3>1 DEF InUse
  <2>7. CASE end_op(o)
    <3>1. /\ pc[o] = "active"
          /\ pc' = [pc EXCEPT ![o] = "commit"] \/ pc' = Woken([pc EXCEPT ![o] = "idle"])
      BY <2>1, <2>2, <2>7 DEF end_op
    <3> QED BY <2>1, <2>3, <3>1 DEF Woken, InUse
  <2>8. CASE end_commit(o) BY <2>1, <2>3, <2>8 DEF end_commit, Woken, InUse
  <2> QED BY <2>4, <2>5, <2>6, <2>7, <2>8
<1>2. UNCHANGED <<home, logd, hdr, cache, dirty, lh, tail>>
  BY DEF Enter, begin_op, log_write_check, end_op, end_commit, diskVars, bufVars, logVars
<1>3. UnpinnedIsClean' BY <1>1, <1>2, LogFacts, ZenonT(30) DEF UnpinnedIsClean
<1>4. View' = View BY <1>2, Zenon DEF View
<1>5. CASE UNCHANGED <<stage, committing>>
  BY <1>2, <1>3, <1>4, <1>5, StageFrame DEF LogInv
<1>6. CASE end_op(o) /\ ~UNCHANGED <<stage, committing>>
  <2>1. stage = "none" /\ hdr = <<>> /\ tail = 0 /\ ~committing BY <1>6, ActiveStage DEF end_op
  <2>2. committing' /\ stage' = IF lh = <<>> THEN "done" ELSE "write_log" BY <1>6, <2>1 DEF end_op
  <2>3. CASE lh = <<>>
    BY <1>2, <1>3, <2>1, <2>2, <2>3, LogFacts DEF StageInv, Booting
  <2>4. CASE lh # <<>>
    <3>1. tail' < Len(lh') BY <1>2, <2>1, <2>4, LogFacts
    <3>2. Copied(lh, tail)' BY <1>2, <2>1 DEF Copied
    <3> QED BY <1>2, <1>3, <2>1, <2>2, <2>4, <3>1, <3>2, LogFacts DEF StageInv, Booting
  <2> QED BY <2>3, <2>4
<1>7. CASE end_commit(o)
  <2>1. stage = "done" /\ stage' = "none" /\ ~committing' BY <1>7 DEF end_commit
  <2>2. hdr = <<>> /\ tail = 0 BY <2>1 DEF LogInv, StageInv
  <2> QED BY <1>2, <1>3, <2>1, <2>2, LogFacts DEF StageInv, Booting
<1> QED BY <1>2, <1>5, <1>6, <1>7 DEF Enter, begin_op, log_write_check, logVars

LEMMA StageModify ==
  ASSUME LogInv, NEW o \in Calls, NEW b \in Blocks, NEW v \in Values, Modify(o, b, v)
  PROVE  StageInv' /\ stage = "none" /\ View' = [View EXCEPT ![b] = v]
<1>1. stage = "none" /\ hdr = <<>> /\ tail = 0 /\ ~committing BY ActiveStage DEF Modify
<1>2. \A c \in Blocks : InUse(c)' = (InUse(c) \/ c = b)
  <2>1. /\ pc \in [Calls -> {"idle", "begin", "asleep", "active", "write", "append", "commit", "panic"}]
        /\ blk \in [Calls -> Blocks \cup {NoValue}]
    BY DEF LogInv, BudgetInv, TypeOK
  <2> QED BY <2>1, ZenonT(30) DEF Modify, InUse
<1>3. /\ UNCHANGED <<home, hdr, lh, dirty, committing, stage, tail>>
      /\ \A c \in Blocks : cache'[c] = IF c = b THEN v ELSE cache[c]
  BY Contents DEF Modify, diskVars, logVars
<1>4. UnpinnedIsClean' BY <1>2, <1>3, LogFacts, Zenon DEF UnpinnedIsClean
<1>5. \A c \in Blocks : View'[c] = IF c = b THEN v ELSE View[c]
  BY <1>3, ValuesAssumption DEF View
<1>6. View' = [View EXCEPT ![b] = v] BY <1>5, Zenon DEF View
<1>7. StageInv' BY <1>1, <1>3, <1>4, LogFacts DEF StageInv, Booting
<1> QED BY <1>1, <1>6, <1>7

LEMMA StageLogWrite ==
  ASSUME LogInv, NEW o \in Calls, log_write(o)
  PROVE  StageInv' /\ stage = "none"
<1>1. stage = "none" /\ hdr = <<>> /\ tail = 0 /\ ~committing BY ActiveStage DEF log_write
<1>2. blk[o] \in Blocks BY DEF LogInv, BudgetInv, log_write
<1>3. \A c \in Blocks : InUse(c) => InUse(c)' \/ c = blk[o]
  <2>1. /\ pc \in [Calls -> {"idle", "begin", "asleep", "active", "write", "append", "commit", "panic"}]
        /\ blk \in [Calls -> Blocks \cup {NoValue}]
    BY DEF LogInv, BudgetInv, TypeOK
  <2> QED BY <2>1 DEF log_write, InUse
<1>4. /\ UNCHANGED <<home, hdr, cache, committing, stage, tail>> /\ dirty' = dirty \cup {blk[o]}
      /\ lh' = IF Logged(blk[o]) THEN lh ELSE Append(lh, blk[o])
  BY DEF log_write, diskVars
<1>5. UnpinnedIsClean' BY <1>3, <1>4, LogFacts, Zenon DEF UnpinnedIsClean
<1>6. Distinct(lh') /\ dirty' \subseteq Entries(lh')
  <2>1. CASE Logged(blk[o]) BY <1>4, <2>1, LogFacts DEF Logged, Entries
  <2>2. CASE ~Logged(blk[o])
    <3>1. /\ Len(lh') = Len(lh) + 1 /\ lh'[Len(lh) + 1] = blk[o] /\ Len(lh) \in Nat
          /\ \A i \in 1..Len(lh) : lh'[i] = lh[i]
      BY <1>2, <1>4, <2>2, LogFacts
    <3>2. \A i \in 1..Len(lh) : lh[i] # blk[o] BY <2>2 DEF Logged
    <3>3. Distinct(lh) BY LogFacts
    <3>4. \A i \in 1..Len(lh') : i \in 1..Len(lh) \/ i = Len(lh) + 1 BY <3>1
    <3>5. Distinct(lh') BY <3>1, <3>2, <3>3, <3>4 DEF Distinct
    <3>6. Entries(lh) \subseteq Entries(lh') BY <3>1 DEF Entries
    <3>7. blk[o] \in Entries(lh') BY <3>1 DEF Entries
    <3> QED BY <1>4, <3>5, <3>6, <3>7, LogFacts
  <2> QED BY <2>1, <2>2
<1>7. StageInv' BY <1>1, <1>4, <1>5, <1>6, LogFacts DEF StageInv, Booting
<1> QED BY <1>1, <1>7

LEMMA StageWriteLog ==
  ASSUME LogInv, write_log
  PROVE  StageInv' /\ hdr = <<>>
<1>1. stage = "write_log" /\ hdr = <<>> /\ tail < Len(lh) /\ Copied(lh, tail) /\ committing
  BY ZenonT(30) DEF LogInv, StageInv, write_log
<1>2. UNCHANGED <<home, hdr, cache, dirty, lh, committing, pc, blk>>
  BY DEF write_log, bufVars, logVars, callVars
<1>3. UnpinnedIsClean' /\ View' = View BY <1>2, BufferFrame
<1>4. /\ lh[tail + 1] \in Blocks /\ Len(lh) \in Nat
      /\ \A i \in 1..tail + 1 : i - 1 \in LogData
      /\ tail \in LogData
  BY <1>1, LogFacts DEF LogData
<1>5. logd'[tail] = View[lh[tail + 1]] /\ \A t \in LogData : t # tail => logd'[t] = logd[t]
  BY <1>4, Contents DEF View, write_log
<1>6. \A i \in 1..tail + 1 : logd'[i - 1] = View'[lh'[i]]
  <2> SUFFICES ASSUME NEW i \in 1..tail + 1 PROVE logd'[i - 1] = View[lh[i]] BY <1>2, <1>3
  <2>1. tail \in Nat BY LogFacts
  <2>2. CASE i = tail + 1
    <3>1. i - 1 = tail BY <2>1, <2>2
    <3> QED BY <1>5, <2>2, <3>1
  <2>3. CASE i # tail + 1
    <3>1. i \in 1..tail /\ i - 1 # tail /\ i - 1 \in LogData BY <1>4, <2>1, <2>3
    <3>2. logd[i - 1] = View[lh[i]] BY <1>1, <3>1 DEF Copied
    <3> QED BY <1>5, <3>1, <3>2
  <2> QED BY <2>2, <2>3
<1>7. CASE tail + 1 = Len(lh)
  <2>1. stage' = "write_head" /\ tail' = 0 BY <1>7 DEF write_log
  <2>2. Copied(lh, Len(lh))' BY <1>2, <1>6, <1>7 DEF Copied
  <2> QED BY <1>1, <1>2, <1>3, <2>1, <2>2, LogFacts DEF StageInv, Booting
<1>8. CASE tail + 1 # Len(lh)
  <2>1. stage' = "write_log" /\ tail' = tail + 1 BY <1>1, <1>8 DEF write_log
  <2>2. tail' < Len(lh') BY <1>1, <1>2, <1>4, <1>8, <2>1, LogFacts
  <2>3. Copied(lh, tail)' BY <1>6, <2>1 DEF Copied
  <2> QED BY <1>1, <1>2, <1>3, <2>1, <2>2, <2>3, LogFacts DEF StageInv, Booting
<1> QED BY <1>1, <1>7, <1>8

LEMMA StageWriteHead ==
  ASSUME LogInv, write_head
  PROVE  StageInv'
<1>1. /\ UNCHANGED <<home, logd, cache, dirty, lh, committing, pc, blk, tail>>
      /\ stage = "write_head" /\ hdr' = lh /\ stage' = "install"
  BY DEF write_head, bufVars, logVars, callVars
<1>2. UnpinnedIsClean' /\ View' = View BY <1>1, BufferFrame
<1>3. Copied(lh, Len(lh)) /\ tail = 0 /\ committing BY <1>1 DEF LogInv, StageInv
<1>4. Copied(lh, Len(lh))' BY <1>1, <1>2, <1>3 DEF Copied
<1>5. (dirty \subseteq {lh[i] : i \in tail + 1..Len(lh)})' BY <1>1, <1>3, LogFacts DEF Entries
<1>6. Installed(lh, tail)'
  <2>1. tail' = 0 BY <1>1, <1>3
  <2>2. 1..tail' = {} BY ONLY <2>1
  <2> QED BY ONLY <2>2 DEF Installed
<1>7. tail' <= Len(lh')
  <2>1. Len(lh) \in Nat BY LogFacts
  <2> QED BY ONLY <1>1, <1>3, <2>1
<1> QED BY <1>1, <1>2, <1>3, <1>4, <1>5, <1>6, <1>7, LogFacts DEF StageInv, Booting

\* install_trans(), after commit()'s header or in recovery.
LEMMA StageInstall ==
  ASSUME LogInv, install_trans \/ recover_install
  PROVE  /\ StageInv' /\ UNCHANGED <<logd, hdr>> /\ Booting' = Booting
         /\ \A b \in Blocks : b \notin Entries(hdr) => home'[b] = home[b]
         /\ ~Booting => View' = View
<1>1. \/ stage = "install" /\ Install("install", "erase")
      \/ stage = "recover" /\ Install("recover", "recovered")
  BY DEF install_trans, recover_install, Install
<1>2. /\ hdr = lh /\ tail <= Len(lh) /\ Installed(lh, tail)
      /\ dirty \subseteq {lh[i] : i \in tail + 1..Len(lh)} /\ (Booting => dirty = {})
      /\ committing <=> stage = "install"
      /\ stage = "install" => Copied(lh, Len(lh))
  BY <1>1 DEF LogInv, StageInv, Booting
<1>3. UNCHANGED <<logd, hdr, committing, pc, blk>> BY <1>1 DEF Install, callVars
<1>4. tail \in Nat /\ Len(lh) \in Nat BY LogFacts
<1>5. CASE tail < Len(lh)
  <2> DEFINE b == lh[tail + 1]
  <2>1. tail + 1 \in 1..Len(lh) /\ b \in Blocks /\ tail \in LogData
    BY <1>4, <1>5, LogFacts DEF LogData
  <2>2. /\ home' = [home EXCEPT ![b] = logd[tail]] /\ cache' = [cache EXCEPT ![b] = logd[tail]]
        /\ dirty' = dirty \ {b} /\ tail' = tail + 1 /\ UNCHANGED <<lh, stage>>
    BY <1>1, <1>5 DEF Install
  <2>3. \A c \in Blocks : /\ home'[c] = IF c = b THEN logd[tail] ELSE home[c]
                          /\ cache'[c] = IF c = b THEN logd[tail] ELSE cache[c]
    BY <2>1, <2>2, Contents
  <2>4. \A i \in 1..Len(lh) : lh[i] \in Blocks /\ (lh[i] = b => i = tail + 1)
    BY <2>1, LogFacts DEF Distinct
  <2> HIDE DEF b
  <2>5. UnpinnedIsClean' BY <1>3, <2>2, <2>3, LogFacts DEF UnpinnedIsClean, InUse
  <2>6. \A i \in 1..tail + 1 : home'[lh[i]] = logd[i - 1]
    <3> SUFFICES ASSUME NEW i \in 1..tail + 1 PROVE home'[lh[i]] = logd[i - 1] OBVIOUS
    <3>1. CASE i = tail + 1
      <4>1. i - 1 = tail /\ lh[i] = b BY <1>4, <3>1 DEF b
      <4> QED BY <2>1, <2>3, <4>1
    <3>2. CASE i # tail + 1
      <4>1. i \in 1..tail /\ i \in 1..Len(lh) BY <1>2, <1>4, <3>2
      <4>2. lh[i] \in Blocks /\ lh[i] # b BY <2>4, <3>2, <4>1
      <4>3. home[lh[i]] = logd[i - 1] BY <1>2, <4>1 DEF Installed
      <4> QED BY <2>3, <4>2, <4>3
    <3> QED BY <3>1, <3>2
  <2>7. Installed(lh, tail)' BY <1>3, <2>2, <2>6 DEF Installed
  <2>8. dirty' \subseteq {lh[i] : i \in tail + 2..Len(lh)}
    <3> SUFFICES ASSUME NEW c \in dirty' PROVE \E i \in tail + 2..Len(lh) : c = lh[i] OBVIOUS
    <3>1. c \in dirty /\ c # b BY <2>2
    <3>2. PICK i \in tail + 1..Len(lh) : c = lh[i] BY <1>2, <3>1
    <3>3. i # tail + 1 BY <3>1, <3>2 DEF b
    <3>4. i \in tail + 2..Len(lh) BY <1>4, <3>2, <3>3
    <3> QED BY <3>2, <3>4
  <2>9. (dirty \subseteq {lh[i] : i \in tail + 1..Len(lh)})'
    <3>1. tail' + 1 = tail + 2 BY <1>4, <2>2
    <3> QED BY <2>2, <2>8, <3>1
  <2>10. stage = "install" => View' = View
    <3> SUFFICES ASSUME stage = "install" PROVE View' = View OBVIOUS
    <3>1. View[b] = logd[tail]
      <4>1. logd[(tail + 1) - 1] = View[lh[tail + 1]] BY <1>2, <2>1 DEF Copied
      <4> QED BY <1>4, <4>1 DEF b
    <3>2. logd[tail] # NoValue BY <2>1, Contents
    <3>3. \A c \in Blocks : View'[c] = View[c] BY <2>1, <2>3, <3>1, <3>2 DEF View
    <3> QED BY <3>3 DEF View
  <2>11. stage = "install" => Copied(lh, Len(lh))' BY <1>2, <1>3, <2>2, <2>10 DEF Copied
  <2>12. dirty' \subseteq Entries(lh') /\ (Booting => dirty' = {}) BY <1>2, <2>2, LogFacts
  <2>13. tail' <= Len(lh') BY <1>4, <1>5, <2>2
  <2>14. StageInv'
    BY <1>1, <1>2, <1>3, <2>2, <2>5, <2>7, <2>9, <2>11, <2>12, <2>13, LogFacts DEF StageInv, Booting
  <2>15. b \in Entries(hdr) BY <1>2, <2>1 DEF Entries, b
  <2>16. \A c \in Blocks : c \notin Entries(hdr) => home'[c] = home[c] BY <2>3, <2>15
  <2> QED BY <1>1, <1>3, <2>2, <2>10, <2>14, <2>16 DEF Booting
<1>6. CASE ~(tail < Len(lh))
  <2>1. tail = Len(lh) /\ dirty = {} BY <1>2, <1>4, <1>6
  <2>2. /\ lh' = <<>> /\ tail' = 0 /\ UNCHANGED <<home, cache, dirty>>
        /\ \/ stage = "install" /\ stage' = "erase"
           \/ stage = "recover" /\ stage' = "recovered"
    BY <1>1, <1>6 DEF Install, bufVars
  <2>3. UnpinnedIsClean' /\ View' = View BY <1>3, <2>2, BufferFrame
  <2>4. Installed(hdr, Len(hdr))' BY <1>2, <1>3, <2>1, <2>2 DEF Installed
  <2>5. StageInv'
    BY <1>2, <1>3, <2>1, <2>2, <2>3, <2>4, LogFacts, EmptyLog DEF StageInv, Booting
  <2> QED BY <1>3, <2>2, <2>3, <2>5 DEF Booting
<1> QED BY <1>5, <1>6

LEMMA StageErase ==
  ASSUME LogInv, erase \/ recover_erase
  PROVE  StageInv' /\ Installed(hdr, Len(hdr)) /\ hdr' = <<>>
<1>1. /\ UNCHANGED <<home, cache, dirty, lh, committing, pc, blk, tail>> /\ hdr' = lh
      /\ \/ stage = "erase" /\ stage' = "done"
         \/ stage = "recovered" /\ stage' = "none"
  BY DEF erase, recover_erase, bufVars, logVars, callVars
<1>2. UnpinnedIsClean' BY <1>1, BufferFrame
<1>3. Installed(hdr, Len(hdr)) /\ lh = <<>> /\ tail = 0 /\ (committing <=> stage = "erase")
  BY <1>1 DEF LogInv, StageInv
<1>4. StageInv' BY <1>1, <1>2, <1>3, LogFacts, EmptyLog DEF StageInv, Booting
<1> QED BY <1>1, <1>3, <1>4

LEMMA StageReadHead ==
  ASSUME LogInv, read_head
  PROVE  StageInv'
<1>1. /\ UNCHANGED <<home, hdr, cache, dirty, committing, pc, blk, tail>> /\ lh' = hdr
      /\ stage = "read_head" /\ stage' = "recover"
  BY DEF read_head, diskVars, bufVars, callVars
<1>2. UnpinnedIsClean' BY <1>1, BufferFrame
<1>3. tail = 0 /\ dirty = {} /\ ~committing BY <1>1 DEF LogInv, StageInv, Booting
<1>4. Installed(lh, tail)' BY <1>1, <1>3 DEF Installed
<1>5. tail' <= Len(lh') BY <1>1, <1>3, LogFacts
<1> QED BY <1>1, <1>2, <1>3, <1>4, <1>5, LogFacts DEF StageInv, Booting

LEMMA StageCrash ==
  ASSUME LogInv, Crash
  PROVE  StageInv'
<1>1. UnpinnedIsClean' BY DEF UnpinnedIsClean, Crash
<1>2. Distinct(hdr) BY LogFacts
<1> QED BY <1>1, <1>2, EmptyLog DEF StageInv, Booting, Crash, diskVars

-----------------------------------------------------------------------------
(* The invariant.                                                          *)

LEMMA InitInv == Init => LogInv
<1> SUFFICES ASSUME Init PROVE LogInv OBVIOUS
<1> USE SizesAssumption, ValuesAssumption DEF Init
<1>1. TypeOK
  <2>1. (CHOOSE v \in Values : TRUE) \in Values OBVIOUS
  <2>2. 0 \in 0..OpWrites OBVIOUS
  <2>3. logd \in [LogData -> Values] BY <2>1
  <2>4. left \in [Calls -> 0..OpWrites] /\ cache \in [Blocks -> Values \cup {NoValue}] BY <2>2
  <2>5. hdr \in Seq(Blocks) /\ lh \in Seq(Blocks) OBVIOUS
  <2>6. /\ pc \in [Calls -> {"idle", "begin", "asleep", "active", "write", "append", "commit", "panic"}]
        /\ blk \in [Calls -> Blocks \cup {NoValue}]
    OBVIOUS
  <2> QED BY <2>3, <2>4, <2>5, <2>6, Zenon DEF TypeOK, Stages
<1>2. Active = {} /\ Due = {} BY DEF Active, Due
<1>3. Cardinality(Active) = 0 /\ Cardinality(Due) = 0 BY <1>2, FS_EmptySet
<1>4. \A o \in Calls : Need(o) = 0 BY DEF Need
<1>5. nlog - 1 \in Nat BY DEF nlog, LOGSIZE
<1>6. BudgetInv BY <1>1, <1>2, <1>3, <1>4, <1>5 DEF BudgetInv
<1>7. StageInv BY EmptyLog DEF StageInv, UnpinnedIsClean, Booting
<1> QED BY <1>6, <1>7 DEF LogInv

LEMMA BudgetStep ==
  ASSUME LogInv, Next
  PROVE  BudgetInv'
<1>1. BudgetInv /\ TypeOK' BY TypeStep DEF LogInv, BudgetInv
<1>2. ASSUME NEW o \in Calls, Enter(o) \/ CallStep(o) PROVE BudgetInv'
  BY <1>1, <1>2, BudgetEnter, BudgetBegin, BudgetModify, BudgetCheck, BudgetLogWrite, BudgetEndOp,
     BudgetEndCommit DEF CallStep
<1>3. CASE (\E b \in Blocks : bread(b) \/ Recycle(b)) \/ CommitStep \/ RecoveryStep
  BY <1>1, <1>3, BudgetQuiet
<1>4. CASE Crash BY <1>1, <1>4, BudgetCrash
<1> QED BY <1>2, <1>3, <1>4 DEF Next

LEMMA StageStep ==
  ASSUME LogInv, Next
  PROVE  StageInv'
<1>1. BudgetInv' BY BudgetStep
<1>2. ASSUME NEW o \in Calls, Enter(o) \/ CallStep(o) PROVE StageInv'
  BY <1>1, <1>2, StageCall, StageModify, StageLogWrite DEF CallStep
<1>3. ASSUME NEW b \in Blocks, bread(b) \/ Recycle(b) PROVE StageInv' BY <1>3, StageBuffer
<1>4. CASE CommitStep \/ RecoveryStep
  BY <1>4, StageWriteLog, StageWriteHead, StageInstall, StageErase, StageReadHead
     DEF CommitStep, RecoveryStep
<1>5. CASE Crash BY <1>5, StageCrash
<1> QED BY <1>2, <1>3, <1>4, <1>5 DEF Next

LEMMA StutterInv ==
  ASSUME LogInv, UNCHANGED vars
  PROVE  LogInv'
<1> USE DEF vars, diskVars, bufVars, logVars, callVars
<1>1. TypeOK' BY DEF LogInv, BudgetInv, TypeOK
<1>2. BudgetInv' BY <1>1, BudgetQuiet DEF LogInv
<1>3. UnpinnedIsClean' BY ZenonT(30) DEF LogInv, StageInv, UnpinnedIsClean, InUse
<1>4. View' = View BY Zenon DEF View
<1>5. UNCHANGED <<home, logd, hdr, lh, dirty, committing, stage, tail>> OBVIOUS
<1>6. StageInv' BY ONLY <1>3, <1>4, <1>5, LogInv, StageFrame DEF LogInv
<1> QED BY <1>2, <1>6 DEF LogInv

\* LogInv holds in every reachable state, for any number of blocks, calls and
\* values, and any size of the log (log.c).
THEOREM Invariance == Spec => []LogInv
<1>1. LogInv /\ [Next]_vars => LogInv'
  BY BudgetStep, StageStep, StutterInv DEF LogInv
<1> QED BY <1>1, InitInv, PTL DEF Spec

\* No call reaches a panic of log_write() or end_op() (log.c:152, 218-221).
THEOREM NoPanicCorrect == Spec => []NoPanic
<1>1. LogInv => NoPanic BY DEF LogInv, BudgetInv, NoPanic
<1> QED BY <1>1, Invariance, PTL

\* write_log() stays within the log's area on disk, although log_write() tests
\* the limit before it takes the lock (log.c:183, 218).
THEOREM LogInAreaCorrect == Spec => []LogInArea
<1>1. LogInv => LogInArea
  BY FiniteDue, SizesAssumption DEF LogInv, BudgetInv, TypeOK, LogInArea, nlog, LOGSIZE
<1> QED BY <1>1, Invariance, PTL

-----------------------------------------------------------------------------
(* The log implements an atomic disk.                                      *)

Current == IF Booting THEN Durable ELSE View

\* What a reboot restores, block by block.
LEMMA DurableIs ==
  Distinct(hdr) =>
    /\ \A i \in 1..Len(hdr) : hdr[i] \in Blocks => Durable[hdr[i]] = logd[i - 1]
    /\ \A b \in Blocks : b \notin Entries(hdr) => Durable[b] = home[b]
<1> SUFFICES ASSUME Distinct(hdr)
             PROVE  /\ \A i \in 1..Len(hdr) : hdr[i] \in Blocks => Durable[hdr[i]] = logd[i - 1]
                    /\ \A b \in Blocks : b \notin Entries(hdr) => Durable[b] = home[b]
  OBVIOUS
<1>1. ASSUME NEW i \in 1..Len(hdr), hdr[i] \in Blocks PROVE Durable[hdr[i]] = logd[i - 1]
  <2>1. (CHOOSE j \in 1..Len(hdr) : hdr[j] = hdr[i]) = i BY DEF Distinct
  <2> QED BY <1>1, <2>1 DEF Durable
<1>2. ASSUME NEW b \in Blocks, b \notin Entries(hdr) PROVE Durable[b] = home[b]
  BY <1>2 DEF Durable, Entries
<1> QED BY <1>1, <1>2

\* The header, the log's copies and the blocks at home are unchanged.
LEMMA DurableSame ==
  ASSUME UNCHANGED <<home, logd, hdr>> PROVE Durable' = Durable
BY DEF Durable

LEMMA DurableNoHeader ==
  hdr = <<>> => Durable = [b \in Blocks |-> home[b]]
<1> SUFFICES ASSUME hdr = <<>> PROVE Durable = [b \in Blocks |-> home[b]] OBVIOUS
<1>1. \A b \in Blocks : ~\E i \in 1..Len(hdr) : hdr[i] = b OBVIOUS
<1> QED BY <1>1 DEF Durable

\* Steps that no observer of the disk sees, or sees as begin_op() and end_op().
LEMMA CallRefines ==
  ASSUME LogInv, LogInv', NEW o \in Calls,
         Enter(o) \/ begin_op(o) \/ log_write_check(o) \/ end_op(o) \/ end_commit(o) \/ log_write(o)
  PROVE  /\ Durable' = Durable /\ Current' = Current
         /\ \/ Active' = Active
            \/ o \notin Active /\ Active' = Active \cup {o}
            \/ o \in Active /\ Active' = Active \ {o}
<1>1. UNCHANGED <<home, logd, hdr, cache>>
  BY DEF Enter, begin_op, log_write_check, end_op, end_commit, log_write, diskVars, bufVars
<1>2. Durable' = Durable BY <1>1, DurableSame
<1>3. View' = View BY <1>1, ZenonT(30) DEF View
<1>4. Booting' = Booting
  BY StageCall, StageLogWrite DEF LogInv, log_write, Booting
<1>5. Current' = Current BY <1>2, <1>3, <1>4 DEF Current
<1>6. pc \in [Calls -> {"idle", "begin", "asleep", "active", "write", "append", "commit", "panic"}]
  BY DEF LogInv, BudgetInv, TypeOK
<1>7. CASE Enter(o) BY <1>2, <1>5, <1>6, <1>7 DEF Enter, Active
<1>8. CASE begin_op(o) BY <1>2, <1>5, <1>6, <1>8 DEF begin_op, Active
<1>9. CASE log_write_check(o)
  <2>1. pc' = [pc EXCEPT ![o] = "append"] BY <1>6, <1>9, ZenonT(30) DEF log_write_check, LogInv, BudgetInv
  <2> QED BY <1>2, <1>5, <1>6, <1>9, <2>1 DEF log_write_check, Active
<1>10. CASE end_op(o)
  <2>1. pc' = [pc EXCEPT ![o] = "commit"] \/ pc' = Woken([pc EXCEPT ![o] = "idle"])
    BY <1>6, <1>10 DEF end_op, LogInv, BudgetInv
  <2> QED BY <1>2, <1>5, <1>6, <1>10, <2>1 DEF end_op, Woken, Active
<1>11. CASE end_commit(o) BY <1>2, <1>5, <1>6, <1>11 DEF end_commit, Woken, Active
<1>12. CASE log_write(o) BY <1>2, <1>5, <1>6, <1>12 DEF log_write, Active
<1> QED BY <1>7, <1>8, <1>9, <1>10, <1>11, <1>12

\* The header's disk write is the commit: blocks in the log are read from its
\* copies, all others are the same at home and in memory.
LEMMA WriteHeadRefines ==
  ASSUME LogInv, LogInv', write_head
  PROVE  Active = {} /\ Durable' = View /\ Current' = View /\ Current = View
<1>1. /\ UNCHANGED <<home, logd, cache, dirty, pc, blk>> /\ hdr' = lh
      /\ stage = "write_head" /\ stage' = "install"
  BY DEF write_head, bufVars, logVars, callVars
<1>2. committing /\ Copied(lh, Len(lh)) BY <1>1 DEF LogInv, StageInv
<1>3. Active = {} BY <1>2 DEF LogInv, BudgetInv
<1>4. ~Booting /\ ~Booting' BY <1>1 DEF Booting
<1>5. View' = View BY <1>1, BufferFrame
<1>6. (Distinct(hdr) =>
         /\ \A i \in 1..Len(hdr) : hdr[i] \in Blocks => Durable[hdr[i]] = logd[i - 1]
         /\ \A b \in Blocks : b \notin Entries(hdr) => Durable[b] = home[b])'
  BY DurableIs, PTL
<1>7. /\ \A i \in 1..Len(lh) : lh[i] \in Blocks => Durable'[lh[i]] = logd[i - 1]
      /\ \A b \in Blocks : b \notin Entries(lh) => Durable'[b] = home[b]
  BY <1>1, <1>6, LogFacts, ZenonT(30)
<1>8. \A b \in Blocks : Durable'[b] = View[b]
  <2> SUFFICES ASSUME NEW b \in Blocks PROVE Durable'[b] = View[b] OBVIOUS
  <2>1. CASE b \in Entries(lh)
    <3>1. PICK i \in 1..Len(lh) : lh[i] = b BY <2>1 DEF Entries
    <3> QED BY <1>2, <1>7, <3>1 DEF Copied
  <2>2. CASE b \notin Entries(lh)
    <3>1. b \notin dirty BY <2>2, LogFacts
    <3>2. ~InUse(b) BY <1>3 DEF InUse, Active
    <3>3. View[b] = home[b] BY <3>1, <3>2, LogFacts DEF UnpinnedIsClean, View
    <3> QED BY <1>7, <2>2, <3>3
  <2> QED BY <2>1, <2>2
<1>9. Durable' = View BY <1>8 DEF Durable, View
<1> QED BY <1>3, <1>4, <1>5, <1>9 DEF Current

\* install_trans() rewrites only blocks that a reboot would take from the log.
LEMMA InstallRefines ==
  ASSUME LogInv, LogInv', install_trans \/ recover_install
  PROVE  Durable' = Durable /\ Current' = Current /\ Active' = Active
<1>1. /\ UNCHANGED <<logd, hdr>> /\ Booting' = Booting /\ (~Booting => View' = View)
      /\ \A b \in Blocks : b \notin Entries(hdr) => home'[b] = home[b]
  BY StageInstall
<1>2. \A b \in Blocks : Durable'[b] = Durable[b]
  <2> SUFFICES ASSUME NEW b \in Blocks PROVE Durable'[b] = Durable[b] OBVIOUS
  <2>1. CASE b \in Entries(hdr) BY <1>1, <2>1 DEF Durable, Entries
  <2>2. CASE b \notin Entries(hdr) BY <1>1, <2>2 DEF Durable, Entries
  <2> QED BY <2>1, <2>2
<1>3. Durable' = Durable BY <1>2 DEF Durable
<1>4. Active' = Active BY DEF install_trans, recover_install, Install, callVars, Active
<1> QED BY <1>1, <1>3, <1>4 DEF Current

\* Once all is installed the header says nothing that is not at home.
LEMMA EraseRefines ==
  ASSUME LogInv, LogInv', erase \/ recover_erase
  PROVE  Durable' = Durable /\ Current' = Current /\ Active' = Active
<1>1. Installed(hdr, Len(hdr)) /\ hdr' = <<>> BY StageErase
<1>2. UNCHANGED <<home, cache, dirty, pc, blk>>
  BY DEF erase, recover_erase, bufVars, callVars
<1>3. (hdr = <<>> => Durable = [b \in Blocks |-> home[b]])' BY DurableNoHeader, PTL
<1>4. Durable' = [b \in Blocks |-> home[b]] BY <1>1, <1>2, <1>3
<1>5. \A b \in Blocks : Durable[b] = home[b]
  <2> SUFFICES ASSUME NEW b \in Blocks PROVE Durable[b] = home[b] OBVIOUS
  <2>1. CASE b \in Entries(hdr)
    <3>1. PICK i \in 1..Len(hdr) : hdr[i] = b BY <2>1 DEF Entries
    <3>2. Durable[b] = logd[i - 1] BY <3>1, DurableIs, LogFacts
    <3>3. home[b] = logd[i - 1] BY <1>1, <3>1 DEF Installed
    <3> QED BY <3>2, <3>3
  <2>2. CASE b \notin Entries(hdr) BY <2>2, DurableIs, LogFacts
  <2> QED BY <2>1, <2>2
<1>6. Durable' = Durable
  <2>1. Durable = [b \in Blocks |-> Durable[b]] BY DEF Durable
  <2>2. Durable = [b \in Blocks |-> home[b]] BY ONLY <1>5, <2>1
  <2> QED BY <1>4, <2>2
<1>7. View' = View BY <1>2, BufferFrame
<1>8. Active' = Active BY <1>2 DEF Active
<1>9. CASE erase
  <2>1. ~Booting /\ ~Booting' BY <1>9 DEF erase, Booting
  <2> QED BY <1>6, <1>7, <1>8, <2>1 DEF Current
<1>10. CASE recover_erase
  <2>1. Booting /\ ~Booting' BY <1>10 DEF recover_erase, Booting
  <2>2. dirty = {} BY <2>1 DEF LogInv, StageInv
  <2>3. \A b \in Blocks : ~InUse(b) BY <2>1 DEF LogInv, BudgetInv, InUse
  <2>4. \A b \in Blocks : View[b] = home[b]
    BY <2>2, <2>3, LogFacts DEF UnpinnedIsClean, View
  <2>5. View = Durable' BY <1>4, <2>4 DEF View
  <2> QED BY <1>6, <1>7, <1>8, <2>1, <2>5 DEF Current
<1> QED BY <1>9, <1>10

LEMMA QuietRefines ==
  ASSUME LogInv, LogInv',
         \/ \E b \in Blocks : bread(b) \/ Recycle(b)
         \/ write_log \/ read_head \/ UNCHANGED vars
  PROVE  Durable' = Durable /\ Current' = Current /\ Active' = Active
<1> USE DEF diskVars, bufVars, logVars, callVars
<1>1. ASSUME NEW b \in Blocks, bread(b) \/ Recycle(b)
      PROVE  Durable' = Durable /\ Current' = Current /\ Active' = Active
  <2>1. View' = View BY <1>1, StageBuffer
  <2>2. UNCHANGED <<home, logd, hdr, pc, stage>> BY <1>1, Zenon DEF bread, Recycle
  <2> QED BY <2>1, <2>2, DurableSame DEF Current, Booting, Active
<1>2. CASE write_log
  <2>1. hdr = <<>> /\ hdr' = <<>> BY <1>2, StageWriteLog DEF write_log
  <2>2. (hdr = <<>> => Durable = [b \in Blocks |-> home[b]])' BY DurableNoHeader, PTL
  <2>3. Durable' = Durable BY <1>2, <2>1, <2>2, DurableNoHeader, ZenonT(30) DEF write_log
  <2>4. View' = View /\ Active' = Active /\ ~Booting /\ ~Booting'
    BY <1>2, Zenon DEF write_log, View, Active, Booting
  <2> QED BY <2>3, <2>4 DEF Current
<1>3. CASE read_head
  <2>1. UNCHANGED <<home, logd, hdr, pc>> /\ Booting /\ Booting' BY <1>3 DEF read_head, Booting
  <2> QED BY <2>1, DurableSame DEF Current, Active
<1>4. CASE UNCHANGED vars
  <2>1. UNCHANGED <<home, logd, hdr, pc, cache, stage>> BY <1>4 DEF vars
  <2> QED BY <2>1, DurableSame DEF Current, Active, View, Booting
<1> QED BY <1>1, <1>2, <1>3, <1>4

\* The log implements an atomic disk (log.c:9-21, 98-122, 192-202): updates become
\* durable all at once, while no call is active, and a crash at any point, of
\* recovery too, goes back to the last commit.
THEOREM LogRefinesDisk == Spec => AtomicUpdates
<1>1. Init => Abstract!Init
  <2> SUFFICES ASSUME Init PROVE Abstract!Init OBVIOUS
  <2>1. Durable = [b \in Blocks |-> home[b]] BY DurableNoHeader DEF Init
  <2>2. Durable \in [Blocks -> Values] BY <2>1 DEF Init
  <2>3. Booting /\ Active = {} BY DEF Init, Booting, Active
  <2> QED BY <2>2, <2>3 DEF Abstract!Init
<1>2. LogInv /\ LogInv' /\ [Next]_vars => [Abstract!Next]_Abstract!avars
  <2> SUFFICES ASSUME LogInv, LogInv', [Next]_vars PROVE [Abstract!Next]_Abstract!avars
    OBVIOUS
  <2> USE DEF Abstract!Next, Abstract!avars
  <2>1. ASSUME Durable' = Durable, Current' = Current, Active' = Active
        PROVE  [Abstract!Next]_Abstract!avars
    BY <2>1 DEF Current
  <2>2. ASSUME NEW o \in Calls, Enter(o) \/ begin_op(o) \/ log_write_check(o) \/ end_op(o)
                                \/ end_commit(o) \/ log_write(o)
        PROVE  [Abstract!Next]_Abstract!avars
    BY <2>2, CallRefines DEF Current, Abstract!Begin, Abstract!End
  <2>3. ASSUME NEW o \in Calls, NEW b \in Blocks, NEW v \in Values, Modify(o, b, v)
        PROVE  [Abstract!Next]_Abstract!avars
    <3>1. View' = [View EXCEPT ![b] = v] /\ stage = "none" BY <2>3, StageModify
    <3>2. UNCHANGED <<home, logd, hdr, stage>> BY <2>3 DEF Modify, diskVars
    <3>3. ~Booting /\ ~Booting' /\ Durable' = Durable BY <3>1, <3>2, DurableSame DEF Booting
    <3>4. o \in Active /\ Active' = Active
      BY <2>3 DEF Modify, Active, LogInv, BudgetInv, TypeOK
    <3> QED BY <3>1, <3>3, <3>4, Zenon DEF Abstract!Write
  <2>4. CASE write_head
    BY <2>4, WriteHeadRefines DEF Current, Abstract!Commit, write_head, callVars, Active
  <2>5. CASE install_trans \/ recover_install BY <2>1, <2>5, InstallRefines
  <2>6. CASE erase \/ recover_erase BY <2>1, <2>6, EraseRefines
  <2>7. CASE (\E b \in Blocks : bread(b) \/ Recycle(b)) \/ write_log \/ read_head \/ UNCHANGED vars
    BY <2>1, <2>7, QuietRefines
  <2>8. CASE Crash
    <3>1. Durable' = Durable BY <2>8, DurableSame DEF Crash, diskVars
    <3>2. Booting' /\ Active' = {} BY <2>8 DEF Crash, Booting, Active
    <3> QED BY <3>1, <3>2 DEF Abstract!Crash
  <2> QED
    BY <2>2, <2>3, <2>4, <2>5, <2>6, <2>7, <2>8 DEF Next, CallStep, CommitStep, RecoveryStep
<1> QED BY <1>1, <1>2, Invariance, PTL DEF Spec, AtomicUpdates, Abstract!Spec

=============================================================================
