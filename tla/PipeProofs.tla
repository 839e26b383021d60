----------------------------- MODULE PipeProofs -----------------------------
(***************************************************************************)
(* Proofs about the pipe, for any number of processes, any size of the     *)
(* buffer and any range of the counters that it divides: its memory is     *)
(* used only while it is a pipe, sleepers have to wait, end of file is     *)
(* real, and it implements a bounded byte stream.                          *)
(***************************************************************************)
EXTENDS Pipe, FiniteSetTheorems, TLAPS

Holders(e) == {p \in Procs : e \in fd[p]}
IsOpen(e)  == IF e = "r" THEN readopen ELSE writeopen
Reading    == {"racq", "rwait", "rsleep", "rchan", "rcopy"}
Writing    == {"wacq", "wloop", "wsleep", "wchan"}
Holding    == {"rwait", "rsleep", "rcopy", "wloop", "wsleep"}

\* An end is open until its last holder is through pipeclose().
EndsInv ==
  /\ \A e \in Ends : ref[e] = Cardinality(Holders(e))
  /\ \A e \in Ends : IsOpen(e) <=> Holders(e) # {} \/ \E p \in Procs : closing[p] = e
  /\ \A p \in Procs, e \in Ends :
       closing[p] = e => Holders(e) = {} /\ \A q \in Procs : closing[q] = e => q = p
  /\ allocated <=> readopen \/ writeopen

\* What a process does fits the ends it has open and the lock.
CallsInv ==
  /\ \A p \in Procs : pc[p] = "close" <=> closing[p] # None
  /\ \A p \in Procs : pc[p] \in Reading => "r" \in fd[p]
  /\ \A p \in Procs : pc[p] \in Writing => "w" \in fd[p]
  /\ \A p \in Procs : pc[p] \in Holding <=> lock = p

PipeInv == TypeOK /\ EndsInv /\ CallsInv

-----------------------------------------------------------------------------
(* Holders are counted.                                                    *)

LEMMA HoldersCounted ==
  ASSUME NEW e PROVE IsFiniteSet(Holders(e)) /\ Cardinality(Holders(e)) \in Nat
BY FS_Subset, FS_CardinalityType, ProcsAssumption DEF Holders

LEMMA ModRange ==
  ASSUME NEW n \in Nat, NEW m \in Nat \ {0} PROVE n % m \in 0..m - 1
OBVIOUS

-----------------------------------------------------------------------------
(* Types.                                                                  *)

LEMMA InitPipe == Init => PipeInv
<1> SUFFICES ASSUME Init PROVE PipeInv OBVIOUS
<1>1. TypeOK
  <2>1. (CHOOSE b \in Bytes : TRUE) \in Bytes BY ProcsAssumption
  <2>2. data \in [0..PIPESIZE - 1 -> Bytes] BY <2>1 DEF Init
  <2>3. 0 \in 0..UINT - 1 BY SizeAssumption
  <2>4. nread \in 0..UINT - 1 /\ nwrite \in 0..UINT - 1 BY <2>3 DEF Init
  <2>5. ref \in [Ends -> Nat] /\ todo \in [Procs -> Nat] BY DEF Init
  <2> QED BY <2>2, <2>4, <2>5, Zenon DEF Init, TypeOK
<1>2. \A e \in Ends : Holders(e) = {} BY DEF Init, Holders
<1>3. EndsInv BY <1>2, FS_EmptySet, ProcsAssumption, Zenon DEF Init, EndsInv, IsOpen, Ends
<1>4. CallsInv BY ProcsAssumption DEF Init, CallsInv, Reading, Writing, Holding
<1> QED BY <1>1, <1>3, <1>4 DEF PipeInv

LEMMA TypeStep ==
  ASSUME PipeInv, NEW p \in Procs, KernelStep(p) \/ UserStep(p) \/ kill(p)
  PROVE  TypeOK'
<1>1. TypeOK BY DEF PipeInv
<1>2. UINT \in Nat \ {0} /\ PIPESIZE \in Nat \ {0} /\ Counts \subseteq Nat BY SizeAssumption
<1> USE <1>1 DEF TypeOK, pipeVars, fileVars, Goto, Return
<1>3. CASE pipealloc(p)
  <2>1. ref' \in [Ends -> Nat] BY <1>3 DEF pipealloc
  <2>2. fd' \in [Procs -> SUBSET Ends] BY <1>3 DEF pipealloc
  <2>3. 0 \in 0..UINT - 1 BY <1>2
  <2> QED BY <1>3, <2>1, <2>2, <2>3 DEF pipealloc
<1>4. ASSUME NEW q \in Procs, Fork(p, q) PROVE TypeOK'
  <2>1. ref' \in [Ends -> Nat] BY <1>4 DEF Fork
  <2>2. fd' \in [Procs -> SUBSET Ends] BY <1>4 DEF Fork
  <2> QED BY <1>4, <2>1, <2>2 DEF Fork
<1>5. ASSUME NEW e \in Ends, fileclose(p, e) PROVE TypeOK'
  <2>1. p \in Holders(e) BY <1>5 DEF fileclose, Holders
  <2>2. ref[e] # 0 BY <2>1, HoldersCounted, FS_EmptySet DEF PipeInv, EndsInv
  <2>3. ref' \in [Ends -> Nat] BY <1>5, <2>2 DEF fileclose
  <2>4. fd' \in [Procs -> SUBSET Ends] BY <1>5 DEF fileclose
  <2>5. closing' \in [Procs -> Ends \cup {None}] BY <1>5 DEF fileclose
  <2>6. pc' = pc \/ pc' = [pc EXCEPT ![p] = "close"] BY <1>5 DEF fileclose
  <2> QED BY <1>5, <2>3, <2>4, <2>5, <2>6, Zenon DEF fileclose
<1>6. CASE pipeclose(p)
  <2>1. writeopen' \in BOOLEAN /\ readopen' \in BOOLEAN BY <1>6 DEF pipeclose
  <2>2. allocated' \in BOOLEAN BY <1>6, <2>1 DEF pipeclose
  <2> QED BY <1>6, <2>1, <2>2 DEF pipeclose, ReadersWoken, WritersWoken
<1>7. ASSUME NEW e \in Ends, NEW n \in Counts, Call(p, e, n) PROVE TypeOK'
  BY <1>2, <1>7 DEF Call
<1>8. CASE Acquire(p) \/ Sleep(p) BY <1>8, Zenon DEF Acquire, Sleep
<1>9. CASE piperead_wait(p)
  <2>1. /\ lock' \in {None, lock} /\ todo' \in {todo, [todo EXCEPT ![p] = 0]}
        /\ \E l \in {"user", "rsleep", "rcopy"} : pc' = [pc EXCEPT ![p] = l]
    BY <1>9 DEF piperead_wait
  <2> QED BY <1>9, <2>1 DEF piperead_wait
<1>10. CASE piperead_copy(p)
  <2>1. nread % PIPESIZE \in 0..PIPESIZE - 1 BY <1>2, ModRange
  <2>2. nread' \in 0..UINT - 1 BY <1>2, <1>10, ModRange DEF piperead_copy, Incremented
  <2>3. todo' \in [Procs -> Nat] BY <1>10 DEF piperead_copy
  <2>4. out' \in Bytes BY <1>10, <2>1 DEF piperead_copy
  <2> QED BY <1>10, <2>2, <2>3, <2>4 DEF piperead_copy
<1>11. CASE piperead_return(p) BY <1>11 DEF piperead_return, WritersWoken
<1>12. CASE pipewrite_full(p)
  <2>1. /\ lock' \in {None, lock} /\ todo' \in {todo, [todo EXCEPT ![p] = 0]}
        /\ \/ pc' = [pc EXCEPT ![p] = "user"]
           \/ pc' = ReadersWoken([pc EXCEPT ![p] = "wsleep"])
    BY <1>12 DEF pipewrite_full
  <2>2. pc' \in [Procs -> {"user", "racq", "rwait", "rsleep", "rchan", "rcopy",
                           "wacq", "wloop", "wsleep", "wchan", "close"}]
    BY <2>1, Zenon DEF ReadersWoken
  <2> QED BY <1>12, <2>1, <2>2 DEF pipewrite_full
<1>13. ASSUME NEW b \in Bytes, pipewrite_put(p, b) PROVE TypeOK'
  <2>1. nwrite' \in 0..UINT - 1 BY <1>2, <1>13, ModRange DEF pipewrite_put, Incremented
  <2>2. todo' \in [Procs -> Nat] BY <1>13 DEF pipewrite_put
  <2> QED BY <1>13, <2>1, <2>2, Zenon DEF pipewrite_put
<1>14. CASE pipewrite_return(p) BY <1>14 DEF pipewrite_return, ReadersWoken
<1>15. CASE kill(p) BY <1>15 DEF kill
<1> HIDE DEF TypeOK
<1> QED
  BY <1>3, <1>4, <1>5, <1>6, <1>7, <1>8, <1>9, <1>10, <1>11, <1>12, <1>13, <1>14, <1>15
     DEF KernelStep, UserStep

-----------------------------------------------------------------------------
(* Ends and calls.                                                         *)

LEMMA EndsFrame ==
  ASSUME EndsInv, UNCHANGED <<fd, ref, closing, readopen, writeopen, allocated>>
  PROVE  EndsInv'
<1>1. \A e : Holders(e)' = Holders(e) /\ IsOpen(e)' = IsOpen(e) BY DEF Holders, IsOpen
<1> QED BY <1>1 DEF EndsInv

\* Whoever holds the lock does so alone.
LEMMA LockHeld ==
  ASSUME PipeInv, NEW p \in Procs
  PROVE  /\ pc[p] \in Holding => lock = p /\ \A q \in Procs : q # p => pc[q] \notin Holding
         /\ lock = None => pc[p] \notin Holding
BY ProcsAssumption DEF PipeInv, CallsInv

\* A step of p that leaves the ends alone: others are at most woken, and p takes
\* the lock, keeps it, gives it up or has nothing to do with it.
Moved(p) ==
  /\ UNCHANGED <<fd, ref, closing, readopen, writeopen, allocated>>
  /\ pc'[p] = "close" <=> pc[p] = "close"
  /\ \A q \in Procs : q # p => \/ pc'[q] = pc[q]
                               \/ pc[q] = "rchan" /\ pc'[q] = "racq"
                               \/ pc[q] = "wchan" /\ pc'[q] = "wacq"
  /\ pc'[p] \in Reading => "r" \in fd[p]
  /\ pc'[p] \in Writing => "w" \in fd[p]
  /\ \/ pc'[p] \in Holding /\ lock' = p /\ lock \in {None, p}
     \/ pc'[p] \notin Holding /\ lock' = None /\ lock = p
     \/ pc'[p] \notin Holding /\ lock' = lock /\ lock # p

LEMMA MovedKeeps ==
  ASSUME PipeInv, NEW p \in Procs, Moved(p)
  PROVE  EndsInv' /\ CallsInv'
<1>1. EndsInv' BY EndsFrame DEF PipeInv, Moved
<1>2. UNCHANGED <<fd, closing>> BY DEF Moved
<1>3. CallsInv BY DEF PipeInv
<1>4. ASSUME NEW q \in Procs
      PROVE  /\ pc'[q] = "close" <=> closing'[q] # None
             /\ pc'[q] \in Reading => "r" \in fd'[q]
             /\ pc'[q] \in Writing => "w" \in fd'[q]
  BY <1>2, <1>3 DEF Moved, CallsInv, Reading, Writing
<1>5. ASSUME NEW q \in Procs PROVE pc'[q] \in Holding <=> lock' = q
  BY <1>3, ProcsAssumption DEF Moved, CallsInv, Holding
<1> QED BY <1>1, <1>4, <1>5 DEF CallsInv

LocalStep(p) ==
  \/ Acquire(p) \/ Sleep(p) \/ piperead_wait(p) \/ piperead_copy(p) \/ piperead_return(p)
  \/ pipewrite_full(p) \/ pipewrite_return(p) \/ (\E b \in Bytes : pipewrite_put(p, b))
  \/ kill(p) \/ \E e \in Ends, n \in Counts : Call(p, e, n)

LEMMA LocalMoves ==
  ASSUME PipeInv, NEW p \in Procs, LocalStep(p)
  PROVE  Moved(p)
<1>1. UNCHANGED <<fd, ref, closing, readopen, writeopen, allocated>>
  BY DEF LocalStep, Acquire, Sleep, piperead_wait, piperead_copy, piperead_return, pipewrite_full,
         pipewrite_return, pipewrite_put, kill, Call, pipeVars, fileVars
<1>2. pc \in [Procs -> {"user", "racq", "rwait", "rsleep", "rchan", "rcopy",
                        "wacq", "wloop", "wsleep", "wchan", "close"}]
  BY DEF PipeInv, TypeOK
<1>3. /\ pc[p] \in Reading => "r" \in fd[p]
      /\ pc[p] \in Writing => "w" \in fd[p]
      /\ pc[p] \in Holding <=> lock = p
  BY DEF PipeInv, CallsInv
<1> USE DEF Moved, Goto, Return
<1>4. CASE Acquire(p) BY <1>1, <1>2, <1>3, <1>4 DEF Acquire, Reading, Writing, Holding
<1>5. CASE Sleep(p) BY <1>1, <1>2, <1>3, <1>5 DEF Sleep, Reading, Writing, Holding
<1>6. CASE piperead_wait(p)
  <2>1. pc[p] = "rwait" BY <1>6 DEF piperead_wait
  <2>2. \/ pc' = [pc EXCEPT ![p] = "user"] /\ lock' = None
        \/ pc' = [pc EXCEPT ![p] = "rsleep"] /\ lock' = lock
        \/ pc' = [pc EXCEPT ![p] = "rcopy"] /\ lock' = lock
    BY <1>6 DEF piperead_wait
  <2> QED BY <1>1, <1>2, <1>3, <2>1, <2>2 DEF Reading, Writing, Holding
<1>7. CASE piperead_copy(p) \/ \E b \in Bytes : pipewrite_put(p, b)
  <2>1. pc[p] \in {"rcopy", "wloop"} /\ UNCHANGED <<pc, lock>>
    BY <1>7 DEF piperead_copy, pipewrite_put
  <2> QED BY <1>1, <1>2, <1>3, <2>1 DEF Reading, Writing, Holding
<1>8. CASE piperead_return(p)
  <2>1. pc[p] = "rcopy" /\ lock' = None /\ pc' = [WritersWoken(pc) EXCEPT ![p] = "user"]
    BY <1>8 DEF piperead_return
  <2> QED BY <1>1, <1>2, <1>3, <2>1 DEF WritersWoken, Reading, Writing, Holding
<1>9. CASE pipewrite_return(p)
  <2>1. pc[p] = "wloop" /\ lock' = None /\ pc' = [ReadersWoken(pc) EXCEPT ![p] = "user"]
    BY <1>9 DEF pipewrite_return
  <2> QED BY <1>1, <1>2, <1>3, <2>1 DEF ReadersWoken, Reading, Writing, Holding
<1>10. CASE pipewrite_full(p)
  <2>1. /\ pc[p] = "wloop"
        /\ \/ pc' = [pc EXCEPT ![p] = "user"] /\ lock' = None
           \/ pc' = ReadersWoken([pc EXCEPT ![p] = "wsleep"]) /\ lock' = lock
    BY <1>10 DEF pipewrite_full
  <2> QED BY <1>1, <1>2, <1>3, <2>1 DEF ReadersWoken, Reading, Writing, Holding
<1>11. CASE kill(p)
  <2>1. /\ lock' = lock
        /\ \/ pc' = pc
           \/ pc[p] = "rchan" /\ pc' = [pc EXCEPT ![p] = "racq"]
           \/ pc[p] = "wchan" /\ pc' = [pc EXCEPT ![p] = "wacq"]
    BY <1>11, Zenon DEF kill
  <2> QED BY <1>1, <1>2, <1>3, <2>1, ProcsAssumption DEF Reading, Writing, Holding
<1>12. CASE \E e \in Ends, n \in Counts : Call(p, e, n)
  <2>1. /\ pc[p] = "user" /\ lock' = lock
        /\ \/ "r" \in fd[p] /\ pc' = [pc EXCEPT ![p] = "racq"]
           \/ "w" \in fd[p] /\ pc' = [pc EXCEPT ![p] = "wacq"]
    BY <1>12, Zenon DEF Call, Ends
  <2> QED BY <1>1, <1>2, <1>3, <2>1 DEF Reading, Writing, Holding
<1> HIDE DEF Moved
<1> QED BY <1>4, <1>5, <1>6, <1>7, <1>8, <1>9, <1>10, <1>11, <1>12 DEF LocalStep

\* Without the page no process is inside a call or has an end open.
LEMMA FreedUnused ==
  ASSUME PipeInv, ~allocated
  PROVE  /\ lock = None
         /\ \A q \in Procs : pc[q] = "user" /\ fd[q] = {} /\ closing[q] = None
<1>1. ~readopen /\ ~writeopen BY DEF PipeInv, EndsInv
<1>2. \A e \in Ends : Holders(e) = {} /\ \A q \in Procs : closing[q] # e
  BY <1>1 DEF PipeInv, EndsInv, IsOpen, Ends
<1>3. \A q \in Procs : closing[q] \in Ends \cup {None} /\ fd[q] \subseteq Ends BY DEF PipeInv, TypeOK
<1>4. ASSUME NEW q \in Procs PROVE pc[q] = "user" /\ fd[q] = {} /\ closing[q] = None
  <2>1. closing[q] = None BY <1>2, <1>3
  <2>2. \A e \in Ends : e \notin fd[q] BY <1>2 DEF Holders
  <2>3. fd[q] = {} BY <1>3, <2>2
  <2>4. pc[q] # "close" /\ pc[q] \notin Reading /\ pc[q] \notin Writing
    BY <2>1, <2>3 DEF PipeInv, CallsInv
  <2>5. pc[q] \in {"user", "racq", "rwait", "rsleep", "rchan", "rcopy",
                   "wacq", "wloop", "wsleep", "wchan", "close"}
    BY DEF PipeInv, TypeOK
  <2> QED BY <2>1, <2>3, <2>4, <2>5 DEF Reading, Writing
<1>5. lock \in Procs \cup {None} /\ \A q \in Procs : pc[q] \in Holding <=> lock = q
  BY DEF PipeInv, TypeOK, CallsInv
<1>6. lock = None BY <1>4, <1>5 DEF Holding
<1> QED BY <1>4, <1>6

LEMMA AllocKeeps ==
  ASSUME PipeInv, NEW p \in Procs, pipealloc(p)
  PROVE  EndsInv' /\ CallsInv'
<1>1. /\ lock = None
      /\ \A q \in Procs : pc[q] = "user" /\ fd[q] = {} /\ closing[q] = None
  BY FreedUnused DEF pipealloc
<1>2. /\ readopen' /\ writeopen' /\ allocated' /\ UNCHANGED <<lock, pc, closing>>
      /\ \A e \in Ends : ref'[e] = 1
  BY DEF pipealloc
<1>3. \A q \in Procs : fd'[q] = IF q = p THEN Ends ELSE {} BY <1>1, Zenon DEF pipealloc, PipeInv, TypeOK
<1>4. \A e \in Ends : Holders(e)' = {p} BY <1>3 DEF Holders
<1>5. Cardinality({p}) = 1 BY FS_Singleton
<1>6. EndsInv' BY <1>1, <1>2, <1>4, <1>5, ProcsAssumption, Zenon DEF EndsInv, IsOpen, Ends
<1>7. CallsInv' BY <1>1, <1>2, ProcsAssumption DEF CallsInv, Reading, Writing, Holding
<1> QED BY <1>6, <1>7

LEMMA ForkKeeps ==
  ASSUME PipeInv, NEW p \in Procs, NEW q \in Procs, Fork(p, q)
  PROVE  EndsInv' /\ CallsInv'
<1>1. /\ fd[q] = {} /\ pc[q] = "user" /\ UNCHANGED <<readopen, writeopen, allocated, lock, pc, closing>>
      /\ \A e \in Ends : ref'[e] = IF e \in fd[p] THEN ref[e] + 1 ELSE ref[e]
  BY DEF Fork, pipeVars
<1>2. \A x \in Procs : fd'[x] = IF x = q THEN fd[p] ELSE fd[x] BY DEF Fork, PipeInv, TypeOK
<1>3. \A e \in Ends : IsOpen(e)' = IsOpen(e) BY <1>1 DEF IsOpen
<1>4. EndsInv BY DEF PipeInv
<1>5. ASSUME NEW e \in Ends
      PROVE  /\ ref'[e] = Cardinality(Holders(e)')
             /\ Holders(e)' = {} <=> Holders(e) = {}
  <2>1. CASE e \in fd[p]
    <3>1. Holders(e)' = Holders(e) \cup {q} /\ q \notin Holders(e) /\ p \in Holders(e)
      BY <1>1, <1>2, <2>1 DEF Holders
    <3>2. Cardinality(Holders(e)') = Cardinality(Holders(e)) + 1
      <4>1. IsFiniteSet(Holders(e)) BY HoldersCounted
      <4>2. Cardinality(Holders(e) \cup {q}) = Cardinality(Holders(e)) + 1
        BY ONLY <3>1, <4>1, FS_AddElement, Zenon
      <4> QED BY ONLY <3>1, <4>2
    <3>3. ref[e] = Cardinality(Holders(e)) BY <1>4 DEF EndsInv
    <3> QED BY <1>1, <2>1, <3>1, <3>2, <3>3
  <2>2. CASE e \notin fd[p]
    <3>1. Holders(e)' = Holders(e) BY <1>1, <1>2, <2>2 DEF Holders
    <3> QED BY <1>1, <1>4, <2>2, <3>1 DEF EndsInv
  <2> QED BY <2>1, <2>2
<1>6. EndsInv' BY <1>1, <1>3, <1>4, <1>5 DEF EndsInv
<1>7. CallsInv BY DEF PipeInv
<1>8. CallsInv' BY <1>1, <1>2, <1>7 DEF CallsInv, Reading, Writing
<1> QED BY <1>6, <1>8

LEMMA FilecloseKeeps ==
  ASSUME PipeInv, NEW p \in Procs, NEW e \in Ends, fileclose(p, e)
  PROVE  EndsInv' /\ CallsInv'
<1>1. /\ pc[p] = "user" /\ e \in fd[p] /\ UNCHANGED <<readopen, writeopen, allocated, lock>>
      /\ \A x \in Ends : ref'[x] = IF x = e THEN ref[e] - 1 ELSE ref[x]
      /\ \A x \in Procs : fd'[x] = IF x = p THEN fd[p] \ {e} ELSE fd[x]
  BY DEF fileclose, pipeVars, PipeInv, TypeOK
<1>2. \/ ref[e] = 1 /\ pc' = [pc EXCEPT ![p] = "close"] /\ closing' = [closing EXCEPT ![p] = e]
      \/ ref[e] # 1 /\ pc' = pc /\ closing' = closing
  BY DEF fileclose, LastRef, Goto
<1>3. /\ \A x \in Procs : x # p => pc'[x] = pc[x] /\ closing'[x] = closing[x]
      /\ ref[e] = 1 => pc'[p] = "close" /\ closing'[p] = e
      /\ ref[e] # 1 => pc'[p] = pc[p] /\ closing'[p] = closing[p]
  BY <1>2 DEF PipeInv, TypeOK
<1>4. EndsInv /\ CallsInv BY DEF PipeInv
<1>5. p \in Holders(e) /\ Holders(e)' = Holders(e) \ {p} BY <1>1 DEF Holders
<1>6. \A x \in Ends : x # e => Holders(x)' = Holders(x) BY <1>1 DEF Holders
<1>7. ref[e] = Cardinality(Holders(e)) /\ (\A x \in Procs : closing[x] # e) /\ IsOpen(e)
  BY <1>4, <1>5 DEF EndsInv
<1>8. /\ IsFiniteSet(Holders(e)') /\ Cardinality(Holders(e)') = ref[e] - 1
  BY <1>5, <1>7, HoldersCounted, FS_RemoveElement
<1>9. ref[e] = 1 <=> Holders(e)' = {}
  <2>1. ref[e] \in Nat BY DEF PipeInv, TypeOK
  <2>2. Cardinality(Holders(e)') = 0 <=> Holders(e)' = {} BY <1>8, FS_EmptySet, ZenonT(30)
  <2> QED BY <1>8, <2>1, <2>2
<1>10. closing[p] = None BY <1>1, <1>4 DEF CallsInv
<1>11. \A x \in Ends : IsOpen(x)' = IsOpen(x) BY <1>1 DEF IsOpen
<1>12. None \notin Ends BY ProcsAssumption DEF Ends
<1>13. EndsInv'
  <2>1. \A x \in Ends : ref'[x] = Cardinality(Holders(x)') BY <1>1, <1>4, <1>6, <1>8 DEF EndsInv
  <2>2. \A x \in Ends : x # e => \A y \in Procs : closing'[y] = x <=> closing[y] = x
    BY <1>3, <1>7, <1>10, <1>12
  <2>3. \A y \in Procs : closing'[y] = e <=> y = p /\ ref[e] = 1 BY <1>3, <1>7
  <2>4. \A x \in Ends : IsOpen(x)' <=> Holders(x)' # {} \/ \E y \in Procs : closing'[y] = x
    <3>1. IsOpen(e)' BY <1>7, <1>11
    <3>2. Holders(e)' # {} \/ \E y \in Procs : closing'[y] = e BY <1>9, <2>3
    <3>3. \A x \in Ends : x # e => (IsOpen(x) <=> Holders(x) # {} \/ \E y \in Procs : closing[y] = x)
      BY <1>4 DEF EndsInv
    <3> QED BY <1>6, <1>11, <2>2, <3>1, <3>2, <3>3
  <2>5. \A y \in Procs, x \in Ends :
          closing'[y] = x => Holders(x)' = {} /\ \A z \in Procs : closing'[z] = x => z = y
    <3>1. \A y \in Procs, x \in Ends :
            closing[y] = x => Holders(x) = {} /\ \A z \in Procs : closing[z] = x => z = y
      BY <1>4 DEF EndsInv
    <3> QED BY <1>6, <1>9, <2>2, <2>3, <3>1
  <2>6. (allocated <=> readopen \/ writeopen)' BY <1>1, <1>4 DEF EndsInv
  <2> QED BY <2>1, <2>4, <2>5, <2>6 DEF EndsInv
<1>14. CallsInv'
  <2> SUFFICES ASSUME NEW x \in Procs
               PROVE  /\ pc'[x] = "close" <=> closing'[x] # None
                      /\ pc'[x] \in Reading => "r" \in fd'[x]
                      /\ pc'[x] \in Writing => "w" \in fd'[x]
                      /\ pc'[x] \in Holding <=> lock' = x
    BY DEF CallsInv
  <2>1. CASE x = p BY <1>1, <1>3, <1>4, <1>12, <2>1 DEF CallsInv, Reading, Writing, Holding
  <2>2. CASE x # p BY <1>1, <1>3, <1>4, <2>2 DEF CallsInv
  <2> QED BY <2>1, <2>2
<1> QED BY <1>13, <1>14

LEMMA PipecloseKeeps ==
  ASSUME PipeInv, NEW p \in Procs, pipeclose(p)
  PROVE  EndsInv' /\ CallsInv'
<1> DEFINE e == closing[p]
<1>1. EndsInv /\ CallsInv BY DEF PipeInv
<1>2. /\ pc[p] = "close" /\ lock = None /\ UNCHANGED <<fd, ref, lock>>
      /\ writeopen' = (writeopen /\ e # "w") /\ readopen' = (readopen /\ e # "r")
      /\ allocated' = (readopen' \/ writeopen')
  BY DEF pipeclose, fileVars
<1>3. \A x \in Procs : closing'[x] = IF x = p THEN None ELSE closing[x]
  BY DEF pipeclose, PipeInv, TypeOK
<1>4. /\ pc'[p] = "user"
      /\ \A x \in Procs : x # p => \/ pc'[x] = pc[x]
                                   \/ pc[x] = "rchan" /\ pc'[x] = "racq"
                                   \/ pc[x] = "wchan" /\ pc'[x] = "wacq"
  BY DEF pipeclose, ReadersWoken, WritersWoken, PipeInv, TypeOK
<1>5. e \in Ends /\ None \notin Ends
  BY <1>1, <1>2, ProcsAssumption DEF CallsInv, PipeInv, TypeOK, Ends
<1> HIDE DEF e
<1>6. Holders(e) = {} /\ (\A x \in Procs : closing'[x] # e)
  BY <1>1, <1>3, <1>5 DEF EndsInv, e
<1>7. \A x \in Ends : x # e => \A y \in Procs : closing'[y] = x <=> closing[y] = x
  BY <1>3, <1>5 DEF e
<1>8. \A x \in Ends : /\ Holders(x)' = Holders(x)
                      /\ IsOpen(x)' = (IsOpen(x) /\ x # e)
  BY <1>2, <1>5 DEF Holders, IsOpen, Ends, PipeInv, TypeOK
<1>9. EndsInv'
  <2>1. \A x \in Ends : IsOpen(x)' <=> Holders(x)' # {} \/ \E y \in Procs : closing'[y] = x
    BY <1>1, <1>6, <1>7, <1>8, ZenonT(30) DEF EndsInv
  <2>2. \A y \in Procs, x \in Ends :
          closing'[y] = x => Holders(x)' = {} /\ \A z \in Procs : closing'[z] = x => z = y
    BY <1>1, <1>6, <1>7, <1>8 DEF EndsInv
  <2>3. \A x \in Ends : ref'[x] = Cardinality(Holders(x)') BY <1>1, <1>2, <1>8 DEF EndsInv
  <2> QED BY <1>2, <2>1, <2>2, <2>3, Zenon DEF EndsInv
<1>10. CallsInv'
  BY <1>1, <1>2, <1>3, <1>4, ProcsAssumption DEF CallsInv, Reading, Writing, Holding
<1> QED BY <1>9, <1>10

LEMMA PipeStep ==
  ASSUME PipeInv, [Next]_vars
  PROVE  PipeInv'
<1>1. ASSUME NEW p \in Procs, KernelStep(p) \/ UserStep(p) \/ kill(p) PROVE PipeInv'
  <2>1. TypeOK' BY <1>1, TypeStep
  <2>2. CASE LocalStep(p) BY <2>1, <2>2, LocalMoves, MovedKeeps DEF PipeInv
  <2>3. CASE ~LocalStep(p)
    <3>1. \/ pipealloc(p) \/ pipeclose(p) \/ (\E q \in Procs : Fork(p, q))
          \/ \E e \in Ends : fileclose(p, e)
      BY <1>1, <2>3 DEF KernelStep, UserStep, LocalStep
    <3> QED BY <2>1, <3>1, AllocKeeps, ForkKeeps, FilecloseKeeps, PipecloseKeeps DEF PipeInv
  <2> QED BY <2>2, <2>3
<1>2. CASE UNCHANGED vars
  <2>1. TypeOK' BY <1>2 DEF PipeInv, TypeOK, vars, pipeVars, fileVars
  <2>2. EndsInv' BY <1>2, EndsFrame DEF PipeInv, vars, pipeVars, fileVars
  <2>3. CallsInv' BY <1>2 DEF PipeInv, CallsInv, vars, pipeVars, fileVars
  <2> QED BY <2>1, <2>2, <2>3 DEF PipeInv
<1> QED BY <1>1, <1>2 DEF Next

LEMMA PipeInvariance == Spec => []PipeInv
BY InitPipe, PipeStep, PTL DEF Spec

\* The page is freed only when no process can still use the pipe (pipe.c:70-72).
THEOREM NoUseAfterFreeCorrect == Spec => []NoUseAfterFree
<1>1. PipeInv => NoUseAfterFree BY FreedUnused DEF PipeInv, NoUseAfterFree
<1> QED BY <1>1, PipeInvariance, PTL

-----------------------------------------------------------------------------
(* Sleepers.                                                               *)

\* SleepersHaveToWait, and that a process that is about to sleep has to.
SleepInv ==
  /\ SleepersHaveToWait
  /\ \A p \in Procs : pc[p] = "wsleep" => Full /\ readopen
  /\ \A p \in Procs : pc[p] = "rsleep" => Empty /\ writeopen

\* What SleepersHaveToWait leaves when the lock's holder is not one that has yet
\* to wake them.
LEMMA Waits ==
  ASSUME SleepInv
  PROVE  /\ \A q \in Procs : pc[q] = "wchan" /\ (\A h \in Procs : lock = h => pc[h] # "rcopy")
              => Full /\ readopen
         /\ \A q \in Procs : pc[q] = "rchan" /\ (\A h \in Procs : lock = h => pc[h] # "wloop")
              => writeopen /\ (Empty \/ \E h \in Procs : killed[h])
BY DEF SleepInv, SleepersHaveToWait

LEMMA CountersFrame ==
  ASSUME UNCHANGED <<nread, nwrite>> PROVE Full' = Full /\ Empty' = Empty
BY DEF Full, Empty

\* A step of p, which does not hold the lock before or after it, that leaves the
\* counters and the ends alone and sends nobody to sleep.
LEMMA SleepFrame ==
  ASSUME PipeInv, SleepInv, NEW p \in Procs,
         UNCHANGED <<nread, nwrite, readopen, writeopen, lock>>,
         \A q \in Procs : killed[q] => killed'[q],
         \A q \in Procs : pc'[q] \in Holding \cup {"rchan", "wchan"} => pc'[q] = pc[q],
         \A q \in Procs : pc[q] \in Holding => pc'[q] = pc[q]
  PROVE  SleepInv'
<1>1. Full' = Full /\ Empty' = Empty BY CountersFrame
<1>2. \A q \in Procs : lock = q => pc[q] \in Holding BY DEF PipeInv, CallsInv
<1> QED BY <1>1, <1>2 DEF SleepInv, SleepersHaveToWait, Holding

LEMMA SleepInit == Init => SleepInv
BY DEF Init, SleepInv, SleepersHaveToWait

LEMMA SleepUser ==
  ASSUME PipeInv, SleepInv, NEW p \in Procs, UserStep(p) \/ kill(p)
  PROVE  SleepInv'
<1>1. pc \in [Procs -> {"user", "racq", "rwait", "rsleep", "rchan", "rcopy",
                        "wacq", "wloop", "wsleep", "wchan", "close"}] /\ killed \in [Procs -> BOOLEAN]
  BY DEF PipeInv, TypeOK
<1>2. CASE pipealloc(p)
  <2>1. \A q \in Procs : pc'[q] = "user" BY <1>2, FreedUnused DEF pipealloc
  <2> QED BY <2>1 DEF SleepInv, SleepersHaveToWait
<1>3. CASE ~pipealloc(p)
  <2>1. UNCHANGED <<nread, nwrite, readopen, writeopen, lock>>
    BY <1>3 DEF UserStep, Fork, fileclose, Call, kill, pipeVars
  <2>2. \A q \in Procs : killed[q] => killed'[q] BY <1>1, <1>3 DEF UserStep, Fork, fileclose, Call, kill
  <2>3. \/ pc' = pc
        \/ \E l \in {"racq", "wacq", "close"} :
             pc' = [pc EXCEPT ![p] = l] /\ pc[p] \in {"user", "rchan", "wchan"}
    BY <1>3 DEF UserStep, Fork, fileclose, Call, kill, Goto
  <2>4. /\ \A q \in Procs : pc'[q] \in Holding \cup {"rchan", "wchan"} => pc'[q] = pc[q]
        /\ \A q \in Procs : pc[q] \in Holding => pc'[q] = pc[q]
    BY <1>1, <2>3 DEF Holding
  <2> QED BY <2>1, <2>2, <2>4, SleepFrame
<1> QED BY <1>2, <1>3

LEMMA SleepPipeclose ==
  ASSUME PipeInv, SleepInv, NEW p \in Procs, pipeclose(p)
  PROVE  SleepInv'
<1>1. /\ pc[p] = "close" /\ lock = None /\ lock' = None /\ UNCHANGED <<nread, nwrite, killed>>
      /\ writeopen' = (writeopen /\ closing[p] # "w") /\ readopen' = (readopen /\ closing[p] # "r")
  BY DEF pipeclose
<1>2. Full' = Full /\ Empty' = Empty BY <1>1, CountersFrame
<1>3. \A q \in Procs : pc[q] \notin Holding BY <1>1, LockHeld
<1>4. closing[p] \in Ends
  BY <1>1 DEF PipeInv, CallsInv, TypeOK
<1>5. \A q \in Procs : /\ pc'[q] = "wchan" => pc[q] = "wchan" /\ closing[p] = "w"
                       /\ pc'[q] = "rchan" => pc[q] = "rchan" /\ closing[p] = "r"
                       /\ pc'[q] \notin {"wsleep", "rsleep"}
  BY <1>3, <1>4 DEF pipeclose, ReadersWoken, WritersWoken, Ends, Holding, PipeInv, TypeOK
<1>6. \A h \in Procs : lock # h BY <1>1, ProcsAssumption
<1>7. \A q \in Procs : pc'[q] = "wchan" => Full' /\ readopen' BY <1>1, <1>2, <1>5, <1>6, Waits, Zenon
<1>8. \A q \in Procs : pc'[q] = "rchan" => writeopen' /\ (Empty' \/ \E h \in Procs : killed'[h])
  BY <1>1, <1>2, <1>5, <1>6, Waits, Zenon
<1> QED BY <1>5, <1>7, <1>8, ZenonT(30) DEF SleepInv, SleepersHaveToWait

LEMMA SleepKernel ==
  ASSUME PipeInv, SleepInv, NEW p \in Procs, KernelStep(p)
  PROVE  SleepInv'
<1>1. pc \in [Procs -> {"user", "racq", "rwait", "rsleep", "rchan", "rcopy",
                        "wacq", "wloop", "wsleep", "wchan", "close"}]
  BY DEF PipeInv, TypeOK
<1>2. CASE pipeclose(p) BY <1>2, SleepPipeclose
<1>3. CASE Acquire(p)
  <2>1. /\ lock = None /\ UNCHANGED <<nread, nwrite, readopen, writeopen, killed>>
        /\ \E l \in {"rwait", "wloop"} : pc' = [pc EXCEPT ![p] = l]
    BY <1>3, Zenon DEF Acquire, Goto, pipeVars
  <2>2. Full' = Full /\ Empty' = Empty BY <2>1, CountersFrame
  <2>3. \A h \in Procs : lock # h BY <2>1, ProcsAssumption
  <2>4. \A q \in Procs : pc'[q] \in {"rchan", "wchan", "rsleep", "wsleep"} => pc'[q] = pc[q]
    BY <1>1, <2>1
  <2> QED BY <2>1, <2>2, <2>3, <2>4, Waits DEF SleepInv, SleepersHaveToWait
<1>4. CASE ~pipeclose(p) /\ ~Acquire(p)
  <2>1. /\ pc[p] \in Holding /\ UNCHANGED <<readopen, writeopen, killed>>
    BY <1>4 DEF KernelStep, Sleep, piperead_wait, piperead_copy, piperead_return, pipewrite_full,
                pipewrite_return, pipewrite_put, pipeVars, Holding
  <2>2. lock = p /\ \A q \in Procs : q # p => pc[q] \notin Holding BY <2>1, LockHeld
  <2>3. \A q \in Procs : q # p /\ pc'[q] \in {"rchan", "wchan", "rsleep", "wsleep"} => pc'[q] = pc[q]
    <3>1. LocalStep(p) BY <1>4 DEF KernelStep, LocalStep
    <3> QED BY <3>1, LocalMoves DEF Moved
  <2>4. \A q \in Procs : q # p => pc'[q] \notin {"rsleep", "wsleep"} BY <2>2, <2>3 DEF Holding
  <2>5. pc[p] # "rcopy" => \A q \in Procs : pc[q] = "wchan" => Full /\ readopen BY <2>2, Waits
  <2>6. pc[p] # "wloop" => \A q \in Procs : pc[q] = "rchan" =>
                              writeopen /\ (Empty \/ \E h \in Procs : killed[h])
    BY <2>2, Waits
  <2>7. CASE Sleep(p)
    <3>1. /\ UNCHANGED <<nread, nwrite>> /\ pc'[p] \in {"rchan", "wchan"}
          /\ pc'[p] = "rchan" => pc[p] = "rsleep"
          /\ pc'[p] = "wchan" => pc[p] = "wsleep"
      BY <1>1, <2>7 DEF Sleep, Goto, pipeVars
    <3>2. Full' = Full /\ Empty' = Empty BY <3>1, CountersFrame
    <3>3. \A q \in Procs : pc'[q] = "wchan" => Full' /\ readopen'
      BY <2>1, <2>3, <2>5, <3>1, <3>2 DEF SleepInv
    <3>4. \A q \in Procs : pc'[q] = "rchan" => writeopen' /\ (Empty' \/ \E h \in Procs : killed'[h])
      BY <2>1, <2>3, <2>6, <3>1, <3>2 DEF SleepInv
    <3> QED BY <2>4, <3>1, <3>3, <3>4 DEF SleepInv, SleepersHaveToWait
  <2>8. CASE piperead_wait(p)
    <3>1. /\ UNCHANGED <<nread, nwrite>> /\ pc[p] = "rwait" /\ pc'[p] \in {"user", "rsleep", "rcopy"}
          /\ pc'[p] = "rsleep" => Empty /\ writeopen
      BY <1>1, <2>8 DEF piperead_wait, ReaderWaits, Goto, Return, pipeVars
    <3>2. Full' = Full /\ Empty' = Empty BY <3>1, CountersFrame
    <3>3. \A q \in Procs : pc'[q] = "wchan" => Full' /\ readopen' BY <2>1, <2>3, <2>5, <3>1, <3>2
    <3>4. \A q \in Procs : pc'[q] = "rchan" => writeopen' /\ (Empty' \/ \E h \in Procs : killed'[h])
      BY <2>1, <2>3, <2>6, <3>1, <3>2
    <3> QED BY <2>1, <2>4, <3>1, <3>2, <3>3, <3>4 DEF SleepInv, SleepersHaveToWait
  <2>9. CASE piperead_copy(p)
    <3>1. pc[p] = "rcopy" /\ ~Empty /\ UNCHANGED <<pc, lock>> BY <2>9 DEF piperead_copy
    <3>2. \A q \in Procs : pc'[q] = "rchan" => writeopen' /\ (\E h \in Procs : killed'[h])
      BY <2>1, <2>6, <3>1
    <3> QED BY <2>2, <2>4, <3>1, <3>2 DEF SleepInv, SleepersHaveToWait
  <2>10. CASE piperead_return(p)
    <3>1. /\ pc[p] = "rcopy" /\ UNCHANGED <<nread, nwrite>> /\ pc'[p] = "user"
          /\ \A q \in Procs : pc'[q] # "wchan"
      BY <1>1, <2>10 DEF piperead_return, Return, WritersWoken, pipeVars
    <3>2. Full' = Full /\ Empty' = Empty BY <3>1, CountersFrame
    <3>3. \A q \in Procs : pc'[q] = "rchan" => writeopen' /\ (Empty' \/ \E h \in Procs : killed'[h])
      BY <2>1, <2>3, <2>6, <3>1, <3>2
    <3> QED BY <2>4, <3>1, <3>3 DEF SleepInv, SleepersHaveToWait
  <2>11. CASE pipewrite_return(p)
    <3>1. /\ pc[p] = "wloop" /\ UNCHANGED <<nread, nwrite>> /\ pc'[p] = "user"
          /\ \A q \in Procs : pc'[q] # "rchan"
      BY <1>1, <2>11 DEF pipewrite_return, Return, ReadersWoken, pipeVars
    <3>2. Full' = Full /\ Empty' = Empty BY <3>1, CountersFrame
    <3>3. \A q \in Procs : pc'[q] = "wchan" => Full' /\ readopen' BY <2>1, <2>3, <2>5, <3>1, <3>2
    <3> QED BY <2>4, <3>1, <3>3 DEF SleepInv, SleepersHaveToWait
  <2>12. CASE pipewrite_full(p)
    <3>1. /\ pc[p] = "wloop" /\ Full /\ UNCHANGED <<nread, nwrite>>
      BY <2>12 DEF pipewrite_full, pipeVars
    <3>2. Full' = Full /\ Empty' = Empty BY <3>1, CountersFrame
    <3>3. \/ (~readopen \/ killed[p]) /\ pc' = [pc EXCEPT ![p] = "user"]
          \/ readopen /\ pc' = ReadersWoken([pc EXCEPT ![p] = "wsleep"])
      BY <2>12 DEF pipewrite_full, Return
    <3>4. \/ (~readopen \/ killed[p]) /\ pc'[p] = "user" /\ (\A q \in Procs : q # p => pc'[q] = pc[q])
          \/ readopen /\ pc'[p] = "wsleep" /\ \A q \in Procs : pc'[q] # "rchan"
      BY <1>1, <3>3 DEF ReadersWoken
    <3>5. \A q \in Procs : pc'[q] = "wchan" => Full' /\ readopen'
      BY <2>1, <2>3, <2>5, <3>1, <3>2, <3>4
    <3>6. "w" \in fd[p] BY <3>1 DEF PipeInv, CallsInv, Writing
    <3>7. writeopen BY <3>6 DEF PipeInv, EndsInv, Holders, IsOpen, Ends
    <3>8. ASSUME NEW q \in Procs, pc'[q] = "rchan" PROVE writeopen' /\ \E h \in Procs : killed'[h]
      <4>1. q # p /\ pc[q] = "rchan" BY <2>3, <3>4, <3>8
      <4>2. "r" \in fd[q] BY <4>1 DEF PipeInv, CallsInv, Reading
      <4>3. readopen BY <4>2 DEF PipeInv, EndsInv, Holders, IsOpen, Ends
      <4> QED BY <2>1, <3>4, <3>7, <3>8, <4>3
    <3> QED BY <2>1, <2>4, <3>1, <3>2, <3>4, <3>5, <3>8 DEF SleepInv, SleepersHaveToWait
  <2>13. CASE \E b \in Bytes : pipewrite_put(p, b)
    <3>1. pc[p] = "wloop" /\ ~Full /\ UNCHANGED <<pc, lock>> BY <2>13 DEF pipewrite_put
    <3>2. \A q \in Procs : pc'[q] # "wchan" BY <2>5, <3>1
    <3> QED BY <2>2, <2>4, <3>1, <3>2 DEF SleepInv, SleepersHaveToWait
  <2> QED BY <1>4, <2>7, <2>8, <2>9, <2>10, <2>11, <2>12, <2>13 DEF KernelStep
<1> QED BY <1>2, <1>3, <1>4

\* No process sleeps on a pipe without having to, or without somebody on the way
\* to wake it (pipe.c:65, 68, 85-95, 106-118).
THEOREM SleepersCorrect == Spec => []SleepersHaveToWait
<1>1. PipeInv /\ SleepInv /\ [Next]_vars => SleepInv'
  <2> SUFFICES ASSUME PipeInv, SleepInv, [Next]_vars PROVE SleepInv' OBVIOUS
  <2>1. CASE UNCHANGED vars
    <3>1. Full' = Full /\ Empty' = Empty BY <2>1, CountersFrame DEF vars, pipeVars
    <3> QED BY <2>1, <3>1, Zenon DEF vars, pipeVars, SleepInv, SleepersHaveToWait
  <2> QED BY <2>1, SleepUser, SleepKernel DEF Next
<1>2. SleepInv => SleepersHaveToWait BY DEF SleepInv
<1> QED BY <1>1, <1>2, SleepInit, PipeInvariance, PTL DEF Spec

\* A read() that gives up on an empty pipe does so when no process has its write
\* end open any more (pipe.c:106, 114).
THEOREM EofIsRealCorrect == Spec => EofIsReal
<1> DEFINE Eof == \A p \in Procs : pc[p] = "rwait" /\ pc'[p] = "rcopy" /\ Empty => ~Opened("w")
<1>1. ASSUME PipeInv, Next PROVE Eof
  <2> SUFFICES ASSUME NEW q \in Procs, pc[q] = "rwait", pc'[q] = "rcopy", Empty PROVE ~Opened("w")
    OBVIOUS
  <2>1. PICK p \in Procs : KernelStep(p) \/ UserStep(p) \/ kill(p) BY <1>1 DEF Next
  <2>2. pc \in [Procs -> {"user", "racq", "rwait", "rsleep", "rchan", "rcopy",
                          "wacq", "wloop", "wsleep", "wchan", "close"}]
    BY <1>1 DEF PipeInv, TypeOK
  <2>3. LocalStep(p)
    <3>1. ~pipealloc(p) /\ ~(\E x \in Procs : Fork(p, x)) BY DEF pipealloc, Fork
    <3>2. ~\E e \in Ends : fileclose(p, e) BY <2>2 DEF fileclose, Goto
    <3>3. ~pipeclose(p) BY <2>2 DEF pipeclose, ReadersWoken, WritersWoken
    <3> QED BY <2>1, <3>1, <3>2, <3>3, Zenon DEF KernelStep, UserStep, LocalStep
  <2>4. p = q BY <1>1, <2>3, LocalMoves DEF Moved
  <2>5. piperead_wait(q)
    BY <2>2, <2>3, <2>4, ZenonT(30)
    DEF LocalStep, Acquire, Sleep, piperead_copy, piperead_return, pipewrite_full, pipewrite_return,
        pipewrite_put, kill, Call
  <2>6. ~writeopen BY <2>2, <2>5, ZenonT(30) DEF piperead_wait, ReaderWaits, Goto, Return
  <2> QED BY <1>1, <2>6 DEF PipeInv, EndsInv, IsOpen, Holders, Opened, Ends
<1>2. PipeInv /\ [Next]_vars => [Eof]_vars BY <1>1
<1> QED BY <1>2, PipeInvariance, PTL DEF Spec, EofIsReal

-----------------------------------------------------------------------------
(* The byte stream.                                                        *)

Ring == INSTANCE RingProofs WITH Size <- PIPESIZE, Modulus <- UINT, Items <- Bytes

\* The pipe never holds more than its buffer.
StreamInv == Ring!Ahead(nread, nwrite) <= PIPESIZE

LEMMA RingSizes == Ring!Sizes
BY SizeAssumption DEF Ring!Sizes

-----------------------------------------------------------------------------
(* One byte in, one byte out.                                              *)

LEMMA InRing ==
  TypeOK => /\ data \in Ring!Buffers /\ nread \in Ring!Counters /\ nwrite \in Ring!Counters
            /\ (allocated => Contents = Ring!Held(data, nread, nwrite))
<1> SUFFICES ASSUME TypeOK
             PROVE  /\ data \in Ring!Buffers /\ nread \in Ring!Counters /\ nwrite \in Ring!Counters
                    /\ (allocated => Contents = Ring!Held(data, nread, nwrite))
  OBVIOUS
<1>1. data \in Ring!Buffers /\ nread \in Ring!Counters /\ nwrite \in Ring!Counters
  BY DEF TypeOK, Ring!Buffers, Ring!Counters
<1>2. (nwrite - nread) % UINT = Ring!Ahead(nread, nwrite) BY <1>1, RingSizes, Ring!AheadIs
<1>3. allocated => Contents = Ring!Held(data, nread, nwrite)
  BY <1>2 DEF Contents, Ring!Held, Ring!Place
<1> QED BY <1>1, <1>3

LEMMA EmptyFull ==
  ASSUME TypeOK
  PROVE  /\ Full <=> Ring!Ahead(nread, nwrite) = PIPESIZE
         /\ Ring!Ahead(nread, nwrite) \in Nat
<1>1. UINT \in Nat \ {0} /\ PIPESIZE \in Nat \ {0} /\ PIPESIZE < UINT BY SizeAssumption
<1>2. nread \in 0..UINT - 1 /\ nwrite \in 0..UINT - 1 BY DEF TypeOK
<1>3. (nread + PIPESIZE) % UINT = IF nread + PIPESIZE < UINT THEN nread + PIPESIZE
                                                             ELSE (nread + PIPESIZE) - UINT
  <2> DEFINE y == nread + PIPESIZE
  <2>1. y \in Nat /\ y < 2 * UINT BY <1>1, <1>2
  <2> HIDE DEF y
  <2>2. y % UINT = IF y < UINT THEN y ELSE y - UINT BY ONLY <2>1, RingSizes, Ring!Wrapped
  <2> QED BY ONLY <2>2 DEF y
<1> QED BY <1>1, <1>2, <1>3 DEF Full, Ring!Ahead

LEMMA PutAppends ==
  ASSUME TypeOK, TypeOK', StreamInv, allocated, allocated', NEW b \in Bytes, ~Full, nread' = nread,
         nwrite' = Incremented(nwrite), data' = [data EXCEPT ![nwrite % PIPESIZE] = b]
  PROVE  StreamInv' /\ Len(Contents) < PIPESIZE /\ Contents' = Append(Contents, b)
<1>1. /\ data \in Ring!Buffers /\ nread \in Ring!Counters /\ nwrite \in Ring!Counters
      /\ Contents = Ring!Held(data, nread, nwrite)
  BY InRing
<1>2. Ring!Ahead(nread, nwrite) \in Nat /\ Ring!Ahead(nread, nwrite) < PIPESIZE
  BY EmptyFull, SizeAssumption DEF StreamInv
<1>3. nwrite' = Ring!Up(nwrite) BY <1>1, RingSizes, Ring!UpIs DEF Incremented
<1>4. data' = Ring!Written(data, nwrite, b) BY DEF Ring!Written, Ring!Place
<1>5. /\ Ring!Ahead(nread, Ring!Up(nwrite)) = Ring!Ahead(nread, nwrite) + 1
      /\ Ring!Held(Ring!Written(data, nwrite, b), nread, Ring!Up(nwrite)) = Append(Contents, b)
  BY <1>1, <1>2, RingSizes, Ring!HeldPut
<1>6. Contents' = Append(Contents, b)
  <2>1. (TypeOK => /\ data \in Ring!Buffers /\ nread \in Ring!Counters /\ nwrite \in Ring!Counters
                   /\ (allocated => Contents = Ring!Held(data, nread, nwrite)))'
    BY InRing, PTL
  <2>2. Contents' = Ring!Held(data', nread', nwrite') BY <2>1
  <2> QED BY <1>3, <1>4, <1>5, <2>2
<1>7. StreamInv' BY <1>2, <1>3, <1>5, SizeAssumption DEF StreamInv
<1>8. Len(Contents) = Ring!Ahead(nread, nwrite) BY <1>1, RingSizes, Ring!HeldIs
<1> QED BY <1>2, <1>6, <1>7, <1>8

LEMMA GetDelivers ==
  ASSUME TypeOK, TypeOK', StreamInv, allocated, allocated', ~Empty, UNCHANGED <<nwrite, data>>,
         nread' = Incremented(nread)
  PROVE  /\ StreamInv' /\ Contents # <<>>
         /\ data[nread % PIPESIZE] = Head(Contents) /\ Contents' = Tail(Contents)
<1>1. /\ data \in Ring!Buffers /\ nread \in Ring!Counters /\ nwrite \in Ring!Counters
      /\ Contents = Ring!Held(data, nread, nwrite)
  BY InRing
<1>2. nread' = Ring!Up(nread) BY <1>1, RingSizes, Ring!UpIs DEF Incremented
<1>3. /\ Ring!Ahead(Ring!Up(nread), nwrite) = Ring!Ahead(nread, nwrite) - 1
      /\ Contents # <<>> /\ Head(Contents) = data[Ring!Place(nread)]
      /\ Ring!Held(data, Ring!Up(nread), nwrite) = Tail(Contents)
  BY <1>1, RingSizes, Ring!HeldGet DEF Empty
<1>4. Contents' = Tail(Contents)
  <2>1. (TypeOK => /\ data \in Ring!Buffers /\ nread \in Ring!Counters /\ nwrite \in Ring!Counters
                   /\ (allocated => Contents = Ring!Held(data, nread, nwrite)))'
    BY InRing, PTL
  <2>2. Contents' = Ring!Held(data', nread', nwrite') BY <2>1
  <2> QED BY <1>2, <1>3, <2>2
<1>5. StreamInv' BY <1>2, <1>3, EmptyFull, SizeAssumption DEF StreamInv
<1> QED BY <1>3, <1>4, <1>5 DEF Ring!Place

-----------------------------------------------------------------------------
(* Every step is a step of the stream, or none.                            *)

OpenEnds == {e \in Ends : Opened(e)}

LEMMA ContentsFrame ==
  ASSUME StreamInv, UNCHANGED <<data, nread, nwrite, allocated>>
  PROVE  StreamInv' /\ Contents' = Contents
BY DEF Contents, StreamInv

LEMMA OpenFrame ==
  ASSUME UNCHANGED fd PROVE OpenEnds' = OpenEnds
BY DEF OpenEnds, Opened

StreamStep == StreamInv' /\ [Abstract!Next]_<<Contents, out, OpenEnds>>

LEMMA AllocOpens ==
  ASSUME PipeInv, PipeInv', NEW p \in Procs, pipealloc(p)
  PROVE  StreamStep
<1>1. /\ ~allocated /\ allocated' /\ nread' = 0 /\ nwrite' = 0 /\ fd' = [fd EXCEPT ![p] = Ends]
      /\ UNCHANGED out
  BY DEF pipealloc
<1>2. TypeOK /\ TypeOK' BY DEF PipeInv
<1>3. fd \in [Procs -> SUBSET Ends] BY <1>2 DEF TypeOK
<1>4. OpenEnds = {} BY <1>1, FreedUnused DEF OpenEnds, Opened
<1>5. OpenEnds' = {"r", "w"}
  <2>1. fd'[p] = Ends BY <1>1, <1>3
  <2>2. \A e \in Ends : \E q \in Procs : e \in fd'[q] BY <2>1
  <2> QED BY <2>2 DEF OpenEnds, Opened, Ends
<1>6. Contents = <<>> BY <1>1 DEF Contents
<1>7. Contents' = <<>>
  <2>1. (TypeOK => /\ data \in Ring!Buffers /\ nread \in Ring!Counters /\ nwrite \in Ring!Counters
                   /\ (allocated => Contents = Ring!Held(data, nread, nwrite)))'
    BY InRing, PTL
  <2>2. data' \in Ring!Buffers /\ nread' \in Ring!Counters /\ Contents' = Ring!Held(data', nread', nread')
    BY <1>1, <1>2, <2>1
  <2> QED BY <2>2, RingSizes, Ring!HeldNothing
<1>8. StreamInv' BY <1>1, SizeAssumption DEF StreamInv, Ring!Ahead
<1>9. Abstract!Open BY <1>1, <1>4, <1>5, <1>6, <1>7 DEF Abstract!Open, OpenEnds
<1> QED BY <1>8, <1>9 DEF StreamStep, Abstract!Next

LEMMA ForkStutters ==
  ASSUME PipeInv, StreamInv, NEW p \in Procs, NEW q \in Procs, Fork(p, q)
  PROVE  StreamStep
<1>1. /\ UNCHANGED <<data, nread, nwrite, allocated, out>>
      /\ fd[q] = {} /\ fd' = [fd EXCEPT ![q] = fd[p]]
  BY DEF Fork, pipeVars
<1>2. fd \in [Procs -> SUBSET Ends] BY DEF PipeInv, TypeOK
<1>3. ASSUME NEW e \in Ends PROVE Opened(e)' <=> Opened(e)
  <2>1. \A x \in Procs : x # q => fd'[x] = fd[x] BY <1>1, <1>2
  <2>2. fd'[q] = fd[p] BY <1>1, <1>2
  <2>3. Opened(e) => Opened(e)' BY <1>1, <2>1 DEF Opened
  <2>4. Opened(e)' => Opened(e) BY <2>1, <2>2 DEF Opened
  <2> QED BY <2>3, <2>4
<1>4. OpenEnds' = OpenEnds BY <1>3 DEF OpenEnds
<1> QED BY <1>1, <1>4, ContentsFrame DEF StreamStep

LEMMA FilecloseCloses ==
  ASSUME PipeInv, StreamInv, NEW p \in Procs, NEW e \in Ends, fileclose(p, e)
  PROVE  StreamStep
<1>1. /\ UNCHANGED <<data, nread, nwrite, allocated, out>>
      /\ e \in fd[p] /\ fd' = [fd EXCEPT ![p] = fd[p] \ {e}]
  BY DEF fileclose, pipeVars
<1>2. fd \in [Procs -> SUBSET Ends] BY DEF PipeInv, TypeOK
<1>3. \A x \in Procs : fd'[x] = IF x = p THEN fd[p] \ {e} ELSE fd[x] BY <1>1, <1>2
<1>4. \A y \in Ends : y # e => (Opened(y)' <=> Opened(y)) BY <1>3 DEF Opened
<1>5. Opened(e) BY <1>1 DEF Opened
<1>6. StreamInv' /\ Contents' = Contents BY <1>1, ContentsFrame
<1>7. CASE Opened(e)'
  <2>1. OpenEnds' = OpenEnds BY <1>4, <1>5, <1>7 DEF OpenEnds
  <2> QED BY <1>1, <1>6, <2>1 DEF StreamStep
<1>8. CASE ~Opened(e)'
  <2>1. e \in OpenEnds /\ OpenEnds' = OpenEnds \ {e} BY <1>4, <1>5, <1>8 DEF OpenEnds
  <2>2. Abstract!Close(e) BY <1>1, <1>6, <2>1 DEF Abstract!Close, OpenEnds
  <2> QED BY <1>6, <2>2 DEF StreamStep, Abstract!Next, Ends
<1> QED BY <1>7, <1>8

LEMMA FreedUnheld == PipeInv => NoUseAfterFree
BY FreedUnused DEF PipeInv, NoUseAfterFree

LEMMA PipecloseDiscards ==
  ASSUME PipeInv, PipeInv', StreamInv, NEW p \in Procs, pipeclose(p)
  PROVE  StreamStep
<1>1. UNCHANGED <<data, nread, nwrite, fd, out>> BY DEF pipeclose, fileVars
<1>2. OpenEnds' = OpenEnds BY <1>1, OpenFrame
<1>3. StreamInv' BY <1>1 DEF StreamInv
<1>4. allocated \in BOOLEAN /\ allocated' \in BOOLEAN BY DEF PipeInv, TypeOK
<1>5. CASE allocated' = allocated BY <1>1, <1>2, <1>5, ContentsFrame DEF StreamStep
<1>6. CASE ~allocated'
  <2>1. (PipeInv => NoUseAfterFree)' BY FreedUnheld, PTL
  <2>2. \A q \in Procs : fd'[q] = {} BY <1>6, <2>1 DEF NoUseAfterFree
  <2>3. OpenEnds' = {} BY <2>2 DEF OpenEnds, Opened
  <2>4. Contents' = <<>> BY <1>6 DEF Contents
  <2>5. Abstract!Discard BY <1>1, <1>2, <2>3, <2>4 DEF Abstract!Discard, OpenEnds
  <2> QED BY <1>3, <2>5 DEF StreamStep, Abstract!Next
<1>7. CASE allocated' /\ ~allocated
  <2>1. pc[p] = "user" BY <1>7, FreedUnused
  <2> QED BY <2>1 DEF pipeclose
<1> QED BY <1>4, <1>5, <1>6, <1>7

\* A process inside piperead() or pipewrite() has its end open.
LEMMA InCall ==
  ASSUME PipeInv, NEW p \in Procs
  PROVE  /\ pc[p] = "rcopy" => allocated /\ "r" \in OpenEnds
         /\ pc[p] = "wloop" => allocated /\ "w" \in OpenEnds
<1>1. pc[p] = "rcopy" => "r" \in fd[p] BY DEF PipeInv, CallsInv, Reading
<1>2. pc[p] = "wloop" => "w" \in fd[p] BY DEF PipeInv, CallsInv, Writing
<1>3. fd[p] # {} => allocated BY FreedUnused
<1> QED BY <1>1, <1>2, <1>3 DEF OpenEnds, Opened, Ends

LEMMA CopyGets ==
  ASSUME PipeInv, PipeInv', StreamInv, NEW p \in Procs, piperead_copy(p)
  PROVE  StreamStep
<1>1. /\ pc[p] = "rcopy" /\ ~Empty /\ out' = data[nread % PIPESIZE]
      /\ nread' = Incremented(nread) /\ UNCHANGED <<data, nwrite, allocated, fd>>
  BY DEF piperead_copy, fileVars
<1>2. TypeOK /\ TypeOK' BY DEF PipeInv
<1>3. allocated /\ "r" \in OpenEnds BY <1>1, InCall
<1>4. /\ StreamInv' /\ Contents # <<>>
      /\ data[nread % PIPESIZE] = Head(Contents) /\ Contents' = Tail(Contents)
  BY <1>1, <1>2, <1>3, GetDelivers
<1>5. OpenEnds' = OpenEnds BY <1>1, OpenFrame
<1>6. Abstract!Get BY <1>1, <1>3, <1>4, <1>5 DEF Abstract!Get, OpenEnds
<1> QED BY <1>4, <1>6 DEF StreamStep, Abstract!Next

LEMMA WritePuts ==
  ASSUME PipeInv, PipeInv', StreamInv, NEW p \in Procs, NEW b \in Bytes, pipewrite_put(p, b)
  PROVE  StreamStep
<1>1. /\ pc[p] = "wloop" /\ ~Full /\ data' = [data EXCEPT ![nwrite % PIPESIZE] = b]
      /\ nwrite' = Incremented(nwrite) /\ UNCHANGED <<nread, allocated, fd, out>>
  BY DEF pipewrite_put, fileVars
<1>2. TypeOK /\ TypeOK' BY DEF PipeInv
<1>3. allocated /\ "w" \in OpenEnds BY <1>1, InCall
<1>4. StreamInv' /\ Len(Contents) < PIPESIZE /\ Contents' = Append(Contents, b)
  BY <1>1, <1>2, <1>3, PutAppends, ZenonT(30)
<1>5. OpenEnds' = OpenEnds BY <1>1, OpenFrame
<1>6. Abstract!Put(b) BY <1>1, <1>3, <1>4, <1>5 DEF Abstract!Put, OpenEnds
<1> QED BY <1>4, <1>6 DEF StreamStep, Abstract!Next

LEMMA EveryStep ==
  ASSUME PipeInv, PipeInv', StreamInv, [Next]_vars
  PROVE  StreamStep
<1>1. ASSUME UNCHANGED <<data, nread, nwrite, allocated, fd, out>> PROVE StreamStep
  <2>1. StreamInv' /\ Contents' = Contents BY <1>1, ContentsFrame
  <2>2. OpenEnds' = OpenEnds BY <1>1, OpenFrame
  <2> QED BY <1>1, <2>1, <2>2 DEF StreamStep
<1>2. CASE UNCHANGED vars BY <1>1, <1>2 DEF vars, pipeVars, fileVars
<1>3. ASSUME NEW p \in Procs, KernelStep(p) PROVE StreamStep
  <2>1. CASE piperead_copy(p) BY <2>1, CopyGets
  <2>2. ASSUME NEW b \in Bytes, pipewrite_put(p, b) PROVE StreamStep BY <2>2, WritePuts
  <2>3. CASE pipeclose(p) BY <2>3, PipecloseDiscards
  <2>4. CASE Acquire(p) \/ Sleep(p) \/ piperead_wait(p) \/ piperead_return(p)
             \/ pipewrite_full(p) \/ pipewrite_return(p)
    <3>1. UNCHANGED <<data, nread, nwrite, allocated, fd, out>>
      BY ONLY <2>4 DEF Acquire, Sleep, piperead_wait, piperead_return, pipewrite_full,
                  pipewrite_return, pipeVars, fileVars
    <3> QED BY ONLY <1>1, <3>1
  <2> QED BY <1>3, <2>1, <2>2, <2>3, <2>4 DEF KernelStep
<1>4. ASSUME NEW p \in Procs, UserStep(p) PROVE StreamStep
  <2>1. CASE pipealloc(p) BY <2>1, AllocOpens
  <2>2. ASSUME NEW q \in Procs, Fork(p, q) PROVE StreamStep BY <2>2, ForkStutters
  <2>3. ASSUME NEW e \in Ends, fileclose(p, e) PROVE StreamStep BY <2>3, FilecloseCloses
  <2>4. ASSUME NEW e \in Ends, NEW n \in Counts, Call(p, e, n) PROVE StreamStep
    <3>1. UNCHANGED <<data, nread, nwrite, allocated, fd, out>> BY ONLY <2>4 DEF Call, pipeVars, fileVars
    <3> QED BY ONLY <1>1, <3>1
  <2> QED BY <1>4, <2>1, <2>2, <2>3, <2>4 DEF UserStep
<1>5. ASSUME NEW p \in Procs, kill(p) PROVE StreamStep
  <2>1. UNCHANGED <<data, nread, nwrite, allocated, fd, out>> BY ONLY <1>5 DEF kill, pipeVars, fileVars
  <2> QED BY ONLY <1>1, <2>1
<1> QED BY <1>2, <1>3, <1>4, <1>5 DEF Next

\* Bytes come out of the pipe in the order they went in, at most PIPESIZE at a
\* time, none lost or repeated when the counters wrap, and none discarded while
\* an end is open (pipe.c:70-72, 85, 93, 114-116).
THEOREM StreamKeptCorrect == Spec => StreamKept
<1>1. Init => StreamInv /\ Abstract!Init
  <2> SUFFICES ASSUME Init PROVE StreamInv /\ Abstract!Init OBVIOUS
  <2>1. StreamInv BY SizeAssumption DEF Init, StreamInv, Ring!Ahead
  <2>2. Contents = <<>> /\ OpenEnds = {} BY DEF Init, Contents, OpenEnds, Opened
  <2>3. out \notin Bytes BY ProcsAssumption DEF Init
  <2> QED BY <2>1, <2>2, <2>3 DEF Abstract!Init, OpenEnds
<1>2. PipeInv /\ PipeInv' /\ StreamInv /\ [Next]_vars => StreamInv' /\ [Abstract!Next]_Abstract!bvars
  BY EveryStep DEF StreamStep, Abstract!bvars, OpenEnds
<1> QED BY <1>1, <1>2, PipeInvariance, PTL DEF Spec, StreamKept, Abstract!Spec

=============================================================================
