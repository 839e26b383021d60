----------------------------- MODULE ProcProofs -----------------------------
(***************************************************************************)
(* Proofs about the process table, for any number of slots and CPUs and    *)
(* any set of channels.                                                    *)
(*                                                                         *)
(* SafetyInv is inductive.  Its core is LockHandOver: because ptable.lock  *)
(* is held across swtch(), a process whose state no longer says RUNNING    *)
(* but which has not left its CPU yet (mode "sched") is out of reach of    *)
(* every other CPU.  RunsOnOneCpu and the ownership of memory follow only  *)
(* with it, and with where a process that is switched out will resume.     *)
(***************************************************************************)
EXTENDS Proc, TLAPS

-----------------------------------------------------------------------------
(* One lemma per action, one step per conjunct.                            *)

\* scheduler() takes ptable.lock for a pass over the table.
LEMMA SchedulerAcquireSafe ==
  ASSUME SafetyInv, NEW c \in Cpus,
         SchedulerAcquire(c)
  PROVE  SafetyInv'
<1> USE DEF SafetyInv, CpuInv, ForkInv, TypeOK, None,
            SchedulerAcquire, Acquire, slotVars
<1>1. TypeOK'
  BY DEF States, Labels, Preemptible, InLock, Modes, Memory, Procs, initproc
<1>2. LockHandOver'
  BY DEF LockHandOver, InSection, InLock, Resumable, CpuRuns, ResumesAt, RunsOnOneCpu, Cpus
<1>3. RunsOnOneCpu'
  BY DEF RunsOnOneCpu, CpuRuns, SchedState, NpEmbryo, NpInFork, LockHandOver, InSection
<1>4. CpuRuns' BY DEF CpuRuns, Procs
<1>5. SchedState'
  BY DEF CpuRuns, SchedState, LockHandOver, InSection, InLock, NpEmbryo, NpInFork, RunsOnOneCpu, Live, ForkLabels, Where
<1>6. ResumesAt'
  BY DEF ResumesAt, Resumable, RunsOnOneCpu, NpEmbryo, NpInFork, ForkLabels, Where, Live
<1>7. RunningLabel'
  BY DEF RunningLabel, ResumesAt, Resumable, RunsOnOneCpu, RetLabel, Preemptible, NpEmbryo
<1>8. RetLabel' BY DEF RetLabel, Preemptible
<1>9. NpInFork'
  BY DEF NpInFork, NpEmbryo, NpOwn, Live, Where, ForkLabels, RunsOnOneCpu, RetLabel, Preemptible, ResumesAt, Resumable
<1>10. NpEmbryo'
  BY DEF NpEmbryo, NpInFork, NpOwn, Live, Where, ForkLabels, RunsOnOneCpu, RetLabel, Preemptible, ResumesAt, Resumable
<1>11. NpOwn' BY DEF NpOwn, NpEmbryo
<1>12. MemOwned'
  BY DEF MemOwned, NpEmbryo, NpInFork, Live, Where, ForkLabels, RunsOnOneCpu
<1> QED BY <1>1, <1>2, <1>3, <1>4, <1>5, <1>6, <1>7, <1>8, <1>9, <1>10, <1>11, <1>12

\* scheduler() switches to a process, which resumes inside the section.
LEMMA SchedulerSwitchSafe ==
  ASSUME SafetyInv, NEW c \in Cpus, NEW p \in Procs,
         SchedulerSwitch(c, p)
  PROVE  SafetyInv'
<1> USE DEF SafetyInv, CpuInv, ForkInv, TypeOK, None,
            SchedulerSwitch, IsFirst, Having
<1>1. TypeOK'
  BY DEF States, Labels, Preemptible, InLock, Modes, Memory, Procs, initproc
<1>2. LockHandOver'
  BY DEF LockHandOver, InSection, InLock, Resumable, CpuRuns, ResumesAt, RunsOnOneCpu, Cpus
<1>3. RunsOnOneCpu'
  BY DEF RunsOnOneCpu, CpuRuns, SchedState, NpEmbryo, NpInFork, LockHandOver, InSection
<1>4. CpuRuns' BY DEF CpuRuns, Procs
<1>5. SchedState'
  BY DEF CpuRuns, SchedState, LockHandOver, InSection, InLock, NpEmbryo, NpInFork, RunsOnOneCpu, Live, ForkLabels, Where
<1>6. ResumesAt'
  BY DEF ResumesAt, Resumable, RunsOnOneCpu, NpEmbryo, NpInFork, ForkLabels, Where, Live
<1>7. RunningLabel'
  BY DEF RunningLabel, ResumesAt, Resumable, RunsOnOneCpu, RetLabel, Preemptible, NpEmbryo
<1>8. RetLabel' BY DEF RetLabel, Preemptible
<1>9. NpInFork'
  BY DEF NpInFork, NpEmbryo, NpOwn, Live, Where, ForkLabels, RunsOnOneCpu, RetLabel, Preemptible, ResumesAt, Resumable
<1>10. NpEmbryo'
  BY DEF NpEmbryo, NpInFork, NpOwn, Live, Where, ForkLabels, RunsOnOneCpu, RetLabel, Preemptible, ResumesAt, Resumable
<1>11. NpOwn' BY DEF NpOwn, NpEmbryo
<1>12. MemOwned'
  BY DEF MemOwned, NpEmbryo, NpInFork, Live, Where, ForkLabels, RunsOnOneCpu
<1> QED BY <1>1, <1>2, <1>3, <1>4, <1>5, <1>6, <1>7, <1>8, <1>9, <1>10, <1>11, <1>12

\* The end of scheduler()'s pass.
LEMMA SchedulerReleaseSafe ==
  ASSUME SafetyInv, NEW c \in Cpus,
         SchedulerRelease(c)
  PROVE  SafetyInv'
<1> USE DEF SafetyInv, CpuInv, ForkInv, TypeOK, None,
            SchedulerRelease, Release, Having, slotVars
<1>1. TypeOK'
  BY DEF States, Labels, Preemptible, InLock, Modes, Memory, Procs, initproc
<1>2. LockHandOver'
  BY DEF LockHandOver, InSection, InLock, Resumable, CpuRuns, ResumesAt, RunsOnOneCpu, Cpus
<1>3. RunsOnOneCpu'
  BY DEF RunsOnOneCpu, CpuRuns, SchedState, NpEmbryo, NpInFork, LockHandOver, InSection
<1>4. CpuRuns' BY DEF CpuRuns, Procs
<1>5. SchedState'
  BY DEF CpuRuns, SchedState, LockHandOver, InSection, InLock, NpEmbryo, NpInFork, RunsOnOneCpu, Live, ForkLabels, Where
<1>6. ResumesAt'
  BY DEF ResumesAt, Resumable, RunsOnOneCpu, NpEmbryo, NpInFork, ForkLabels, Where, Live
<1>7. RunningLabel'
  BY DEF RunningLabel, ResumesAt, Resumable, RunsOnOneCpu, RetLabel, Preemptible, NpEmbryo
<1>8. RetLabel' BY DEF RetLabel, Preemptible
<1>9. NpInFork'
  BY DEF NpInFork, NpEmbryo, NpOwn, Live, Where, ForkLabels, RunsOnOneCpu, RetLabel, Preemptible, ResumesAt, Resumable
<1>10. NpEmbryo'
  BY DEF NpEmbryo, NpInFork, NpOwn, Live, Where, ForkLabels, RunsOnOneCpu, RetLabel, Preemptible, ResumesAt, Resumable
<1>11. NpOwn' BY DEF NpOwn, NpEmbryo
<1>12. MemOwned'
  BY DEF MemOwned, NpEmbryo, NpInFork, Live, Where, ForkLabels, RunsOnOneCpu
<1> QED BY <1>1, <1>2, <1>3, <1>4, <1>5, <1>6, <1>7, <1>8, <1>9, <1>10, <1>11, <1>12

\* sched() returns to the scheduler with the lock still held.
LEMMA SchedSafe ==
  ASSUME SafetyInv, NEW c \in Cpus,
         Sched(c)
  PROVE  SafetyInv'
<1> USE DEF SafetyInv, CpuInv, ForkInv, TypeOK, None,
            Sched, slotVars
<1>1. TypeOK'
  BY DEF States, Labels, Preemptible, InLock, Modes, Memory, Procs, initproc
<1>2. LockHandOver'
  BY DEF LockHandOver, InSection, InLock, Resumable, CpuRuns, ResumesAt, RunsOnOneCpu, Cpus
<1>3. RunsOnOneCpu'
  BY DEF RunsOnOneCpu, CpuRuns, SchedState, NpEmbryo, NpInFork, LockHandOver, InSection
<1>4. CpuRuns' BY DEF CpuRuns, Procs
<1>5. SchedState'
  BY DEF CpuRuns, SchedState, LockHandOver, InSection, InLock, NpEmbryo, NpInFork, RunsOnOneCpu, Live, ForkLabels, Where
<1>6. ResumesAt'
  BY DEF ResumesAt, Resumable, RunsOnOneCpu, NpEmbryo, NpInFork, ForkLabels, Where, Live
<1>7. RunningLabel'
  BY DEF RunningLabel, ResumesAt, Resumable, RunsOnOneCpu, RetLabel, Preemptible, NpEmbryo
<1>8. RetLabel' BY DEF RetLabel, Preemptible
<1>9. NpInFork'
  BY DEF NpInFork, NpEmbryo, NpOwn, Live, Where, ForkLabels, RunsOnOneCpu, RetLabel, Preemptible, ResumesAt, Resumable
<1>10. NpEmbryo'
  BY DEF NpEmbryo, NpInFork, NpOwn, Live, Where, ForkLabels, RunsOnOneCpu, RetLabel, Preemptible, ResumesAt, Resumable
<1>11. NpOwn' BY DEF NpOwn, NpEmbryo
<1>12. MemOwned'
  BY DEF MemOwned, NpEmbryo, NpInFork, Live, Where, ForkLabels, RunsOnOneCpu
<1> QED BY <1>1, <1>2, <1>3, <1>4, <1>5, <1>6, <1>7, <1>8, <1>9, <1>10, <1>11, <1>12

\* yield() up to its sched().
LEMMA YieldSafe ==
  ASSUME SafetyInv, NEW c \in Cpus, NEW p \in Procs,
         Yield(c, p)
  PROVE  SafetyInv'
<1> USE DEF SafetyInv, CpuInv, ForkInv, TypeOK, None,
            Yield, At, Goto, Acquire
<1>1. TypeOK'
  BY DEF States, Labels, Preemptible, InLock, Modes, Memory, Procs, initproc
<1>2. LockHandOver'
  BY DEF LockHandOver, InSection, InLock, Resumable, CpuRuns, ResumesAt, RunsOnOneCpu, Cpus
<1>3. RunsOnOneCpu'
  BY DEF RunsOnOneCpu, CpuRuns, SchedState, NpEmbryo, NpInFork, LockHandOver, InSection
<1>4. CpuRuns' BY DEF CpuRuns, Procs
<1>5. SchedState'
  BY DEF CpuRuns, SchedState, LockHandOver, InSection, InLock, NpEmbryo, NpInFork, RunsOnOneCpu, Live, ForkLabels, Where
<1>6. ResumesAt'
  BY DEF ResumesAt, Resumable, RunsOnOneCpu, NpEmbryo, NpInFork, ForkLabels, Where, Live
<1>7. RunningLabel'
  BY DEF RunningLabel, ResumesAt, Resumable, RunsOnOneCpu, RetLabel, Preemptible, NpEmbryo
<1>8. RetLabel' BY DEF RetLabel, Preemptible
<1>9. NpInFork'
  BY DEF NpInFork, NpEmbryo, NpOwn, Live, Where, ForkLabels, RunsOnOneCpu, RetLabel, Preemptible, ResumesAt, Resumable
<1>10. NpEmbryo'
  BY DEF NpEmbryo, NpInFork, NpOwn, Live, Where, ForkLabels, RunsOnOneCpu, RetLabel, Preemptible, ResumesAt, Resumable
<1>11. NpOwn' BY DEF NpOwn, NpEmbryo
<1>12. MemOwned'
  BY DEF MemOwned, NpEmbryo, NpInFork, Live, Where, ForkLabels, RunsOnOneCpu
<1> QED BY <1>1, <1>2, <1>3, <1>4, <1>5, <1>6, <1>7, <1>8, <1>9, <1>10, <1>11, <1>12

\* yield() after its sched().
LEMMA YieldReturnSafe ==
  ASSUME SafetyInv, NEW c \in Cpus, NEW p \in Procs,
         YieldReturn(c, p)
  PROVE  SafetyInv'
<1> USE DEF SafetyInv, CpuInv, ForkInv, TypeOK, None,
            YieldReturn, At, GoBack, Release, slotVars, Goto
<1>1. TypeOK'
  BY DEF States, Labels, Preemptible, InLock, Modes, Memory, Procs, initproc
<1>2. LockHandOver'
  <2>1. pc'[p] \notin InLock BY DEF RetLabel, Preemptible, InLock, Labels
  <2>2. \A d \in Cpus \ {c} : proc[d] # p BY DEF RunsOnOneCpu, Procs
  <2> QED BY <2>1, <2>2 DEF LockHandOver, InSection, CpuRuns, Cpus
<1>3. RunsOnOneCpu'
  BY DEF RunsOnOneCpu, CpuRuns, SchedState, NpEmbryo, NpInFork, LockHandOver, InSection
<1>4. CpuRuns' BY DEF CpuRuns, Procs
<1>5. SchedState'
  BY DEF CpuRuns, SchedState, LockHandOver, InSection, InLock, NpEmbryo, NpInFork, RunsOnOneCpu, Live, ForkLabels, Where
<1>6. ResumesAt'
  BY DEF ResumesAt, Resumable, RunsOnOneCpu, NpEmbryo, NpInFork, ForkLabels, Where, Live
<1>7. RunningLabel'
  BY DEF RunningLabel, ResumesAt, Resumable, RunsOnOneCpu, RetLabel, Preemptible, NpEmbryo
<1>8. RetLabel' BY DEF RetLabel, Preemptible
<1>9. NpInFork'
  BY DEF NpInFork, NpEmbryo, NpOwn, Live, Where, ForkLabels, RunsOnOneCpu, RetLabel, Preemptible, ResumesAt, Resumable
<1>10. NpEmbryo'
  BY DEF NpEmbryo, NpInFork, NpOwn, Live, Where, ForkLabels, RunsOnOneCpu, RetLabel, Preemptible, ResumesAt, Resumable
<1>11. NpOwn' BY DEF NpOwn, NpEmbryo
<1>12. MemOwned'
  BY DEF MemOwned, NpEmbryo, NpInFork, Live, Where, ForkLabels, RunsOnOneCpu
<1> QED BY <1>1, <1>2, <1>3, <1>4, <1>5, <1>6, <1>7, <1>8, <1>9, <1>10, <1>11, <1>12

\* A new process's first step releases the scheduler's lock.
LEMMA ForkRetSafe ==
  ASSUME SafetyInv, NEW c \in Cpus, NEW p \in Procs,
         ForkRet(c, p)
  PROVE  SafetyInv'
<1> USE DEF SafetyInv, CpuInv, ForkInv, TypeOK, None,
            ForkRet, At, Goto, Release, slotVars
<1>1. TypeOK'
  BY DEF States, Labels, Preemptible, InLock, Modes, Memory, Procs, initproc
<1>2. LockHandOver'
  BY DEF LockHandOver, InSection, InLock, Resumable, CpuRuns, ResumesAt, RunsOnOneCpu, Cpus
<1>3. RunsOnOneCpu'
  BY DEF RunsOnOneCpu, CpuRuns, SchedState, NpEmbryo, NpInFork, LockHandOver, InSection
<1>4. CpuRuns' BY DEF CpuRuns, Procs
<1>5. SchedState'
  BY DEF CpuRuns, SchedState, LockHandOver, InSection, InLock, NpEmbryo, NpInFork, RunsOnOneCpu, Live, ForkLabels, Where
<1>6. ResumesAt'
  BY DEF ResumesAt, Resumable, RunsOnOneCpu, NpEmbryo, NpInFork, ForkLabels, Where, Live
<1>7. RunningLabel'
  BY DEF RunningLabel, ResumesAt, Resumable, RunsOnOneCpu, RetLabel, Preemptible, NpEmbryo
<1>8. RetLabel' BY DEF RetLabel, Preemptible
<1>9. NpInFork'
  BY DEF NpInFork, NpEmbryo, NpOwn, Live, Where, ForkLabels, RunsOnOneCpu, RetLabel, Preemptible, ResumesAt, Resumable
<1>10. NpEmbryo'
  BY DEF NpEmbryo, NpInFork, NpOwn, Live, Where, ForkLabels, RunsOnOneCpu, RetLabel, Preemptible, ResumesAt, Resumable
<1>11. NpOwn' BY DEF NpOwn, NpEmbryo
<1>12. MemOwned'
  BY DEF MemOwned, NpEmbryo, NpInFork, Live, Where, ForkLabels, RunsOnOneCpu
<1> QED BY <1>1, <1>2, <1>3, <1>4, <1>5, <1>6, <1>7, <1>8, <1>9, <1>10, <1>11, <1>12

\* allocproc()'s section: the slot it takes is on no CPU and in no other fork().
LEMMA ForkAllocSafe ==
  ASSUME SafetyInv, NEW c \in Cpus, NEW p \in Procs,
         ForkAlloc(c, p)
  PROVE  SafetyInv'
<1> USE DEF SafetyInv, CpuInv, ForkInv, TypeOK, None,
            ForkAlloc, At, Goto, InOneGo, IsFirst, Having
<1>1. TypeOK' BY DEF States, Labels, Preemptible
<1>2. LockHandOver'
  <2>1. \A d \in Cpus \ {c} : proc[d] # p BY DEF RunsOnOneCpu, Procs
  <2>2. \A d \in Cpus \ {c} : InSection(d)' <=> InSection(d) BY <2>1 DEF InSection, CpuRuns
  <2>3. ~InSection(c) /\ ~InSection(c)' BY DEF InSection, InLock
  <2> QED BY <2>2, <2>3 DEF LockHandOver, Cpus
<1>3. RunsOnOneCpu'
  BY DEF RunsOnOneCpu, CpuRuns, SchedState, NpEmbryo, NpInFork, LockHandOver, InSection
<1>4. CpuRuns' BY DEF CpuRuns, Procs
<1>5. SchedState'
  BY DEF CpuRuns, SchedState, LockHandOver, InSection, InLock, NpEmbryo, NpInFork, RunsOnOneCpu, Live, ForkLabels, Where
<1>6. ResumesAt'
  BY DEF ResumesAt, Resumable, RunsOnOneCpu, NpEmbryo, NpInFork, ForkLabels, Where, Live
<1>7. RunningLabel'
  BY DEF RunningLabel, ResumesAt, Resumable, RunsOnOneCpu, RetLabel, Preemptible, NpEmbryo
<1>8. RetLabel' BY DEF RetLabel, Preemptible
<1>9. NpInFork'
  <2>1. CASE Having("UNUSED") = {}
    BY <2>1 DEF NpInFork, Where, Live, ForkLabels, RunsOnOneCpu
  <2>2. CASE Having("UNUSED") # {}
    <3>1. PICK q \in Procs : /\ state[q] = "UNUSED"
                             /\ state' = [state EXCEPT ![q] = "EMBRYO"]
                             /\ np' = [np EXCEPT ![p] = q]
                             /\ pc' = [pc EXCEPT ![p] = "fork_kstack"]
      BY <2>2
    <3>2. state[p] = "RUNNING" /\ p # q BY <3>1 DEF RunsOnOneCpu
    <3>3. np'[p] # None /\ state'[p] \in Live /\ Where(p)' \in ForkLabels
      BY <3>1, <3>2 DEF Live, Where, ForkLabels, Procs
    <3>4. np'[q] = None /\ state'[q] \notin Live BY <3>1, <3>2 DEF NpInFork, Live
    <3>5. ASSUME NEW r \in Procs \ {p, q}
          PROVE  np'[r] = np[r] /\ state'[r] = state[r] /\ Where(r)' = Where(r)
      BY <3>1, <3>5 DEF Where
    <3> QED BY <3>3, <3>4, <3>5 DEF NpInFork
  <2> QED BY <2>1, <2>2
<1>10. NpEmbryo'
  BY DEF NpEmbryo, NpInFork, NpOwn, Live, Where, ForkLabels, RunsOnOneCpu, RetLabel, Preemptible, ResumesAt, Resumable
<1>11. NpOwn' BY DEF NpOwn, NpEmbryo
<1>12. MemOwned'
  BY DEF MemOwned, NpEmbryo, NpInFork, Live, Where, ForkLabels, RunsOnOneCpu
<1> QED BY <1>1, <1>2, <1>3, <1>4, <1>5, <1>6, <1>7, <1>8, <1>9, <1>10, <1>11, <1>12

\* allocproc() gets a stack, or gives the slot back without the lock.
LEMMA ForkKstackSafe ==
  ASSUME SafetyInv, NEW c \in Cpus, NEW p \in Procs,
         ForkKstack(c, p)
  PROVE  SafetyInv'
<1> USE DEF SafetyInv, CpuInv, ForkInv, TypeOK, None,
            ForkKstack, At, ForkFail, cpuVars, Goto
<1>0. np[p] \in Procs /\ state[np[p]] = "EMBRYO" /\ np[p] # p
  BY DEF NpInFork, NpEmbryo, Where, ForkLabels, RunsOnOneCpu, Live, CpuRuns
<1>1. TypeOK'
  <2>1. mem' \in [Procs -> SUBSET Memory] BY <1>0, SMT DEF Memory
  <2>2. state' \in [Procs -> States] /\ pc' \in [Procs -> Labels]
    BY <1>0 DEF States, Labels, Preemptible, InLock
  <2>3. parent' \in [Procs -> Procs \cup {None}] /\ np' \in [Procs -> Procs \cup {None}]
    BY <1>0
  <2> QED BY <2>1, <2>2, <2>3
<1>2. LockHandOver'
  <2>1. \A d \in Cpus : mode[d] = "run" => proc[d] # np[p] BY <1>0 DEF RunsOnOneCpu
  <2> QED BY <1>0, <2>1 DEF LockHandOver, InSection, InLock, CpuRuns, RunsOnOneCpu, Cpus
<1>3. RunsOnOneCpu'
  BY DEF RunsOnOneCpu, CpuRuns, SchedState, NpEmbryo, NpInFork, LockHandOver, InSection
<1>4. CpuRuns' BY DEF CpuRuns, Procs
<1>5. SchedState'
  BY DEF CpuRuns, SchedState, LockHandOver, InSection, InLock, NpEmbryo, NpInFork, RunsOnOneCpu, Live, ForkLabels, Where
<1>6. ResumesAt'
  BY DEF ResumesAt, Resumable, RunsOnOneCpu, NpEmbryo, NpInFork, ForkLabels, Where, Live
<1>7. RunningLabel'
  BY DEF RunningLabel, ResumesAt, Resumable, RunsOnOneCpu, RetLabel, Preemptible, NpEmbryo
<1>8. RetLabel' BY DEF RetLabel, Preemptible
<1>9. NpInFork'
  BY DEF NpInFork, NpEmbryo, NpOwn, Live, Where, ForkLabels, RunsOnOneCpu, RetLabel, Preemptible, ResumesAt, Resumable
<1>10. NpEmbryo'
  BY DEF NpEmbryo, NpInFork, NpOwn, Live, Where, ForkLabels, RunsOnOneCpu, RetLabel, Preemptible, ResumesAt, Resumable
<1>11. NpOwn' BY DEF NpOwn, NpEmbryo
<1>12. MemOwned'
  BY DEF MemOwned, NpEmbryo, NpInFork, Live, Where, ForkLabels, RunsOnOneCpu
<1> QED BY <1>1, <1>2, <1>3, <1>4, <1>5, <1>6, <1>7, <1>8, <1>9, <1>10, <1>11, <1>12

\* fork() copies the address space, or gives the slot back without the lock.
LEMMA ForkCopySafe ==
  ASSUME SafetyInv, NEW c \in Cpus, NEW p \in Procs,
         ForkCopy(c, p)
  PROVE  SafetyInv'
<1> USE DEF SafetyInv, CpuInv, ForkInv, TypeOK, None,
            ForkCopy, At, Goto, ForkFail, cpuVars, Memory
<1>0. np[p] \in Procs /\ state[np[p]] = "EMBRYO" /\ np[p] # p
  BY DEF NpInFork, NpEmbryo, Where, ForkLabels, RunsOnOneCpu, Live, CpuRuns
<1>1. TypeOK'
  <2>1. mem' \in [Procs -> SUBSET Memory] BY <1>0, SMT DEF Memory
  <2>2. state' \in [Procs -> States] /\ pc' \in [Procs -> Labels]
    BY <1>0 DEF States, Labels, Preemptible, InLock
  <2>3. parent' \in [Procs -> Procs \cup {None}] /\ np' \in [Procs -> Procs \cup {None}]
    BY <1>0
  <2> QED BY <2>1, <2>2, <2>3
<1>2. LockHandOver'
  <2>1. \A d \in Cpus : mode[d] = "run" => proc[d] # np[p] BY <1>0 DEF RunsOnOneCpu
  <2> QED BY <1>0, <2>1 DEF LockHandOver, InSection, InLock, CpuRuns, RunsOnOneCpu, Cpus
<1>3. RunsOnOneCpu'
  BY DEF RunsOnOneCpu, CpuRuns, SchedState, NpEmbryo, NpInFork, LockHandOver, InSection
<1>4. CpuRuns' BY DEF CpuRuns, Procs
<1>5. SchedState'
  BY DEF CpuRuns, SchedState, LockHandOver, InSection, InLock, NpEmbryo, NpInFork, RunsOnOneCpu, Live, ForkLabels, Where
<1>6. ResumesAt'
  BY DEF ResumesAt, Resumable, RunsOnOneCpu, NpEmbryo, NpInFork, ForkLabels, Where, Live
<1>7. RunningLabel'
  BY DEF RunningLabel, ResumesAt, Resumable, RunsOnOneCpu, RetLabel, Preemptible, NpEmbryo
<1>8. RetLabel' BY DEF RetLabel, Preemptible
<1>9. NpInFork'
  BY DEF NpInFork, NpEmbryo, NpOwn, Live, Where, ForkLabels, RunsOnOneCpu, RetLabel, Preemptible, ResumesAt, Resumable
<1>10. NpEmbryo'
  BY DEF NpEmbryo, NpInFork, NpOwn, Live, Where, ForkLabels, RunsOnOneCpu, RetLabel, Preemptible, ResumesAt, Resumable
<1>11. NpOwn' BY DEF NpOwn, NpEmbryo
<1>12. MemOwned'
  BY DEF MemOwned, NpEmbryo, NpInFork, Live, Where, ForkLabels, RunsOnOneCpu
<1> QED BY <1>1, <1>2, <1>3, <1>4, <1>5, <1>6, <1>7, <1>8, <1>9, <1>10, <1>11, <1>12

\* fork() makes a completely built process runnable.
LEMMA ForkRunSafe ==
  ASSUME SafetyInv, NEW c \in Cpus, NEW p \in Procs,
         ForkRun(c, p)
  PROVE  SafetyInv'
<1> USE DEF SafetyInv, CpuInv, ForkInv, TypeOK, None,
            ForkRun, At, Goto, InOneGo
<1>1. TypeOK'
  BY Zenon DEF States, Labels, Preemptible, InLock, Modes, Memory, Procs, initproc
<1>2. LockHandOver'
  BY DEF LockHandOver, InSection, InLock, Resumable, CpuRuns, ResumesAt, RunsOnOneCpu, Cpus
<1>3. RunsOnOneCpu'
  BY DEF RunsOnOneCpu, CpuRuns, SchedState, NpEmbryo, NpInFork, LockHandOver, InSection
<1>4. CpuRuns' BY DEF CpuRuns, Procs
<1>5. SchedState'
  BY DEF CpuRuns, SchedState, LockHandOver, InSection, InLock, NpEmbryo, NpInFork, RunsOnOneCpu, Live, ForkLabels, Where
<1>6. ResumesAt'
  BY DEF ResumesAt, Resumable, RunsOnOneCpu, NpEmbryo, NpInFork, ForkLabels, Where, Live
<1>7. RunningLabel'
  BY DEF RunningLabel, ResumesAt, Resumable, RunsOnOneCpu, RetLabel, Preemptible, NpEmbryo
<1>8. RetLabel' BY DEF RetLabel, Preemptible
<1>9. NpInFork'
  BY DEF NpInFork, NpEmbryo, NpOwn, Live, Where, ForkLabels, RunsOnOneCpu, RetLabel, Preemptible, ResumesAt, Resumable
<1>10. NpEmbryo'
  BY DEF NpEmbryo, NpInFork, NpOwn, Live, Where, ForkLabels, RunsOnOneCpu, RetLabel, Preemptible, ResumesAt, Resumable
<1>11. NpOwn' BY DEF NpOwn, NpEmbryo
<1>12. MemOwned'
  BY DEF MemOwned, NpEmbryo, NpInFork, Live, Where, ForkLabels, RunsOnOneCpu
<1> QED BY <1>1, <1>2, <1>3, <1>4, <1>5, <1>6, <1>7, <1>8, <1>9, <1>10, <1>11, <1>12

\* exit()'s section: the process turns ZOMBIE while still on its CPU.
LEMMA ExitSafe ==
  ASSUME SafetyInv, NEW c \in Cpus, NEW p \in Procs,
         Exit(c, p)
  PROVE  SafetyInv'
<1> USE DEF SafetyInv, CpuInv, ForkInv, TypeOK, None,
            Exit, Adopted, At, Goto, Acquire, Having, Children, Woken, initproc
<1>1. TypeOK'
  <2>1. parent' \in [Procs -> Procs \cup {None}] BY NprocAssumption DEF Procs
  <2> QED BY <2>1 DEF States, Labels, Modes
<1>2. LockHandOver'
  BY DEF LockHandOver, InSection, InLock, Resumable, CpuRuns, ResumesAt, RunsOnOneCpu, Cpus
<1>3. RunsOnOneCpu'
  BY DEF RunsOnOneCpu, CpuRuns, SchedState, NpEmbryo, NpInFork, LockHandOver, InSection
<1>4. CpuRuns' BY DEF CpuRuns, Procs
<1>5. SchedState'
  BY DEF CpuRuns, SchedState, LockHandOver, InSection, InLock, NpEmbryo, NpInFork, RunsOnOneCpu, Live, ForkLabels, Where
<1>6. ResumesAt'
  BY DEF ResumesAt, Resumable, RunsOnOneCpu, NpEmbryo, NpInFork, ForkLabels, Where, Live
<1>7. RunningLabel'
  BY DEF RunningLabel, ResumesAt, Resumable, RunsOnOneCpu, RetLabel, Preemptible, NpEmbryo
<1>8. RetLabel' BY DEF RetLabel, Preemptible
<1>9. NpInFork'
  BY DEF NpInFork, NpEmbryo, NpOwn, Live, Where, ForkLabels, RunsOnOneCpu, RetLabel, Preemptible, ResumesAt, Resumable
<1>10. NpEmbryo'
  BY DEF NpEmbryo, NpInFork, NpOwn, Live, Where, ForkLabels, RunsOnOneCpu, RetLabel, Preemptible, ResumesAt, Resumable
<1>11. NpOwn' BY DEF NpOwn, NpEmbryo
<1>12. MemOwned'
  BY DEF MemOwned, NpEmbryo, NpInFork, Live, Where, ForkLabels, RunsOnOneCpu
<1> QED BY <1>1, <1>2, <1>3, <1>4, <1>5, <1>6, <1>7, <1>8, <1>9, <1>10, <1>11, <1>12

\* wait() takes the lock.
LEMMA WaitAcquireSafe ==
  ASSUME SafetyInv, NEW c \in Cpus, NEW p \in Procs,
         WaitAcquire(c, p)
  PROVE  SafetyInv'
<1> USE DEF SafetyInv, CpuInv, ForkInv, TypeOK, None,
            WaitAcquire, At, Goto, Acquire, slotVars
<1>1. TypeOK'
  BY DEF States, Labels, Preemptible, InLock, Modes, Memory, Procs, initproc
<1>2. LockHandOver'
  BY DEF LockHandOver, InSection, InLock, Resumable, CpuRuns, ResumesAt, RunsOnOneCpu, Cpus
<1>3. RunsOnOneCpu'
  BY DEF RunsOnOneCpu, CpuRuns, SchedState, NpEmbryo, NpInFork, LockHandOver, InSection
<1>4. CpuRuns' BY DEF CpuRuns, Procs
<1>5. SchedState'
  BY DEF CpuRuns, SchedState, LockHandOver, InSection, InLock, NpEmbryo, NpInFork, RunsOnOneCpu, Live, ForkLabels, Where
<1>6. ResumesAt'
  BY DEF ResumesAt, Resumable, RunsOnOneCpu, NpEmbryo, NpInFork, ForkLabels, Where, Live
<1>7. RunningLabel'
  BY DEF RunningLabel, ResumesAt, Resumable, RunsOnOneCpu, RetLabel, Preemptible, NpEmbryo
<1>8. RetLabel' BY DEF RetLabel, Preemptible
<1>9. NpInFork'
  BY DEF NpInFork, NpEmbryo, NpOwn, Live, Where, ForkLabels, RunsOnOneCpu, RetLabel, Preemptible, ResumesAt, Resumable
<1>10. NpEmbryo'
  BY DEF NpEmbryo, NpInFork, NpOwn, Live, Where, ForkLabels, RunsOnOneCpu, RetLabel, Preemptible, ResumesAt, Resumable
<1>11. NpOwn' BY DEF NpOwn, NpEmbryo
<1>12. MemOwned'
  BY DEF MemOwned, NpEmbryo, NpInFork, Live, Where, ForkLabels, RunsOnOneCpu
<1> QED BY <1>1, <1>2, <1>3, <1>4, <1>5, <1>6, <1>7, <1>8, <1>9, <1>10, <1>11, <1>12

\* wait() frees a zombie, which by LockHandOver has left its CPU.
LEMMA WaitReapSafe ==
  ASSUME SafetyInv, NEW c \in Cpus, NEW p \in Procs,
         WaitReap(c, p)
  PROVE  SafetyInv'
<1> USE DEF SafetyInv, CpuInv, ForkInv, TypeOK, None,
            WaitReap, At, Goto, Release, IsFirst, Having, Children
<1>1. TypeOK'
  BY DEF States, Labels, Preemptible, InLock, Modes, Memory, Procs, initproc
<1>2. LockHandOver'
  BY DEF LockHandOver, InSection, InLock, Resumable, CpuRuns, ResumesAt, RunsOnOneCpu, Cpus
<1>3. RunsOnOneCpu'
  BY DEF RunsOnOneCpu, CpuRuns, SchedState, NpEmbryo, NpInFork, LockHandOver, InSection
<1>4. CpuRuns' BY DEF CpuRuns, Procs
<1>5. SchedState'
  BY DEF CpuRuns, SchedState, LockHandOver, InSection, InLock, NpEmbryo, NpInFork, RunsOnOneCpu, Live, ForkLabels, Where
<1>6. ResumesAt'
  BY DEF ResumesAt, Resumable, RunsOnOneCpu, NpEmbryo, NpInFork, ForkLabels, Where, Live
<1>7. RunningLabel'
  BY DEF RunningLabel, ResumesAt, Resumable, RunsOnOneCpu, RetLabel, Preemptible, NpEmbryo
<1>8. RetLabel' BY DEF RetLabel, Preemptible
<1>9. NpInFork'
  BY DEF NpInFork, NpEmbryo, NpOwn, Live, Where, ForkLabels, RunsOnOneCpu, RetLabel, Preemptible, ResumesAt, Resumable
<1>10. NpEmbryo'
  BY DEF NpEmbryo, NpInFork, NpOwn, Live, Where, ForkLabels, RunsOnOneCpu, RetLabel, Preemptible, ResumesAt, Resumable
<1>11. NpOwn' BY DEF NpOwn, NpEmbryo
<1>12. MemOwned'
  BY DEF MemOwned, NpEmbryo, NpInFork, Live, Where, ForkLabels, RunsOnOneCpu
<1> QED BY <1>1, <1>2, <1>3, <1>4, <1>5, <1>6, <1>7, <1>8, <1>9, <1>10, <1>11, <1>12

\* wait() returns -1.
LEMMA WaitFailSafe ==
  ASSUME SafetyInv, NEW c \in Cpus, NEW p \in Procs,
         WaitFail(c, p)
  PROVE  SafetyInv'
<1> USE DEF SafetyInv, CpuInv, ForkInv, TypeOK, None,
            WaitFail, At, Goto, Release, Having, Children, slotVars
<1>1. TypeOK'
  BY DEF States, Labels, Preemptible, InLock, Modes, Memory, Procs, initproc
<1>2. LockHandOver'
  BY DEF LockHandOver, InSection, InLock, Resumable, CpuRuns, ResumesAt, RunsOnOneCpu, Cpus
<1>3. RunsOnOneCpu'
  BY DEF RunsOnOneCpu, CpuRuns, SchedState, NpEmbryo, NpInFork, LockHandOver, InSection
<1>4. CpuRuns' BY DEF CpuRuns, Procs
<1>5. SchedState'
  BY DEF CpuRuns, SchedState, LockHandOver, InSection, InLock, NpEmbryo, NpInFork, RunsOnOneCpu, Live, ForkLabels, Where
<1>6. ResumesAt'
  BY DEF ResumesAt, Resumable, RunsOnOneCpu, NpEmbryo, NpInFork, ForkLabels, Where, Live
<1>7. RunningLabel'
  BY DEF RunningLabel, ResumesAt, Resumable, RunsOnOneCpu, RetLabel, Preemptible, NpEmbryo
<1>8. RetLabel' BY DEF RetLabel, Preemptible
<1>9. NpInFork'
  BY DEF NpInFork, NpEmbryo, NpOwn, Live, Where, ForkLabels, RunsOnOneCpu, RetLabel, Preemptible, ResumesAt, Resumable
<1>10. NpEmbryo'
  BY DEF NpEmbryo, NpInFork, NpOwn, Live, Where, ForkLabels, RunsOnOneCpu, RetLabel, Preemptible, ResumesAt, Resumable
<1>11. NpOwn' BY DEF NpOwn, NpEmbryo
<1>12. MemOwned'
  BY DEF MemOwned, NpEmbryo, NpInFork, Live, Where, ForkLabels, RunsOnOneCpu
<1> QED BY <1>1, <1>2, <1>3, <1>4, <1>5, <1>6, <1>7, <1>8, <1>9, <1>10, <1>11, <1>12

\* wait() goes to sleep without releasing the lock.
LEMMA WaitSleepSafe ==
  ASSUME SafetyInv, NEW c \in Cpus, NEW p \in Procs,
         WaitSleep(c, p)
  PROVE  SafetyInv'
<1> USE DEF SafetyInv, CpuInv, ForkInv, TypeOK, None,
            WaitSleep, At, Goto, Having, Children
<1>1. TypeOK'
  BY DEF States, Labels, Preemptible, InLock, Modes, Memory, Procs, initproc
<1>2. LockHandOver'
  BY DEF LockHandOver, InSection, InLock, Resumable, CpuRuns, ResumesAt, RunsOnOneCpu, Cpus
<1>3. RunsOnOneCpu'
  BY DEF RunsOnOneCpu, CpuRuns, SchedState, NpEmbryo, NpInFork, LockHandOver, InSection
<1>4. CpuRuns' BY DEF CpuRuns, Procs
<1>5. SchedState'
  BY DEF CpuRuns, SchedState, LockHandOver, InSection, InLock, NpEmbryo, NpInFork, RunsOnOneCpu, Live, ForkLabels, Where
<1>6. ResumesAt'
  BY DEF ResumesAt, Resumable, RunsOnOneCpu, NpEmbryo, NpInFork, ForkLabels, Where, Live
<1>7. RunningLabel'
  BY DEF RunningLabel, ResumesAt, Resumable, RunsOnOneCpu, RetLabel, Preemptible, NpEmbryo
<1>8. RetLabel' BY DEF RetLabel, Preemptible
<1>9. NpInFork'
  BY DEF NpInFork, NpEmbryo, NpOwn, Live, Where, ForkLabels, RunsOnOneCpu, RetLabel, Preemptible, ResumesAt, Resumable
<1>10. NpEmbryo'
  BY DEF NpEmbryo, NpInFork, NpOwn, Live, Where, ForkLabels, RunsOnOneCpu, RetLabel, Preemptible, ResumesAt, Resumable
<1>11. NpOwn' BY DEF NpOwn, NpEmbryo
<1>12. MemOwned'
  BY DEF MemOwned, NpEmbryo, NpInFork, Live, Where, ForkLabels, RunsOnOneCpu
<1> QED BY <1>1, <1>2, <1>3, <1>4, <1>5, <1>6, <1>7, <1>8, <1>9, <1>10, <1>11, <1>12

\* wait() wakes up holding the lock.
LEMMA WaitWokenSafe ==
  ASSUME SafetyInv, NEW c \in Cpus, NEW p \in Procs,
         WaitWoken(c, p)
  PROVE  SafetyInv'
<1> USE DEF SafetyInv, CpuInv, ForkInv, TypeOK, None,
            WaitWoken, At, Goto, cpuVars
<1>1. TypeOK'
  BY DEF States, Labels, Preemptible, InLock, Modes, Memory, Procs, initproc
<1>2. LockHandOver'
  BY DEF LockHandOver, InSection, InLock, Resumable, CpuRuns, ResumesAt, RunsOnOneCpu, Cpus
<1>3. RunsOnOneCpu'
  BY DEF RunsOnOneCpu, CpuRuns, SchedState, NpEmbryo, NpInFork, LockHandOver, InSection
<1>4. CpuRuns' BY DEF CpuRuns, Procs
<1>5. SchedState'
  BY DEF CpuRuns, SchedState, LockHandOver, InSection, InLock, NpEmbryo, NpInFork, RunsOnOneCpu, Live, ForkLabels, Where
<1>6. ResumesAt'
  BY DEF ResumesAt, Resumable, RunsOnOneCpu, NpEmbryo, NpInFork, ForkLabels, Where, Live
<1>7. RunningLabel'
  BY DEF RunningLabel, ResumesAt, Resumable, RunsOnOneCpu, RetLabel, Preemptible, NpEmbryo
<1>8. RetLabel' BY DEF RetLabel, Preemptible
<1>9. NpInFork'
  BY DEF NpInFork, NpEmbryo, NpOwn, Live, Where, ForkLabels, RunsOnOneCpu, RetLabel, Preemptible, ResumesAt, Resumable
<1>10. NpEmbryo'
  BY DEF NpEmbryo, NpInFork, NpOwn, Live, Where, ForkLabels, RunsOnOneCpu, RetLabel, Preemptible, ResumesAt, Resumable
<1>11. NpOwn' BY DEF NpOwn, NpEmbryo
<1>12. MemOwned'
  BY DEF MemOwned, NpEmbryo, NpInFork, Live, Where, ForkLabels, RunsOnOneCpu
<1> QED BY <1>1, <1>2, <1>3, <1>4, <1>5, <1>6, <1>7, <1>8, <1>9, <1>10, <1>11, <1>12

\* sleep() up to its sched().
LEMMA SleepSafe ==
  ASSUME SafetyInv, NEW c \in Cpus, NEW p \in Procs, NEW ch \in IoChans, NEW l,
         Sleep(c, p, ch, l)
  PROVE  SafetyInv'
<1> USE DEF SafetyInv, CpuInv, ForkInv, TypeOK, None,
            Sleep, At, Goto, Acquire
<1>1. TypeOK'
  BY DEF States, Labels, Preemptible, InLock, Modes, Memory, Procs, initproc
<1>2. LockHandOver'
  BY DEF LockHandOver, InSection, InLock, Resumable, CpuRuns, ResumesAt, RunsOnOneCpu, Cpus
<1>3. RunsOnOneCpu'
  BY DEF RunsOnOneCpu, CpuRuns, SchedState, NpEmbryo, NpInFork, LockHandOver, InSection
<1>4. CpuRuns' BY DEF CpuRuns, Procs
<1>5. SchedState'
  BY DEF CpuRuns, SchedState, LockHandOver, InSection, InLock, NpEmbryo, NpInFork, RunsOnOneCpu, Live, ForkLabels, Where
<1>6. ResumesAt'
  BY DEF ResumesAt, Resumable, RunsOnOneCpu, NpEmbryo, NpInFork, ForkLabels, Where, Live
<1>7. RunningLabel'
  BY DEF RunningLabel, ResumesAt, Resumable, RunsOnOneCpu, RetLabel, Preemptible, NpEmbryo
<1>8. RetLabel' BY DEF RetLabel, Preemptible
<1>9. NpInFork'
  BY DEF NpInFork, NpEmbryo, NpOwn, Live, Where, ForkLabels, RunsOnOneCpu, RetLabel, Preemptible, ResumesAt, Resumable
<1>10. NpEmbryo'
  BY DEF NpEmbryo, NpInFork, NpOwn, Live, Where, ForkLabels, RunsOnOneCpu, RetLabel, Preemptible, ResumesAt, Resumable
<1>11. NpOwn' BY DEF NpOwn, NpEmbryo
<1>12. MemOwned'
  BY DEF MemOwned, NpEmbryo, NpInFork, Live, Where, ForkLabels, RunsOnOneCpu
<1> QED BY <1>1, <1>2, <1>3, <1>4, <1>5, <1>6, <1>7, <1>8, <1>9, <1>10, <1>11, <1>12

\* sleep() after its sched().
LEMMA SleepReturnSafe ==
  ASSUME SafetyInv, NEW c \in Cpus, NEW p \in Procs,
         SleepReturn(c, p)
  PROVE  SafetyInv'
<1> USE DEF SafetyInv, CpuInv, ForkInv, TypeOK, None,
            SleepReturn, At, GoBack, Release, Goto
<1>1. TypeOK'
  BY Zenon DEF States, Labels, Preemptible, InLock, Modes, Memory, Procs, initproc
<1>2. LockHandOver'
  <2>1. pc'[p] \notin InLock BY DEF RetLabel, Preemptible, InLock, Labels
  <2>2. \A d \in Cpus \ {c} : proc[d] # p BY DEF RunsOnOneCpu, Procs
  <2> QED BY <2>1, <2>2 DEF LockHandOver, InSection, CpuRuns, Cpus
<1>3. RunsOnOneCpu'
  BY DEF RunsOnOneCpu, CpuRuns, SchedState, NpEmbryo, NpInFork, LockHandOver, InSection
<1>4. CpuRuns' BY DEF CpuRuns, Procs
<1>5. SchedState'
  BY DEF CpuRuns, SchedState, LockHandOver, InSection, InLock, NpEmbryo, NpInFork, RunsOnOneCpu, Live, ForkLabels, Where
<1>6. ResumesAt'
  BY DEF ResumesAt, Resumable, RunsOnOneCpu, NpEmbryo, NpInFork, ForkLabels, Where, Live
<1>7. RunningLabel'
  BY DEF RunningLabel, ResumesAt, Resumable, RunsOnOneCpu, RetLabel, Preemptible, NpEmbryo
<1>8. RetLabel' BY DEF RetLabel, Preemptible
<1>9. NpInFork'
  BY DEF NpInFork, NpEmbryo, NpOwn, Live, Where, ForkLabels, RunsOnOneCpu, RetLabel, Preemptible, ResumesAt, Resumable
<1>10. NpEmbryo'
  BY DEF NpEmbryo, NpInFork, NpOwn, Live, Where, ForkLabels, RunsOnOneCpu, RetLabel, Preemptible, ResumesAt, Resumable
<1>11. NpOwn' BY DEF NpOwn, NpEmbryo
<1>12. MemOwned'
  BY DEF MemOwned, NpEmbryo, NpInFork, Live, Where, ForkLabels, RunsOnOneCpu
<1> QED BY <1>1, <1>2, <1>3, <1>4, <1>5, <1>6, <1>7, <1>8, <1>9, <1>10, <1>11, <1>12

\* wakeup() only makes sleeping processes runnable.
LEMMA WakeupSafe ==
  ASSUME SafetyInv, NEW ch \in IoChans,
         Wakeup(ch)
  PROVE  SafetyInv'
<1> USE DEF SafetyInv, CpuInv, ForkInv, TypeOK, None,
            Wakeup, InOneGo, Woken
<1>1. TypeOK'
  BY DEF States, Labels, Preemptible, InLock, Modes, Memory, Procs, initproc
<1>2. LockHandOver'
  BY DEF LockHandOver, InSection, InLock, Resumable, CpuRuns, ResumesAt, RunsOnOneCpu, Cpus
<1>3. RunsOnOneCpu'
  BY DEF RunsOnOneCpu, CpuRuns, SchedState, NpEmbryo, NpInFork, LockHandOver, InSection
<1>4. CpuRuns' BY DEF CpuRuns, Procs
<1>5. SchedState'
  BY DEF CpuRuns, SchedState, LockHandOver, InSection, InLock, NpEmbryo, NpInFork, RunsOnOneCpu, Live, ForkLabels, Where
<1>6. ResumesAt'
  BY DEF ResumesAt, Resumable, RunsOnOneCpu, NpEmbryo, NpInFork, ForkLabels, Where, Live
<1>7. RunningLabel'
  BY DEF RunningLabel, ResumesAt, Resumable, RunsOnOneCpu, RetLabel, Preemptible, NpEmbryo
<1>8. RetLabel' BY DEF RetLabel, Preemptible
<1>9. NpInFork'
  BY DEF NpInFork, NpEmbryo, NpOwn, Live, Where, ForkLabels, RunsOnOneCpu, RetLabel, Preemptible, ResumesAt, Resumable
<1>10. NpEmbryo'
  BY DEF NpEmbryo, NpInFork, NpOwn, Live, Where, ForkLabels, RunsOnOneCpu, RetLabel, Preemptible, ResumesAt, Resumable
<1>11. NpOwn' BY DEF NpOwn, NpEmbryo
<1>12. MemOwned'
  BY DEF MemOwned, NpEmbryo, NpInFork, Live, Where, ForkLabels, RunsOnOneCpu
<1> QED BY <1>1, <1>2, <1>3, <1>4, <1>5, <1>6, <1>7, <1>8, <1>9, <1>10, <1>11, <1>12

\* kill() may make its target runnable.
LEMMA KillSafe ==
  ASSUME SafetyInv, NEW c \in Cpus, NEW p \in Procs, NEW n \in KillPids,
         Kill(c, p, n)
  PROVE  SafetyInv'
<1> USE DEF SafetyInv, CpuInv, ForkInv, TypeOK, None,
            Kill, Roused, At, Goto, InOneGo, IsFirst
<1>1. TypeOK'
  <2>1. killed' \in [Procs -> BOOLEAN] BY Zenon
  <2>2. state' \in [Procs -> States] BY DEF States
  <2> QED BY <2>1, <2>2, Zenon DEF Labels, Preemptible
<1>2. LockHandOver'
  BY DEF LockHandOver, InSection, InLock, Resumable, CpuRuns, ResumesAt, RunsOnOneCpu, Cpus
<1>3. RunsOnOneCpu'
  BY DEF RunsOnOneCpu, CpuRuns, SchedState, NpEmbryo, NpInFork, LockHandOver, InSection
<1>4. CpuRuns' BY DEF CpuRuns, Procs
<1>5. SchedState'
  BY DEF CpuRuns, SchedState, LockHandOver, InSection, InLock, NpEmbryo, NpInFork, RunsOnOneCpu, Live, ForkLabels, Where
<1>6. ResumesAt'
  BY DEF ResumesAt, Resumable, RunsOnOneCpu, NpEmbryo, NpInFork, ForkLabels, Where, Live
<1>7. RunningLabel'
  BY DEF RunningLabel, ResumesAt, Resumable, RunsOnOneCpu, RetLabel, Preemptible, NpEmbryo
<1>8. RetLabel' BY DEF RetLabel, Preemptible
<1>9. NpInFork'
  BY DEF NpInFork, NpEmbryo, NpOwn, Live, Where, ForkLabels, RunsOnOneCpu, RetLabel, Preemptible, ResumesAt, Resumable
<1>10. NpEmbryo'
  BY DEF NpEmbryo, NpInFork, NpOwn, Live, Where, ForkLabels, RunsOnOneCpu, RetLabel, Preemptible, ResumesAt, Resumable
<1>11. NpOwn' BY DEF NpOwn, NpEmbryo
<1>12. MemOwned'
  BY DEF MemOwned, NpEmbryo, NpInFork, Live, Where, ForkLabels, RunsOnOneCpu
<1> QED BY <1>1, <1>2, <1>3, <1>4, <1>5, <1>6, <1>7, <1>8, <1>9, <1>10, <1>11, <1>12

\* A step of a running process, outside the section, that only moves its label
\* (and perhaps where it returns to, or a killed flag) and neither enters nor
\* leaves the part of fork() that owns a slot.
LEMMA MoveSafe ==
  ASSUME SafetyInv, NEW c \in Cpus, NEW p \in Procs,
         NEW l \in Labels \ (InLock \cup {"zombie"}),
         mode[c] = "run", proc[c] = p, pc[p] \notin InLock,
         pc' = [pc EXCEPT ![p] = l],
         ret' \in [Procs -> Preemptible \cup {"user", "tick_check"}],
         \A q \in Procs \ {p} : ret'[q] = ret[q],
         Where(p)' = Where(p) \/ {Where(p), Where(p)'} \cap ForkLabels = {},
         killed' \in [Procs -> BOOLEAN],
         UNCHANGED <<state, pid, parent, chan, mem, nextpid, cpuVars, np>>
  PROVE  SafetyInv'
<1> USE DEF SafetyInv, CpuInv, ForkInv, TypeOK, None, cpuVars
<1>1. TypeOK' BY ZenonT(30) DEF Labels, Preemptible
<1>2. state[p] = "RUNNING" /\ \A d \in Cpus \ {c} : proc[d] # p
  BY DEF RunsOnOneCpu, Procs
<1>3. LockHandOver' BY <1>2 DEF LockHandOver, InSection, CpuRuns
<1>4. RunsOnOneCpu' BY DEF RunsOnOneCpu
<1>5. CpuRuns' /\ SchedState' BY DEF CpuRuns, SchedState
<1>6. ResumesAt' /\ RunningLabel' BY <1>2 DEF ResumesAt, RunningLabel
<1>7. RetLabel' BY ZenonT(30) DEF RetLabel
<1>8. \A q \in Procs \ {p} : Where(q)' = Where(q) BY DEF Where
<1>9. NpInFork' BY <1>8 DEF NpInFork
<1>10. NpEmbryo'
  <2>1. \A q \in Procs : np[q] # None => np[q] # p BY <1>2 DEF NpEmbryo
  <2> QED BY <1>8, <2>1 DEF NpEmbryo, NpInFork
<1>11. NpOwn' /\ MemOwned' BY DEF NpOwn, MemOwned
<1> QED BY <1>1, <1>3, <1>4, <1>5, <1>6, <1>7, <1>9, <1>10, <1>11

\* Steps of trap(), and of system calls that change no process state.
LEMMA TrapMovesSafe ==
  ASSUME SafetyInv, NEW c \in Cpus, NEW p \in Procs,
         \/ Syscall(c, p) \/ ReturnToUser(c, p) \/ Fault(c, p)
         \/ TimerUser(c, p) \/ TickCheck(c, p) \/ ExitCall(c, p)
         \/ \E l \in Preemptible : TimerKernel(c, p, l)
         \/ \E l \in {"sys", "blk"} : SyscallDone(c, p, l)
  PROVE  SafetyInv'
<1> DEFINE RetLabels == Preemptible \cup {"user", "tick_check"}
<1> USE DEF At, Goto, slotVars, Preemptible, InLock, Labels, Where, ForkLabels
<1>1. ret \in [Procs -> RetLabels] /\ killed \in [Procs -> BOOLEAN] /\ pc \in [Procs -> Labels]
  BY DEF SafetyInv, TypeOK, CpuInv, RetLabel
<1>2. CASE Syscall(c, p) BY <1>1, <1>2, MoveSafe, ZenonT(30) DEF Syscall
<1>3. CASE ReturnToUser(c, p) BY <1>1, <1>3, MoveSafe, ZenonT(30) DEF ReturnToUser
<1>4. CASE Fault(c, p)
  <2>1. killed' \in [Procs -> BOOLEAN] BY <1>1, <1>4, Zenon DEF Fault
  <2>2. {Where(p), Where(p)'} \cap ForkLabels = {} /\ pc[p] \notin InLock
    BY <1>1, <1>4, ZenonT(30) DEF Fault
  <2>3. ret' \in [Procs -> RetLabels] /\ \A q \in Procs \ {p} : ret'[q] = ret[q]
    BY <1>1, <1>4 DEF Fault
  <2>4. /\ mode[c] = "run" /\ proc[c] = p /\ pc' = [pc EXCEPT ![p] = "exit"]
        /\ UNCHANGED <<state, pid, parent, chan, mem, nextpid, cpuVars, np>>
    BY <1>4 DEF Fault
  <2>5. "exit" \in Labels \ (InLock \cup {"zombie"}) OBVIOUS
  <2> QED BY <2>1, <2>2, <2>3, <2>4, <2>5, MoveSafe, ZenonT(30)
<1>5. CASE TimerUser(c, p)
  <2>1. CASE Goto(p, "yield") /\ ret' = [ret EXCEPT ![p] = "tick_check"]
    BY <1>1, <1>5, <2>1, MoveSafe, ZenonT(30) DEF TimerUser
  <2>2. CASE Goto(p, "tick_check") /\ UNCHANGED ret
    BY <1>1, <1>5, <2>2, MoveSafe, ZenonT(30) DEF TimerUser
  <2> QED BY <1>5, <2>1, <2>2 DEF TimerUser
<1>6. CASE TickCheck(c, p)
  <2>1. CASE Goto(p, "exit") /\ UNCHANGED ret
    BY <1>1, <1>6, <2>1, MoveSafe, ZenonT(30) DEF TickCheck
  <2>2. CASE Goto(p, "yield") /\ ret' = [ret EXCEPT ![p] = "uret"]
    BY <1>1, <1>6, <2>2, MoveSafe, ZenonT(30) DEF TickCheck
  <2> QED BY <1>6, <2>1, <2>2, ZenonT(30) DEF TickCheck
<1>7. CASE ExitCall(c, p) BY <1>1, <1>7, MoveSafe, ZenonT(30) DEF ExitCall
<1>8. ASSUME NEW l \in Preemptible, TimerKernel(c, p, l) PROVE SafetyInv'
  BY <1>1, <1>8, MoveSafe, ZenonT(30) DEF TimerKernel
<1>9. ASSUME NEW l \in {"sys", "blk"}, SyscallDone(c, p, l) PROVE SafetyInv'
  BY <1>1, <1>9, MoveSafe, ZenonT(30) DEF SyscallDone
<1> QED BY <1>2, <1>3, <1>4, <1>5, <1>6, <1>7, <1>8, <1>9

-----------------------------------------------------------------------------
\* userinit() establishes the invariant.
LEMMA InitSafe == Init => SafetyInv
<1> SUFFICES ASSUME Init PROVE SafetyInv OBVIOUS
<1> USE NprocAssumption, NcpuAssumption
    DEF Init, SafetyInv, CpuInv, ForkInv, Procs, Cpus, None, initproc
<1>1. TypeOK BY DEF TypeOK, States, Labels, InLock, Modes, Memory
<1>2. LockHandOver /\ RunsOnOneCpu BY DEF LockHandOver, InSection, RunsOnOneCpu
<1>3. CpuInv
  BY DEF CpuRuns, SchedState, ResumesAt, Resumable, RunningLabel, RetLabel
<1>4. ForkInv
  BY DEF NpInFork, NpEmbryo, NpOwn, MemOwned, Live, Where, ForkLabels
<1> QED BY <1>1, <1>2, <1>3, <1>4

\* Every step of every CPU preserves it.
LEMMA NextSafe == SafetyInv /\ [Next]_vars => SafetyInv'
<1> SUFFICES ASSUME SafetyInv, [Next]_vars PROVE SafetyInv' OBVIOUS
<1>1. CASE UNCHANGED vars
  <2> USE <1>1 DEF vars, slotVars, cpuVars, SafetyInv
  <2>1. TypeOK' BY DEF TypeOK
  <2>2. LockHandOver' BY ZenonT(30) DEF LockHandOver, InSection
  <2>3. RunsOnOneCpu' BY ZenonT(30) DEF RunsOnOneCpu
  <2>4. CpuInv' BY ZenonT(30) DEF CpuInv, CpuRuns, SchedState, ResumesAt, RunningLabel, RetLabel
  <2>5. ForkInv' BY DEF ForkInv, NpInFork, NpEmbryo, NpOwn, MemOwned, Where
  <2> QED BY <2>1, <2>2, <2>3, <2>4, <2>5
<1>2. ASSUME NEW c \in Cpus, SchedulerStep(c) PROVE SafetyInv'
  BY <1>2, SchedulerAcquireSafe, SchedulerSwitchSafe, SchedulerReleaseSafe, SchedSafe
     DEF SchedulerStep
<1>3. ASSUME NEW c \in Cpus, NEW p \in Procs, TrapStep(c, p) PROVE SafetyInv'
  BY <1>3, TrapMovesSafe, YieldSafe, YieldReturnSafe, ForkRetSafe DEF TrapStep
<1>4. ASSUME NEW c \in Cpus, NEW p \in Procs, ProcStep(c, p) PROVE SafetyInv'
  BY <1>4, TrapMovesSafe, ForkAllocSafe, ForkKstackSafe, ForkCopySafe, ForkRunSafe, ExitSafe,
     WaitAcquireSafe, WaitReapSafe, WaitFailSafe, WaitSleepSafe, WaitWokenSafe,
     SleepSafe, SleepReturnSafe, KillSafe DEF ProcStep
<1>5. ASSUME NEW ch \in IoChans, Wakeup(ch) PROVE SafetyInv'
  BY <1>5, WakeupSafe
<1> QED BY <1>1, <1>2, <1>3, <1>4, <1>5 DEF Next

\* The invariant holds in every reachable state.
THEOREM Safety == Spec => []SafetyInv
BY InitSafe, NextSafe, PTL DEF Spec

\* The variables keep their types.
THEOREM TypeCorrect == Spec => []TypeOK
BY Safety, PTL DEF SafetyInv

\* ptable.lock is held by exactly the CPU that is inside a section of it, on
\* whichever side of swtch(): mutual exclusion, and no panic of release() or sched().
THEOREM LockHandOverCorrect == Spec => []LockHandOver
BY Safety, PTL DEF SafetyInv

\* RUNNING means executed by some CPU, and no process is executed by two.
THEOREM OneCpuPerProcess == Spec => []RunsOnOneCpu
BY Safety, PTL DEF SafetyInv

\* No CPU ever runs on a kernel stack or page table that wait() or fork() freed.
THEOREM MemoryInUseCorrect == Spec => []MemoryInUse
<1>1. SafetyInv => MemoryInUse
  BY DEF SafetyInv, CpuInv, ForkInv, TypeOK, MemoryInUse, CpuRuns, SchedState, RunsOnOneCpu,
     MemOwned, Live, None
<1> QED BY <1>1, Safety, PTL

\* exit() never comes back from sched().
THEOREM NoZombieRunsCorrect == Spec => []NoZombieRuns
<1>1. SafetyInv => NoZombieRuns
  BY DEF SafetyInv, CpuInv, TypeOK, NoZombieRuns, CpuRuns, RunsOnOneCpu, RunningLabel, None
<1> QED BY <1>1, Safety, PTL

=============================================================================
