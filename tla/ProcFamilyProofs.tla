-------------------------- MODULE ProcFamilyProofs --------------------------
(***************************************************************************)
(* Proofs about parents and children, on top of SafetyInv: orphans always  *)
(* have a parent that can wait for them, and wait() misses no exit.  Then  *)
(* about slots: their pids, their memory and the forks that set them up.   *)
(***************************************************************************)
EXTENDS ProcProofs

-----------------------------------------------------------------------------
\* No slot is the null pointer.
LEMMA ProcNotNone == \A q \in Procs : q # None
BY DEF Procs, None

\* A step that leaves parents and forks alone, lets processes move only between
\* the live states, and puts nobody to sleep in wait() without reason.
LEMMA QuietFamily ==
  ASSUME SafetyInv, FamilyInv,
         UNCHANGED <<parent, np>>,
         \A q \in Procs : state'[q] = state[q] \/ {state[q], state'[q]} \subseteq Live,
         \A q \in Procs : np[q] # None => Where(q)' = Where(q),
         \A q \in Procs : state'[q] = "SLEEPING" /\ chan'[q] = q =>
           Children(q) # {} /\ Children(q) \cap Having("ZOMBIE") = {} /\ ~killed'[q]
  PROVE  FamilyInv'
<1> USE NprocAssumption DEF SafetyInv, FamilyInv, TypeOK, Live
<1>1. ParentCanWait' BY DEF ParentCanWait, None
<1>2. \A q \in Procs : Children(q)' = Children(q) BY DEF Children
<1>3. Having("ZOMBIE")' = Having("ZOMBIE") BY DEF Having
<1>4. WaitNeverMissed' BY <1>2, <1>3 DEF WaitNeverMissed
<1>5. initproc \in Procs BY DEF Procs, initproc
<1>6. InitLives' /\ NotOwnChild' BY <1>5 DEF InitLives, NotOwnChild
<1>7. UnusedAlone' BY DEF UnusedAlone
<1>8. EmbryoOf'
  <2> SUFFICES ASSUME NEW q \in Procs, state'[q] = "EMBRYO", parent[q] # None
               PROVE  np[parent[q]] = q /\ Where(parent[q])' = "fork_run"
    BY DEF EmbryoOf
  <2>1. PICK r \in Procs : r = parent[q] /\ state[q] = "EMBRYO" OBVIOUS
  <2>2. np[r] = q /\ Where(r) = "fork_run" BY <2>1 DEF EmbryoOf
  <2>3. Where(r)' = "fork_run" BY <2>2, ProcNotNone
  <2> QED BY <2>1, <2>2, <2>3 DEF Where
<1>9. ForkRunOf' BY DEF ForkRunOf
<1> QED BY <1>1, <1>4, <1>6, <1>7, <1>8, <1>9

\* The steps of the scheduler, of trap(), and the non-forking ones of a process.
LEMMA QuietSteps ==
  ASSUME SafetyInv, FamilyInv, NEW c \in Cpus, NEW p \in Procs,
         \/ SchedulerStep(c) \/ TrapStep(c, p)
         \/ ExitCall(c, p) \/ WaitAcquire(c, p) \/ WaitFail(c, p)
         \/ WaitSleep(c, p) \/ WaitWoken(c, p)
         \/ \E ch \in IoChans, l \in {"sys", "blk", "exit"} : Sleep(c, p, ch, l)
         \/ SleepReturn(c, p)
         \/ \E l \in {"sys", "blk"} : SyscallDone(c, p, l)
  PROVE  FamilyInv'
<1> USE DEF At, Goto, GoBack, slotVars, cpuVars, Acquire, Release, IsFirst, Having
<1>0. /\ ForkInv /\ CpuInv /\ TypeOK /\ RunsOnOneCpu /\ WaitNeverMissed
      /\ \A q \in Procs : np[q] # None => Where(q) \in ForkLabels
      /\ mode[c] = "run" /\ proc[c] = p => state[p] = "RUNNING"
  BY DEF SafetyInv, FamilyInv, RunsOnOneCpu, ForkInv, NpInFork
<1>1. CASE SchedulerStep(c)
  <2>1. \A q \in Procs : Where(q)' = Where(q)
    BY <1>1 DEF SchedulerStep, SchedulerAcquire, SchedulerSwitch, SchedulerRelease, Sched, Where
  <2>2. \A q \in Procs : state'[q] = state[q] \/ {state[q], state'[q]} \subseteq Live
    BY <1>0, <1>1 DEF SchedulerStep, SchedulerAcquire, SchedulerSwitch, SchedulerRelease, Sched,
       TypeOK, Live
  <2>3. \A q \in Procs : state'[q] = "SLEEPING" => state[q] = "SLEEPING"
    BY <1>0, <1>1 DEF SchedulerStep, SchedulerAcquire, SchedulerSwitch, SchedulerRelease, Sched, TypeOK
  <2>4. UNCHANGED <<parent, np, chan, killed>>
    BY <1>1 DEF SchedulerStep, SchedulerAcquire, SchedulerSwitch, SchedulerRelease, Sched
  <2> QED BY <1>0, <2>1, <2>2, <2>3, <2>4, QuietFamily DEF WaitNeverMissed
<1>2. CASE TrapStep(c, p)
  <2>1. UNCHANGED <<parent, np, chan>>
    BY <1>2 DEF TrapStep, Syscall, ReturnToUser, Fault, TimerUser, TickCheck, TimerKernel,
       Yield, YieldReturn, ForkRet
  <2>2. \A q \in Procs : np[q] # None => Where(q)' = Where(q)
    <3> USE <1>0 DEF Where, ForkLabels, TypeOK
    <3>1. CASE \/ Syscall(c, p) \/ ReturnToUser(c, p) \/ Fault(c, p) \/ TimerUser(c, p)
               \/ TickCheck(c, p) \/ ForkRet(c, p)
      BY <3>1 DEF Syscall, ReturnToUser, Fault, TimerUser, TickCheck, ForkRet
    <3>2. CASE \E l \in Preemptible : TimerKernel(c, p, l) BY <3>2 DEF TimerKernel, Preemptible
    <3>3. CASE Yield(c, p) BY <3>3 DEF Yield
    <3>4. CASE YieldReturn(c, p) BY <3>4 DEF YieldReturn, CpuInv, RetLabel, Preemptible
    <3> QED BY <1>2, <3>1, <3>2, <3>3, <3>4, Zenon DEF TrapStep
  <2>3. \A q \in Procs : /\ state'[q] = state[q] \/ {state[q], state'[q]} \subseteq Live
                         /\ state'[q] = "SLEEPING" => state[q] = "SLEEPING"
    BY <1>0, <1>2, ZenonT(30) DEF TrapStep, Syscall, ReturnToUser, Fault, TimerUser, TickCheck, TimerKernel,
       Yield, YieldReturn, ForkRet, TypeOK, Live
  <2>4. \A q \in Procs : state[q] = "SLEEPING" => killed'[q] = killed[q]
    BY <1>0, <1>2, Zenon DEF TrapStep, Syscall, ReturnToUser, Fault, TimerUser, TickCheck, TimerKernel,
       Yield, YieldReturn, ForkRet, TypeOK
  <2> QED BY <1>0, <2>1, <2>2, <2>3, <2>4, QuietFamily DEF WaitNeverMissed
<1>3. CASE \/ ExitCall(c, p) \/ WaitAcquire(c, p) \/ WaitFail(c, p) \/ WaitWoken(c, p)
           \/ SleepReturn(c, p) \/ \E l \in {"sys", "blk"} : SyscallDone(c, p, l)
  <2>1. UNCHANGED <<state, parent, np, killed>>
    BY <1>3, ZenonT(30) DEF ExitCall, WaitAcquire, WaitFail, WaitWoken, SleepReturn, SyscallDone
  <2>2. \A q \in Procs \ {p} : Where(q)' = Where(q) /\ chan'[q] = chan[q]
    BY <1>0, <1>3 DEF ExitCall, WaitAcquire, WaitFail, WaitWoken, SleepReturn, SyscallDone, Where, TypeOK
  <2>3. Where(p)' = Where(p) \/ Where(p) \notin ForkLabels
    BY <1>0, <1>3 DEF ExitCall, WaitAcquire, WaitFail, WaitWoken, SleepReturn, SyscallDone, Where,
       TypeOK, ForkLabels, CpuInv, RetLabel, Preemptible
  <2>4. state[p] = "RUNNING"
    BY <1>0, <1>3, ZenonT(30) DEF ExitCall, WaitAcquire, WaitFail, WaitWoken, SleepReturn, SyscallDone
  <2> QED BY <1>0, <2>1, <2>2, <2>3, <2>4, QuietFamily, ZenonT(30) DEF WaitNeverMissed
<1>4. CASE WaitSleep(c, p) \/ \E ch \in IoChans, l \in {"sys", "blk", "exit"} : Sleep(c, p, ch, l)
  <2>1. UNCHANGED <<parent, np, killed>> BY <1>4, ZenonT(30) DEF WaitSleep, Sleep
  <2>2. \A q \in Procs \ {p} : Where(q)' = Where(q) /\ chan'[q] = chan[q] /\ state'[q] = state[q]
    BY <1>0, <1>4 DEF WaitSleep, Sleep, Where, TypeOK
  <2>3. state[p] = "RUNNING" /\ state'[p] = "SLEEPING" /\ Where(p) \notin ForkLabels
    BY <1>0, <1>4 DEF WaitSleep, Sleep, Where, TypeOK, ForkLabels
  <2>4. chan'[p] = p => Children(p) # {} /\ Children(p) \cap Having("ZOMBIE") = {} /\ ~killed[p]
    BY <1>0, <1>4, ChansAssumption DEF WaitSleep, Sleep, TypeOK
  <2> QED BY <1>0, <2>1, <2>2, <2>3, <2>4, QuietFamily, ZenonT(30) DEF WaitNeverMissed, Live
<1> QED BY <1>1, <1>2, <1>3, <1>4

\* wakeup() and kill() only make processes runnable.
LEMMA WakingSteps ==
  ASSUME SafetyInv, FamilyInv,
         \/ \E ch \in IoChans : Wakeup(ch)
         \/ \E c \in Cpus, p \in Procs, n \in KillPids : Kill(c, p, n)
  PROVE  FamilyInv'
<1>0. /\ TypeOK /\ WaitNeverMissed
      /\ \A q \in Procs : np[q] # None => Where(q) \in ForkLabels
  BY DEF SafetyInv, FamilyInv, ForkInv, NpInFork
<1>1. ASSUME NEW ch \in IoChans, Wakeup(ch) PROVE FamilyInv'
  <2>1. UNCHANGED <<parent, np, chan, killed>> /\ \A q \in Procs : Where(q)' = Where(q)
    BY <1>1 DEF Wakeup, Where
  <2>2. \A q \in Procs : /\ state'[q] = state[q] \/ {state[q], state'[q]} \subseteq Live
                         /\ state'[q] = "SLEEPING" => state[q] = "SLEEPING"
    BY <1>0, <1>1 DEF Wakeup, Woken, Live
  <2> QED BY <1>0, <2>1, <2>2, QuietFamily DEF WaitNeverMissed
<1>2. ASSUME NEW c \in Cpus, NEW p \in Procs, NEW n \in KillPids, Kill(c, p, n) PROVE FamilyInv'
  <2>1. UNCHANGED <<parent, np, chan>> BY <1>2 DEF Kill
  <2>2. \A q \in Procs : np[q] # None => Where(q)' = Where(q)
    BY <1>0, <1>2 DEF Kill, Where, At, Goto, ForkLabels, TypeOK
  <2>3. \A q \in Procs : /\ state'[q] = state[q] \/ {state[q], state'[q]} \subseteq Live
                         /\ state'[q] = "SLEEPING" => state[q] = "SLEEPING" /\ killed'[q] = killed[q]
    BY <1>0, <1>2 DEF Kill, Roused, IsFirst, TypeOK, Live
  <2> QED BY <1>0, <2>1, <2>2, <2>3, QuietFamily DEF WaitNeverMissed
<1> QED BY <1>1, <1>2

-----------------------------------------------------------------------------
\* allocproc(): an unused slot becomes an embryo, which has no parent yet.
LEMMA ForkAllocFamily ==
  ASSUME SafetyInv, FamilyInv, NEW c \in Cpus, NEW p \in Procs, ForkAlloc(c, p)
  PROVE  FamilyInv'
<1> USE DEF SafetyInv, FamilyInv, TypeOK, ForkAlloc, At, Goto, InOneGo
<1>0. state[p] = "RUNNING" /\ np[p] = None BY DEF RunsOnOneCpu, ForkInv, NpInFork, Where, ForkLabels
<1>1. CASE Having("UNUSED") = {}
  <2>1. UNCHANGED <<state, parent, np, chan, killed>>
    BY <1>1 DEF IsFirst
  <2>2. \A q \in Procs : np[q] # None => Where(q)' = Where(q)
    BY <1>0, <1>1 DEF IsFirst, Where
  <2> QED BY <2>1, <2>2, QuietFamily DEF WaitNeverMissed
<1>2. CASE Having("UNUSED") # {}
  <2>1. PICK q \in Procs : /\ state[q] = "UNUSED"
                           /\ state' = [state EXCEPT ![q] = "EMBRYO"]
                           /\ np' = [np EXCEPT ![p] = q]
                           /\ pc' = [pc EXCEPT ![p] = "fork_kstack"]
    BY <1>2 DEF IsFirst, Having
  <2>2. UNCHANGED <<parent, chan, killed, ret>> OBVIOUS
  <2>3. \A r \in Procs : r # p => Where(r)' = Where(r) BY <2>1, <2>2 DEF Where
  <2>4. Where(p)' = "fork_kstack" BY <2>1 DEF Where
  <2>5. ParentCanWait' BY <2>1, <2>2 DEF ParentCanWait, None
  <2>6. WaitNeverMissed' BY <2>1, <2>2 DEF WaitNeverMissed, Children, Having
  <2>7. InitLives' /\ NotOwnChild' /\ UnusedAlone'
    BY <2>1, <2>2, NprocAssumption DEF InitLives, NotOwnChild, UnusedAlone, Live, Procs, initproc
  <2>8. EmbryoOf'
    <3> SUFFICES ASSUME NEW r \in Procs, state'[r] = "EMBRYO", parent[r] # None
                 PROVE  np'[parent[r]] = r /\ Where(parent[r])' = "fork_run"
      BY <2>2 DEF EmbryoOf
    <3>1. r # q /\ state[r] = "EMBRYO" BY <2>1 DEF UnusedAlone
    <3>2. np[parent[r]] = r /\ Where(parent[r]) = "fork_run" /\ parent[r] \in Procs
      BY <3>1 DEF EmbryoOf
    <3>3. parent[r] # p BY <1>0, <3>2 DEF Procs, None
    <3> QED BY <2>1, <2>3, <3>2, <3>3
  <2>9. ForkRunOf' BY <2>1, <2>2, <2>3, <2>4 DEF ForkRunOf
  <2> QED BY <2>5, <2>6, <2>7, <2>8, <2>9
<1> QED BY <1>1, <1>2

\* The rest of fork(): the embryo gets memory and its parent and becomes
\* runnable, or the slot is given back while it still has no parent.
LEMMA ForkFamily ==
  ASSUME SafetyInv, FamilyInv, NEW c \in Cpus, NEW p \in Procs,
         ForkKstack(c, p) \/ ForkCopy(c, p) \/ ForkRun(c, p)
  PROVE  FamilyInv'
<1> USE DEF SafetyInv, FamilyInv, TypeOK, At, Goto
<1> DEFINE q == np[p]
<1>0. /\ state[p] = "RUNNING" /\ q \in Procs /\ q # p /\ state[q] = "EMBRYO" /\ q # None
      /\ pc[p] \in ForkLabels /\ Where(p) = pc[p]
      /\ \A r \in Procs : r # p => np[r] # q
  <2>1. state[p] = "RUNNING" /\ pc[p] \in ForkLabels
    BY DEF RunsOnOneCpu, ForkKstack, ForkCopy, ForkRun, ForkLabels
  <2>2. Where(p) = pc[p] BY <2>1 DEF Where, ForkLabels
  <2>3. q # None BY <2>1, <2>2 DEF ForkInv, NpInFork, Live
  <2> QED BY <2>1, <2>2, <2>3 DEF ForkInv, NpEmbryo, NpOwn
<1>1. \A r \in Procs : r # p => Where(r)' = Where(r) \/ np[r] = None
  <2>1. \A r \in Procs : r # p /\ r # q => pc'[r] = pc[r] /\ ret'[r] = ret[r]
    BY <1>0 DEF ForkKstack, ForkCopy, ForkRun, ForkFail
  <2>2. np[q] = None BY <1>0 DEF ForkInv, NpInFork, Live
  <2> QED BY <2>1, <2>2 DEF Where
<1>2. UNCHANGED <<chan, killed>> BY DEF ForkKstack, ForkCopy, ForkRun
<1>3. \A r \in Procs : r # q => state'[r] = state[r]
  BY <1>0 DEF ForkKstack, ForkCopy, ForkRun, ForkFail
<1>4. pc[p] # "fork_run" => parent[q] = None
  BY <1>0 DEF EmbryoOf
<1>5. pc[p] = "fork_run" => parent[q] = p
  BY <1>0 DEF ForkRunOf
<1>6. state[initproc] \in Live /\ initproc # q /\ initproc \in Procs
  BY <1>0, NprocAssumption DEF InitLives, Live, Procs, initproc
<1>7. \A r \in Procs : state[r] = "SLEEPING" /\ chan[r] = r => r # p /\ r # q
  BY <1>0
<1>8. CASE /\ state' = state /\ parent' = parent /\ np' = np
           /\ pc[p] = "fork_kstack" /\ Where(p)' = "fork_copy"
  <2>1. \A r \in Procs : np[r] # None /\ Where(r)' = "fork_run" => Where(r) = "fork_run"
    BY <1>1, <1>8
  <2>2. EmbryoOf'
    <3> SUFFICES ASSUME NEW r \in Procs, state[r] = "EMBRYO", parent[r] # None
                 PROVE  np[parent[r]] = r /\ Where(parent[r])' = "fork_run"
      BY <1>8 DEF EmbryoOf
    <3>1. PICK x \in Procs : x = parent[r] /\ np[x] = r /\ Where(x) = "fork_run"
      BY DEF EmbryoOf
    <3>2. Where(x)' = "fork_run" BY <1>0, <1>1, <1>8, <3>1, ProcNotNone
    <3> QED BY <1>8, <3>1, <3>2 DEF Where
  <2>3. ForkRunOf' BY <1>8, <2>1 DEF ForkRunOf
  <2>4. ParentCanWait' /\ InitLives' /\ NotOwnChild' /\ UnusedAlone'
    BY <1>8 DEF ParentCanWait, InitLives, NotOwnChild, UnusedAlone
  <2>5. WaitNeverMissed' BY <1>8, <1>2 DEF WaitNeverMissed, Children, Having
  <2> QED BY <2>2, <2>3, <2>4, <2>5
<1>9. CASE /\ state' = state /\ parent' = [parent EXCEPT ![q] = p] /\ np' = np
           /\ pc[p] = "fork_copy" /\ Where(p)' = "fork_run"
  <2>1. ParentCanWait' BY <1>0, <1>9 DEF ParentCanWait
  <2>2. InitLives' /\ NotOwnChild' /\ UnusedAlone'
    BY <1>0, <1>6, <1>9 DEF InitLives, NotOwnChild, UnusedAlone
  <2>3. \A r \in Procs \ {p} : Children(r)' = Children(r)
    BY <1>0, <1>4, <1>9 DEF Children, Procs, None
  <2>4. WaitNeverMissed'
    BY <1>2, <1>7, <1>9, <2>3 DEF WaitNeverMissed, Having
  <2>5. EmbryoOf'
    <3> SUFFICES ASSUME NEW r \in Procs, state[r] = "EMBRYO", parent'[r] # None
                 PROVE  np[parent'[r]] = r /\ Where(parent[r])' = "fork_run"
      BY <1>9 DEF EmbryoOf
    <3>1. CASE r = q
      <4>1. parent'[r] = p BY <1>0, <1>9, <3>1
      <4> QED BY <1>9, <3>1, <4>1 DEF Where
    <3>2. CASE r # q
      <4>1. PICK x \in Procs : x = parent[r] /\ x = parent'[r] BY <1>9, <3>2
      <4>2. np[x] = r /\ Where(x) = "fork_run" BY <4>1, ProcNotNone, ZenonT(30) DEF EmbryoOf
      <4>3. Where(x)' = "fork_run" BY <1>0, <1>1, <1>9, <4>2, ProcNotNone
      <4> QED BY <4>1, <4>2, <4>3 DEF Where
    <3> QED BY <3>1, <3>2
  <2>6. ForkRunOf' BY <1>0, <1>1, <1>9 DEF ForkRunOf
  <2> QED BY <2>1, <2>2, <2>4, <2>5, <2>6
<1>10. CASE /\ \/ state' = [state EXCEPT ![q] = "UNUSED"] /\ pc[p] # "fork_run"
               \/ state' = [state EXCEPT ![q] = "RUNNABLE"] /\ pc[p] = "fork_run"
            /\ np' = [np EXCEPT ![p] = None] /\ parent' = parent
  <2>2. ParentCanWait'
    <3> SUFFICES ASSUME NEW r \in Procs \ {initproc}, state'[r] \notin {"UNUSED", "EMBRYO"}
                 PROVE  parent[r] # None /\ state'[parent[r]] \in {"SLEEPING", "RUNNABLE", "RUNNING"}
      BY <1>10 DEF ParentCanWait
    <3>1. CASE r = q
      <4>1. parent[q] = p BY <1>0, <1>5, <1>10, <3>1
      <4> QED BY <1>0, <1>3, <3>1, <4>1, ProcNotNone
    <3>2. CASE r # q
      <4>1. /\ parent[r] # None /\ parent[r] # q /\ parent[r] \in Procs
            /\ state[parent[r]] \in {"SLEEPING", "RUNNABLE", "RUNNING"}
        BY <1>0, <1>3, <3>2 DEF ParentCanWait
      <4> QED BY <1>3, <4>1
    <3> QED BY <3>1, <3>2
  <2>3. InitLives' /\ NotOwnChild' BY <1>3, <1>6, <1>10 DEF InitLives, NotOwnChild
  <2>4. UnusedAlone' BY <1>0, <1>4, <1>10 DEF UnusedAlone
  <2>5. WaitNeverMissed'
    <3>1. \A r \in Procs : Children(r)' = Children(r) BY <1>10 DEF Children
    <3>2. Having("ZOMBIE")' = Having("ZOMBIE") BY <1>0, <1>10 DEF Having
    <3>3. \A r \in Procs : state'[r] = "SLEEPING" => state[r] = "SLEEPING" BY <1>0, <1>10
    <3> QED BY <1>2, <3>1, <3>2, <3>3 DEF WaitNeverMissed
  <2>6. EmbryoOf'
    <3> SUFFICES ASSUME NEW r \in Procs, state'[r] = "EMBRYO", parent[r] # None
                 PROVE  np'[parent[r]] = r /\ Where(parent[r])' = "fork_run"
      BY <1>10 DEF EmbryoOf
    <3>1. r # q /\ state[r] = "EMBRYO" BY <1>0, <1>10
    <3>2. PICK x \in Procs : x = parent[r] /\ np[x] = r /\ Where(x) = "fork_run"
      BY <3>1 DEF EmbryoOf
    <3>3. x # p BY <3>1, <3>2
    <3>4. Where(x)' = "fork_run" BY <1>1, <3>2, <3>3, ProcNotNone
    <3> QED BY <1>10, <3>2, <3>3, <3>4 DEF Where
  <2>7. ForkRunOf' BY <1>0, <1>1, <1>10 DEF ForkRunOf
  <2> QED BY <2>2, <2>3, <2>4, <2>5, <2>6, <2>7
<1> QED BY <1>0, <1>8, <1>9, <1>10 DEF ForkKstack, ForkCopy, ForkRun, ForkFail, Where

\* exit(): the parent is woken, the children go to init, which is woken if one
\* of them is a zombie already.
LEMMA ExitFamily ==
  ASSUME SafetyInv, FamilyInv, NEW c \in Cpus, NEW p \in Procs, Exit(c, p)
  PROVE  FamilyInv'
<1> USE DEF SafetyInv, FamilyInv, TypeOK
<1>1. state[p] = "RUNNING" /\ p # initproc /\ np[p] = None
  BY DEF Exit, At, RunsOnOneCpu, ForkInv, NpInFork, Where, ForkLabels
<1>2. /\ state'[p] = "ZOMBIE"
      /\ \A q \in Procs : q # p =>
           state'[q] = state[q] \/ (state[q] = "SLEEPING" /\ state'[q] = "RUNNABLE")
      /\ \A q \in Procs : parent'[q] = IF parent[q] = p THEN initproc ELSE parent[q]
      /\ UNCHANGED <<np, chan, killed, ret>>
  <2> DEFINE orphans == Children(p) \cap Having("ZOMBIE")
             chans == {parent[p]} \cup (IF orphans = {} THEN {} ELSE {initproc})
  <2>1. state' = [Woken(chans) EXCEPT ![p] = "ZOMBIE"] BY DEF Exit
  <2>2. UNCHANGED <<np, chan, killed, ret>> BY DEF Exit
  <2>3. \A q \in Procs : parent'[q] = IF parent[q] = p THEN initproc ELSE parent[q] BY DEF Exit, Adopted
  <2> HIDE DEF chans
  <2>4. state'[p] = "ZOMBIE" BY <2>1 DEF Woken
  <2>5. ASSUME NEW q \in Procs, q # p
        PROVE  state'[q] = state[q] \/ (state[q] = "SLEEPING" /\ state'[q] = "RUNNABLE")
    BY <2>1, <2>5 DEF Woken
  <2> QED BY <2>2, <2>3, <2>4, <2>5
<1>3. \A q \in Procs : q # p => Where(q)' = Where(q) BY <1>2 DEF Exit, Goto, Where
<1>4. initproc \in Procs BY NprocAssumption DEF Procs, initproc
<1>5. InitLives' /\ NotOwnChild'
  BY <1>1, <1>2, <1>4, ProcNotNone DEF InitLives, NotOwnChild, Live
<1>6. ParentCanWait'
  <2> SUFFICES ASSUME NEW q \in Procs \ {initproc}, state'[q] \notin {"UNUSED", "EMBRYO"}
               PROVE  parent'[q] # None /\ state'[parent'[q]] \in {"SLEEPING", "RUNNABLE", "RUNNING"}
    BY DEF ParentCanWait
  <2>0. state[q] \notin {"UNUSED", "EMBRYO"} BY <1>1, <1>2
  <2>1. /\ parent[q] # None /\ parent[q] \in Procs
        /\ state[parent[q]] \in {"SLEEPING", "RUNNABLE", "RUNNING"}
    BY <2>0 DEF ParentCanWait
  <2>2. CASE parent[q] = p BY <1>2, <1>4, <1>5, <2>2, ProcNotNone DEF InitLives, Live
  <2>3. CASE parent[q] # p BY <1>2, <2>1, <2>3
  <2> QED BY <2>2, <2>3, ZenonT(30)
<1>7. UnusedAlone' BY <1>2, ProcNotNone DEF UnusedAlone
<1>8. EmbryoOf'
  <2> SUFFICES ASSUME NEW q \in Procs, state'[q] = "EMBRYO", parent'[q] # None
               PROVE  np'[parent'[q]] = q /\ Where(parent[q])' = "fork_run"
    BY ZenonT(30) DEF EmbryoOf
  <2>0. state[q] = "EMBRYO" /\ parent[q] \in Procs BY <1>1, <1>2, ProcNotNone
  <2>1. PICK x \in Procs : x = parent[q] /\ np[x] = q /\ Where(x) = "fork_run"
    BY <2>0, ProcNotNone, ZenonT(30) DEF EmbryoOf
  <2>2. x # p BY <1>1, <2>1, ProcNotNone
  <2>3. parent'[q] = x BY <1>2, <2>1, <2>2
  <2>4. Where(x)' = "fork_run" BY <1>3, <2>1, <2>2
  <2> QED BY <1>2, <2>1, <2>3, <2>4 DEF Where
<1>9. ForkRunOf'
  <2> SUFFICES ASSUME NEW q \in Procs, np[q] # None, Where(q)' = "fork_run"
               PROVE  parent'[np[q]] = q
    BY <1>2 DEF ForkRunOf
  <2>1. q # p /\ Where(q) = "fork_run" BY <1>1, <1>3
  <2>2. parent[np[q]] = q /\ np[q] \in Procs BY <2>1 DEF ForkRunOf
  <2> QED BY <1>2, <2>1, <2>2
<1>10. WaitNeverMissed'
  <2> SUFFICES ASSUME NEW q \in Procs, state'[q] = "SLEEPING", chan[q] = q
               PROVE  Children(q)' # {} /\ (Children(q) \cap Having("ZOMBIE"))' = {} /\ ~killed[q]
    BY <1>2 DEF WaitNeverMissed
  <2>1. q # p /\ state[q] = "SLEEPING" BY <1>2
  <2>2. Children(q) # {} /\ Children(q) \cap Having("ZOMBIE") = {} /\ ~killed[q]
    BY <2>1 DEF WaitNeverMissed
  <2>3. /\ q # parent[p]
        /\ q = initproc => Children(p) \cap Having("ZOMBIE") = {}
    BY <2>1 DEF Exit, Woken
  <2>4. Children(q) \subseteq Children(q)' BY <1>2, <2>1, ZenonT(30) DEF Children
  <2>5. ASSUME NEW r \in Procs, parent'[r] = q PROVE state'[r] # "ZOMBIE"
    <3>1. parent[r] = q \/ (q = initproc /\ parent[r] = p) BY <1>2, <2>5
    <3>2. state[r] # "ZOMBIE" BY <2>2, <2>3, <3>1 DEF Children, Having
    <3>3. r # p BY <2>3, <3>1 DEF NotOwnChild
    <3> QED BY <1>2, <3>2, <3>3
  <2> QED BY <2>2, <2>4, <2>5 DEF Children, Having
<1> QED BY <1>5, <1>6, <1>7, <1>8, <1>9, <1>10

\* wait() frees a zombie, who is nobody's parent any more.
LEMMA WaitReapFamily ==
  ASSUME SafetyInv, FamilyInv, NEW c \in Cpus, NEW p \in Procs, WaitReap(c, p)
  PROVE  FamilyInv'
<1> USE DEF SafetyInv, FamilyInv, TypeOK
<1>1. PICK q \in Procs : /\ parent[q] = p /\ state[q] = "ZOMBIE"
                         /\ parent' = [parent EXCEPT ![q] = None]
                         /\ killed' = [killed EXCEPT ![q] = FALSE]
                         /\ state'  = [state EXCEPT ![q] = "UNUSED"]
  BY Zenon DEF WaitReap, IsFirst, Children, Having
<1>2. /\ state[p] = "RUNNING" /\ p # q /\ np[p] = None
      /\ UNCHANGED <<np, chan, ret>> /\ pc' = [pc EXCEPT ![p] = "uret"]
  BY <1>1 DEF WaitReap, At, Goto, RunsOnOneCpu, ForkInv, NpInFork, Where, ForkLabels
<1>3. \A r \in Procs : r # p => Where(r)' = Where(r) BY <1>2 DEF Where
<1>4. InitLives' /\ NotOwnChild'
  BY <1>1, NprocAssumption, ProcNotNone DEF InitLives, NotOwnChild, Live, Procs, initproc
<1>5. ParentCanWait'
  <2> SUFFICES ASSUME NEW r \in Procs \ {initproc}, state'[r] \notin {"UNUSED", "EMBRYO"}
               PROVE  parent'[r] # None /\ state'[parent'[r]] \in {"SLEEPING", "RUNNABLE", "RUNNING"}
    BY DEF ParentCanWait
  <2>1. r # q /\ parent'[r] = parent[r] /\ state'[r] = state[r] BY <1>1
  <2>2. /\ parent[r] # None /\ parent[r] \in Procs
        /\ state[parent[r]] \in {"SLEEPING", "RUNNABLE", "RUNNING"}
    BY <2>1 DEF ParentCanWait
  <2> QED BY <1>1, <2>1, <2>2
<1>6. UnusedAlone' BY <1>1 DEF UnusedAlone
<1>7. EmbryoOf'
  <2> SUFFICES ASSUME NEW r \in Procs, state'[r] = "EMBRYO", parent'[r] # None
               PROVE  np'[parent'[r]] = r /\ Where(parent[r])' = "fork_run"
    BY DEF EmbryoOf
  <2>1. r # q /\ parent'[r] = parent[r] /\ state[r] = "EMBRYO" BY <1>1
  <2>2. PICK x \in Procs : x = parent[r] /\ np[x] = r /\ Where(x) = "fork_run"
    BY <2>1 DEF EmbryoOf
  <2>3. Where(x)' = "fork_run" BY <1>2, <1>3, <2>2, ProcNotNone
  <2> QED BY <1>2, <2>1, <2>2, <2>3 DEF Where
<1>8. ForkRunOf'
  <2> SUFFICES ASSUME NEW r \in Procs, np[r] # None, Where(r)' = "fork_run"
               PROVE  parent'[np[r]] = r
    BY <1>2 DEF ForkRunOf
  <2>1. Where(r) = "fork_run" /\ parent[np[r]] = r /\ state[np[r]] = "EMBRYO" /\ np[r] \in Procs
    BY <1>2, <1>3 DEF ForkRunOf, ForkInv, NpEmbryo
  <2> QED BY <1>1, <2>1
<1>9. WaitNeverMissed'
  <2> SUFFICES ASSUME NEW r \in Procs, state'[r] = "SLEEPING", chan[r] = r
               PROVE  Children(r)' # {} /\ (Children(r) \cap Having("ZOMBIE"))' = {} /\ ~killed'[r]
    BY <1>2, ZenonT(30) DEF WaitNeverMissed
  <2>1. r # p /\ r # q /\ state[r] = "SLEEPING" /\ killed'[r] = killed[r] BY <1>1, <1>2, Zenon
  <2>2. Children(r)' = Children(r) BY <1>1, <2>1, ProcNotNone DEF Children
  <2>3. Having("ZOMBIE")' \subseteq Having("ZOMBIE") BY <1>1 DEF Having
  <2> QED BY <2>1, <2>2, <2>3, ZenonT(30) DEF WaitNeverMissed
<1> QED BY <1>4, <1>5, <1>6, <1>7, <1>8, <1>9

-----------------------------------------------------------------------------
\* userinit() leaves init as the only process.
LEMMA InitFamily == Init => FamilyInv
BY NprocAssumption DEF Init, FamilyInv, ParentCanWait, WaitNeverMissed, InitLives, NotOwnChild,
   UnusedAlone, EmbryoOf, ForkRunOf, Live, Procs, initproc, None

\* Every step keeps the family relations, given SafetyInv.
LEMMA NextFamily == SafetyInv /\ FamilyInv /\ [Next]_vars => FamilyInv'
<1> SUFFICES ASSUME SafetyInv, FamilyInv, [Next]_vars PROVE FamilyInv' OBVIOUS
<1>1. CASE UNCHANGED vars
  <2> USE <1>1 DEF vars, slotVars, FamilyInv
  <2>1. ParentCanWait' BY DEF ParentCanWait
  <2>2. WaitNeverMissed' BY DEF WaitNeverMissed, Children, Having
  <2>3. InitLives' /\ NotOwnChild' /\ UnusedAlone' BY DEF InitLives, NotOwnChild, UnusedAlone
  <2>4. EmbryoOf' /\ ForkRunOf' BY Zenon DEF EmbryoOf, ForkRunOf, Where
  <2> QED BY <2>1, <2>2, <2>3, <2>4
<1>2. ASSUME NEW c \in Cpus, SchedulerStep(c) PROVE FamilyInv'
  <2>1. initproc \in Procs BY NprocAssumption DEF Procs, initproc
  <2> QED BY <1>2, <2>1, QuietSteps
<1>3. ASSUME NEW c \in Cpus, NEW p \in Procs, TrapStep(c, p) PROVE FamilyInv'
  BY <1>3, QuietSteps
<1>4. ASSUME NEW c \in Cpus, NEW p \in Procs, ProcStep(c, p) PROVE FamilyInv'
  <2>1. CASE ForkAlloc(c, p) BY <2>1, ForkAllocFamily
  <2>2. CASE ForkKstack(c, p) \/ ForkCopy(c, p) \/ ForkRun(c, p) BY <2>2, ForkFamily
  <2>3. CASE Exit(c, p) BY <2>3, ExitFamily
  <2>4. CASE WaitReap(c, p) BY <2>4, WaitReapFamily
  <2>5. CASE \E n \in KillPids : Kill(c, p, n) BY <2>5, WakingSteps
  <2> QED BY <1>4, <2>1, <2>2, <2>3, <2>4, <2>5, QuietSteps DEF ProcStep
<1>5. ASSUME NEW ch \in IoChans, Wakeup(ch) PROVE FamilyInv'
  BY <1>5, WakingSteps
<1> QED BY <1>1, <1>2, <1>3, <1>4, <1>5 DEF Next

\* The family relations hold in every reachable state.
THEOREM Family == Spec => []FamilyInv
BY InitFamily, NextFamily, Safety, PTL DEF Spec

\* Whatever the order in which parents and children exit, every process that is
\* or can become a zombie has a live parent to wait for it.
THEOREM ParentCanWaitCorrect == Spec => []ParentCanWait
BY Family, PTL DEF FamilyInv

\* wait() misses neither a child's exit nor a kill(): nobody sleeps in it with a
\* zombie child, without children, or killed.
THEOREM WaitNeverMissedCorrect == Spec => []WaitNeverMissed
BY Family, PTL DEF FamilyInv

-----------------------------------------------------------------------------
(* Slots.                                                                  *)

\* With SafetyInv, inductive: pids are given once, a free slot owns no memory,
\* and an embryo is some fork()'s np.
PidsOwn      == \A p, q \in Procs :
                  state[p] # "UNUSED" /\ state[q] # "UNUSED" /\ pid[p] = pid[q] => p = q
PidsGiven    == \A p \in Procs : pid[p] < nextpid
UnusedBare   == \A p \in Procs : state[p] = "UNUSED" => mem[p] = {}
EmbryoForked == \A q \in Procs : state[q] = "EMBRYO" => \E p \in Procs : np[p] = q
SlotsInv     == PidsOwn /\ PidsGiven /\ UnusedBare /\ EmbryoForked

InUse == Live \cup {"ZOMBIE"}

LEMMA InitSlots == Init => SlotsInv
<1> SUFFICES ASSUME Init PROVE SlotsInv OBVIOUS
<1>1. \A p \in Procs : p # initproc => state[p] = "UNUSED" /\ mem[p] = {} /\ pid[p] = 0 BY DEF Init
<1>2. state[initproc] = "RUNNABLE" /\ pid[initproc] = 1 /\ nextpid = 2
  BY NprocAssumption DEF Init, Procs, initproc
<1> QED BY <1>1, <1>2 DEF SlotsInv, PidsOwn, PidsGiven, UnusedBare, EmbryoForked

\* A step that gives and takes no slot.
LEMMA QuietSlots ==
  ASSUME SlotsInv, UNCHANGED <<pid, nextpid, mem, np>>,
         \A q \in Procs : state'[q] = state[q] \/ {state[q], state'[q]} \subseteq InUse
  PROVE  SlotsInv'
BY DEF SlotsInv, PidsOwn, PidsGiven, UnusedBare, EmbryoForked, InUse, Live

LEMMA QuietSlotSteps ==
  ASSUME SafetyInv, SlotsInv, NEW c \in Cpus, NEW p \in Procs,
         \/ SchedulerStep(c) \/ TrapStep(c, p)
         \/ ExitCall(c, p) \/ WaitAcquire(c, p) \/ WaitFail(c, p)
         \/ WaitSleep(c, p) \/ WaitWoken(c, p)
         \/ \E ch \in IoChans, l \in {"sys", "blk", "exit"} : Sleep(c, p, ch, l)
         \/ SleepReturn(c, p)
         \/ \E l \in {"sys", "blk"} : SyscallDone(c, p, l)
  PROVE  SlotsInv'
<1> USE DEF At, Goto, GoBack, slotVars, cpuVars, Acquire, Release, IsFirst, Having
<1>0. TypeOK /\ (mode[c] = "run" /\ proc[c] = p => state[p] = "RUNNING")
  BY ZenonT(30) DEF SafetyInv, RunsOnOneCpu
<1>1. CASE SchedulerStep(c)
  BY <1>0, <1>1, QuietSlots, ZenonT(30)
  DEF SchedulerStep, SchedulerAcquire, SchedulerSwitch, SchedulerRelease, Sched, TypeOK, InUse, Live
<1>2. CASE TrapStep(c, p)
  <2>1. UNCHANGED <<pid, nextpid, mem, np>>
    BY <1>2, ZenonT(30) DEF TrapStep, Syscall, ReturnToUser, Fault, TimerUser, TickCheck, TimerKernel,
       Yield, YieldReturn, ForkRet
  <2>2. \A q \in Procs : state'[q] = state[q] \/ {state[q], state'[q]} \subseteq InUse
    BY <1>0, <1>2, Zenon DEF TrapStep, Syscall, ReturnToUser, Fault, TimerUser, TickCheck, TimerKernel,
       Yield, YieldReturn, ForkRet, TypeOK, InUse, Live
  <2> QED BY <2>1, <2>2, QuietSlots, ZenonT(30)
<1>3. CASE \/ ExitCall(c, p) \/ WaitAcquire(c, p) \/ WaitFail(c, p) \/ WaitWoken(c, p)
           \/ SleepReturn(c, p) \/ \E l \in {"sys", "blk"} : SyscallDone(c, p, l)
  <2>1. UNCHANGED <<pid, nextpid, mem, np, state>>
    BY <1>3, ZenonT(30) DEF ExitCall, WaitAcquire, WaitFail, WaitWoken, SleepReturn, SyscallDone
  <2> QED BY <2>1, QuietSlots
<1>4. CASE WaitSleep(c, p) \/ \E ch \in IoChans, l \in {"sys", "blk", "exit"} : Sleep(c, p, ch, l)
  <2>1. UNCHANGED <<pid, nextpid, mem, np>> BY <1>4, ZenonT(30) DEF WaitSleep, Sleep
  <2>2. \A q \in Procs : state'[q] = state[q] \/ {state[q], state'[q]} \subseteq InUse
    BY <1>0, <1>4 DEF WaitSleep, Sleep, TypeOK, InUse, Live
  <2> QED BY <2>1, <2>2, QuietSlots, Zenon
<1> QED BY <1>1, <1>2, <1>3, <1>4

\* exit(), wakeup() and kill() leave every slot in use that was.
LEMMA OtherSlotSteps ==
  ASSUME SafetyInv, SlotsInv,
         \/ \E ch \in IoChans : Wakeup(ch)
         \/ \E c \in Cpus, p \in Procs, n \in KillPids : Kill(c, p, n)
         \/ \E c \in Cpus, p \in Procs : Exit(c, p)
  PROVE  SlotsInv'
<1>0. TypeOK /\ \A c \in Cpus, p \in Procs : mode[c] = "run" /\ proc[c] = p => state[p] = "RUNNING"
  BY ZenonT(30) DEF SafetyInv, RunsOnOneCpu
<1>1. ASSUME NEW ch \in IoChans, Wakeup(ch) PROVE SlotsInv'
  BY <1>0, <1>1, QuietSlots DEF Wakeup, Woken, TypeOK, InUse, Live
<1>2. ASSUME NEW c \in Cpus, NEW p \in Procs, NEW n \in KillPids, Kill(c, p, n) PROVE SlotsInv'
  <2>1. UNCHANGED <<pid, nextpid, mem, np>> BY <1>2 DEF Kill
  <2>2. \A q \in Procs : state'[q] = state[q] \/ {state[q], state'[q]} \subseteq InUse
    BY <1>0, <1>2, ZenonT(30) DEF Kill, Roused, TypeOK, InUse, Live
  <2> QED BY <2>1, <2>2, QuietSlots
<1>3. ASSUME NEW c \in Cpus, NEW p \in Procs, Exit(c, p) PROVE SlotsInv'
  <2>1. UNCHANGED <<pid, nextpid, mem, np>> BY <1>3, ZenonT(30) DEF Exit
  <2>2. state[p] = "RUNNING" BY <1>0, <1>3, ZenonT(30) DEF Exit, At
  <2>3. \A q \in Procs : state'[q] = state[q] \/ {state[q], state'[q]} \subseteq InUse
    BY <1>0, <1>3, <2>2 DEF Exit, Woken, TypeOK, InUse, Live
  <2> QED BY <2>1, <2>3, QuietSlots
<1> QED BY <1>1, <1>2, <1>3

\* allocproc() gives a free slot the next pid and to one fork(); a fork() frees
\* its np again, memory and all, or lets it run; wait() frees a zombie's slot.
LEMMA SlotSteps ==
  ASSUME SafetyInv, SlotsInv, NEW c \in Cpus, NEW p \in Procs,
         ForkAlloc(c, p) \/ ForkKstack(c, p) \/ ForkCopy(c, p) \/ ForkRun(c, p) \/ WaitReap(c, p)
  PROVE  SlotsInv'
<1> USE DEF At, Goto, SlotsInv
<1>0. /\ TypeOK /\ NpEmbryo /\ NpOwn /\ p # None
      /\ mode[c] = "run" /\ proc[c] = p => state[p] = "RUNNING"
  <2>1. TypeOK /\ NpEmbryo /\ NpOwn BY Zenon DEF SafetyInv, ForkInv
  <2>2. mode[c] = "run" /\ proc[c] = p => state[p] = "RUNNING" BY Zenon DEF SafetyInv, RunsOnOneCpu
  <2> QED BY <2>1, <2>2, ProcNotNone, Zenon
<1>1. CASE ForkAlloc(c, p)
  <2>1. CASE Having("UNUSED") = {} /\ UNCHANGED <<state, pid, nextpid, np>>
    BY <1>1, <2>1, QuietSlots, Zenon DEF ForkAlloc
  <2>2. ASSUME NEW q \in Procs, state[q] = "UNUSED", state' = [state EXCEPT ![q] = "EMBRYO"],
               pid' = [pid EXCEPT ![q] = nextpid], np' = [np EXCEPT ![p] = q],
               nextpid' = nextpid + 1, mem' = mem, np[p] = None
        PROVE  SlotsInv'
    <3>1. PidsGiven' BY <1>0, <2>2 DEF TypeOK, PidsGiven
    <3>2. PidsOwn' BY <1>0, <2>2 DEF TypeOK, PidsGiven, PidsOwn
    <3>3. UnusedBare' BY <1>0, <2>2 DEF TypeOK, UnusedBare
    <3>4. EmbryoForked'
      <4> SUFFICES ASSUME NEW r \in Procs, state'[r] = "EMBRYO" PROVE \E o \in Procs : np'[o] = r
        BY DEF EmbryoForked
      <4>1. CASE r = q BY <4>1, <1>0, <2>2 DEF TypeOK
      <4>2. CASE r # q
        <5>1. PICK o \in Procs : np[o] = r BY <4>2, <1>0, <2>2 DEF TypeOK, EmbryoForked
        <5>2. o # p BY <5>1, <2>2 DEF Procs, None
        <5> QED BY <5>1, <5>2, <1>0, <2>2 DEF TypeOK
      <4> QED BY <4>1, <4>2
    <3> QED BY <3>1, <3>2, <3>3, <3>4
  <2>3. np[p] = None
    BY <1>0, <1>1, Zenon DEF ForkAlloc, SafetyInv, ForkInv, NpInFork, Where, ForkLabels
  <2> QED BY <1>1, <2>1, <2>2, <2>3, ZenonT(30) DEF ForkAlloc, IsFirst, Having
<1>2. ASSUME np[p] \in Procs, UNCHANGED <<pid, nextpid>>, ForkFail(p, np[p]) PROVE SlotsInv'
  <2>1. state' = [state EXCEPT ![np[p]] = "UNUSED"] /\ mem' = [mem EXCEPT ![np[p]] = {}]
        /\ np' = [np EXCEPT ![p] = None]
    BY <1>2 DEF ForkFail
  <2>2. PidsOwn' /\ PidsGiven' /\ UnusedBare'
    BY <1>0, <1>2, <2>1 DEF TypeOK, PidsOwn, PidsGiven, UnusedBare
  <2>3. EmbryoForked' BY <1>0, <1>2, <2>1 DEF TypeOK, EmbryoForked
  <2> QED BY <2>2, <2>3
<1>3. CASE ForkKstack(c, p) \/ ForkCopy(c, p) \/ ForkRun(c, p)
  <2>1. np[p] \in Procs /\ state[np[p]] = "EMBRYO"
    <3>1. np[p] # None
      BY <1>0, <1>3, ZenonT(30)
      DEF ForkKstack, ForkCopy, ForkRun, SafetyInv, ForkInv, NpInFork, Where, ForkLabels, Live
    <3> QED BY <3>1, <1>0 DEF TypeOK, NpEmbryo
  <2>2. UNCHANGED <<pid, nextpid>> BY <1>3, ZenonT(30) DEF ForkKstack, ForkCopy, ForkRun
  <2>3. CASE ForkFail(p, np[p]) BY <2>1, <2>2, <2>3, <1>2, ZenonT(30)
  <2>4. ASSUME UNCHANGED <<state, np>>, NEW m, mem' = [mem EXCEPT ![np[p]] = m] PROVE SlotsInv'
    BY <1>0, <2>1, <2>2, <2>4 DEF TypeOK, PidsOwn, PidsGiven, UnusedBare, EmbryoForked
  <2>5. CASE ForkRun(c, p)
    <3>1. state' = [state EXCEPT ![np[p]] = "RUNNABLE"] /\ np' = [np EXCEPT ![p] = None] /\ mem' = mem
      BY <2>5, ZenonT(30) DEF ForkRun
    <3>2. PidsOwn' /\ PidsGiven' /\ UnusedBare'
      BY <1>0, <2>1, <2>2, <3>1 DEF TypeOK, PidsOwn, PidsGiven, UnusedBare
    <3>3. EmbryoForked' BY <1>0, <2>1, <3>1 DEF TypeOK, EmbryoForked
    <3> QED BY <3>2, <3>3
  <2> QED BY <1>3, <2>3, <2>4, <2>5, Zenon DEF ForkKstack, ForkCopy
<1>4. CASE WaitReap(c, p)
  <2>1. PICK q \in Procs : /\ mem' = [mem EXCEPT ![q] = {}] /\ pid' = [pid EXCEPT ![q] = 0]
                           /\ state' = [state EXCEPT ![q] = "UNUSED"]
    BY <1>4, Zenon DEF WaitReap
  <2>2. UNCHANGED <<nextpid, np>> BY <1>4, ZenonT(30) DEF WaitReap
  <2>3. pid[q] \in Nat /\ pid[q] < nextpid /\ nextpid \in Nat BY <1>0 DEF TypeOK, PidsGiven
  <2>4. PidsGiven' BY <1>0, <2>1, <2>2, <2>3 DEF TypeOK, PidsGiven
  <2>5. PidsOwn' /\ UnusedBare' /\ EmbryoForked'
    BY <1>0, <2>1, <2>2 DEF TypeOK, PidsOwn, UnusedBare, EmbryoForked
  <2> QED BY <2>4, <2>5
<1> QED BY <1>1, <1>3, <1>4

\* A slot in use has a pid of its own, a free slot owns no memory, and a slot
\* being set up belongs to exactly one fork(), for any number of slots and CPUs
\* (proc.c:89-101, 196-200, 296-303).
THEOREM SlotsAccountedCorrect == Spec => []SlotsAccounted
<1>1. SafetyInv /\ SlotsInv /\ [Next]_vars => SlotsInv'
  <2> SUFFICES ASSUME SafetyInv, SlotsInv, [Next]_vars PROVE SlotsInv' OBVIOUS
  <2>1. CASE UNCHANGED vars
    BY <2>1, QuietSlots DEF vars, slotVars
  <2>2. ASSUME NEW c \in Cpus, SchedulerStep(c) PROVE SlotsInv'
    <3>1. initproc \in Procs BY NprocAssumption DEF Procs, initproc
    <3> QED BY <2>2, <3>1, QuietSlotSteps
  <2>3. ASSUME NEW c \in Cpus, NEW p \in Procs, TrapStep(c, p) \/ ProcStep(c, p) PROVE SlotsInv'
    BY <2>3, QuietSlotSteps, OtherSlotSteps, SlotSteps DEF ProcStep
  <2>4. ASSUME NEW ch \in IoChans, Wakeup(ch) PROVE SlotsInv' BY <2>4, OtherSlotSteps
  <2> QED BY <2>1, <2>2, <2>3, <2>4 DEF Next
<1>2. SafetyInv /\ SlotsInv => SlotsAccounted
  <2> SUFFICES ASSUME SafetyInv, SlotsInv PROVE SlotsAccounted OBVIOUS
  <2>1. NpEmbryo /\ NpOwn BY DEF SafetyInv, ForkInv
  <2>2. \A q \in Procs : state[q] = "EMBRYO" <=> \E p \in Procs : np[p] = q
    BY <2>1 DEF NpEmbryo, SlotsInv, EmbryoForked, Procs, None
  <2> QED BY <2>1, <2>2 DEF SlotsAccounted, SlotsInv, PidsOwn, UnusedBare, NpOwn
<1> QED BY <1>1, <1>2, InitSlots, Safety, PTL DEF Spec

=============================================================================
