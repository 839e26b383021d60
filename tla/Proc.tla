------------------------------- MODULE Proc -------------------------------
(***************************************************************************)
(* The process table, the per-CPU scheduler and the life of a process      *)
(* (proc.c, trap.c).  Every CPU runs either its scheduler loop or one      *)
(* process; ptable.lock is handed across swtch(), so the context that      *)
(* acquires it is seldom the one that releases it.                         *)
(*                                                                         *)
(* A critical section of ptable.lock that does not switch context is one   *)
(* action.  A section that ends in sched() is cut at the switch: the CPU   *)
(* is then in mode "sched" and still holds the lock.  User code, memory    *)
(* allocation, and the channels other subsystems sleep on are inputs.      *)
(* The time slice only decides whether a tick yields once or twice         *)
(* (trap.c:57-63, 112-114); here that is a choice, module Quantum has the  *)
(* counters.                                                               *)
(***************************************************************************)
EXTENDS Integers

CONSTANTS NPROC,     \* slots in ptable.proc
          NCPU,      \* processors
          IoChans,   \* what other subsystems sleep on: buffers, pipes, ticks
          KillPids,  \* the pids user programs pass to kill()
          MaxPid     \* bound: fork() is not called once nextpid exceeds it

Procs    == 1..NPROC
Cpus     == 1..NCPU
None     == 0
initproc == 1

ASSUME NprocAssumption == NPROC \in Nat \ {0}
ASSUME NcpuAssumption  == NCPU \in Nat \ {0}
ASSUME ChansAssumption == IoChans \cap (Procs \cup {None}) = {}
ASSUME PidAssumption   == MaxPid \in Nat /\ KillPids \subseteq Int

States == {"UNUSED", "EMBRYO", "SLEEPING", "RUNNABLE", "RUNNING", "ZOMBIE"}

\* Where a process stands in user code or in the kernel.
Preemptible == {"sys", "blk", "fork_kstack", "fork_copy", "fork_run", "uret", "exit"}
InLock      == {"forkret", "yield_ret", "sleep_ret", "wait_ret", "wait_scan"}
Labels      == Preemptible \cup InLock \cup {"user", "tick_check", "yield", "zombie"}

Memory == {"kstack", "pgdir"}

VARIABLES state, pid, parent, chan, killed, mem,   \* ptable.proc[]; mem: what the slot owns
          nextpid,
          ptlock,    \* the CPU holding ptable.lock, or None
          proc,      \* cpus[].proc
          mode,      \* what a CPU executes
          scan,      \* the scheduler's p, a local of each CPU's scheduler()
          pc,        \* where a process is, or will be when switched to
          ret,       \* where it goes after a yield() or sleep()
          np         \* fork()'s local np

slotVars == <<state, pid, parent, chan, killed, mem, nextpid>>
cpuVars  == <<ptlock, proc, mode, scan>>
vars     == <<slotVars, cpuVars, pc, ret, np>>

Modes == {"acquire", "scan", "run", "sched"}

\* After userinit(): one runnable process, every CPU entering scheduler().
Init ==
  /\ state   = [p \in Procs |-> IF p = initproc THEN "RUNNABLE" ELSE "UNUSED"]
  /\ pid     = [p \in Procs |-> IF p = initproc THEN 1 ELSE 0]
  /\ parent  = [p \in Procs |-> None]
  /\ chan    = [p \in Procs |-> None]
  /\ killed  = [p \in Procs |-> FALSE]
  /\ mem     = [p \in Procs |-> IF p = initproc THEN Memory ELSE {}]
  /\ nextpid = 2
  /\ ptlock  = None
  /\ proc    = [c \in Cpus |-> None]
  /\ mode    = [c \in Cpus |-> "acquire"]
  /\ scan    = [c \in Cpus |-> 1]
  /\ pc      = [p \in Procs |-> "forkret"]
  /\ ret     = [p \in Procs |-> "user"]
  /\ np      = [p \in Procs |-> None]

-----------------------------------------------------------------------------
(* Helpers.                                                                *)

\* Process p executes on CPU c at label l.
At(c, p, l) == mode[c] = "run" /\ proc[c] = p /\ pc[p] = l

Goto(p, l) == pc' = [pc EXCEPT ![p] = l]
GoBack(p)  == Goto(p, ret[p]) /\ ret' = [ret EXCEPT ![p] = "user"]

Acquire_Unguarded(c) == ptlock' = c
Acquire(c) == ptlock = None /\ ptlock' = c

Release_Forgotten(c) == ptlock = c /\ UNCHANGED ptlock
Release(c) == ptlock = c /\ ptlock' = None

InOneGo    == ptlock = None /\ ptlock' = None  \* acquire ... release, no switch inside

\* p is the first slot of S in table order.
IsFirst(p, S) == p \in S /\ \A q \in S : p <= q

Having(s)   == {p \in Procs : state[p] = s}
Children(p) == {q \in Procs : parent[q] = p}

\* wakeup1() for every channel in C, as the table's new states.
Woken(C) == [p \in Procs |-> IF state[p] = "SLEEPING" /\ chan[p] \in C
                             THEN "RUNNABLE" ELSE state[p]]

-----------------------------------------------------------------------------
(* scheduler(), sched(), yield(), forkret().                               *)

SchedulerAcquire(c) ==
  /\ mode[c] = "acquire"
  /\ Acquire(c)
  /\ mode' = [mode EXCEPT ![c] = "scan"]
  /\ UNCHANGED <<slotVars, proc, scan, pc, ret, np>>

\* The loop reaches the next runnable slot and switches to it, lock held.
SchedulerSwitch(c, p) ==
  /\ mode[c] = "scan"
  /\ IsFirst(p, Having("RUNNABLE") \cap scan[c]..NPROC)
  /\ proc'  = [proc EXCEPT ![c] = p]
  /\ state' = [state EXCEPT ![p] = "RUNNING"]
  /\ scan'  = [scan EXCEPT ![c] = p]
  /\ mode'  = [mode EXCEPT ![c] = "run"]
  /\ UNCHANGED <<pid, parent, chan, killed, mem, nextpid, ptlock, pc, ret, np>>

SchedulerRelease(c) ==
  /\ mode[c] = "scan"
  /\ Having("RUNNABLE") \cap scan[c]..NPROC = {}
  /\ Release(c)
  /\ mode' = [mode EXCEPT ![c] = "acquire"]
  /\ scan' = [scan EXCEPT ![c] = 1]
  /\ UNCHANGED <<slotVars, proc, pc, ret, np>>

\* sched(): swtch() back to this CPU's scheduler, whose p is the slot it ran.
Sched(c) ==
  /\ mode[c] = "sched"
  /\ proc' = [proc EXCEPT ![c] = None]
  /\ scan' = [scan EXCEPT ![c] = scan[c] + 1]
  /\ mode' = [mode EXCEPT ![c] = "scan"]
  /\ UNCHANGED <<slotVars, ptlock, pc, ret, np>>

Yield(c, p) ==
  /\ At(c, p, "yield")
  /\ Acquire(c)
  /\ state' = [state EXCEPT ![p] = "RUNNABLE"]
  /\ mode'  = [mode EXCEPT ![c] = "sched"]
  /\ Goto(p, "yield_ret")
  /\ UNCHANGED <<pid, parent, chan, killed, mem, nextpid, proc, scan, ret, np>>

YieldReturn(c, p) ==
  /\ At(c, p, "yield_ret")
  /\ Release(c)
  /\ GoBack(p)
  /\ UNCHANGED <<slotVars, proc, mode, scan, np>>

ForkRet(c, p) ==
  /\ At(c, p, "forkret")
  /\ Release(c)
  /\ Goto(p, "user")
  /\ UNCHANGED <<slotVars, proc, mode, scan, ret, np>>

-----------------------------------------------------------------------------
(* trap(): system call entry and return, the clock, a faulting program.    *)

Syscall(c, p) ==
  /\ At(c, p, "user")
  /\ Goto(p, IF killed[p] THEN "exit" ELSE "sys")
  /\ UNCHANGED <<slotVars, cpuVars, ret, np>>

ReturnToUser(c, p) ==
  /\ At(c, p, "uret")
  /\ Goto(p, IF killed[p] THEN "exit" ELSE "user")
  /\ UNCHANGED <<slotVars, cpuVars, ret, np>>

\* A tick in user mode: yield now if the slice is used up, then the killed
\* check, the unconditional yield, and the second check ("uret").
TimerUser(c, p) ==
  /\ At(c, p, "user")
  /\ \/ Goto(p, "yield") /\ ret' = [ret EXCEPT ![p] = "tick_check"]
     \/ Goto(p, "tick_check") /\ UNCHANGED ret
  /\ UNCHANGED <<slotVars, cpuVars, np>>

TickCheck(c, p) ==
  /\ At(c, p, "tick_check")
  /\ \/ killed[p] /\ Goto(p, "exit") /\ UNCHANGED ret
     \/ ~killed[p] /\ Goto(p, "yield") /\ ret' = [ret EXCEPT ![p] = "uret"]
  /\ UNCHANGED <<slotVars, cpuVars, np>>

\* A tick while the kernel runs for p with interrupts on: no killed checks.
TimerKernel(c, p, l) ==
  /\ l \in Preemptible
  /\ At(c, p, l)
  /\ Goto(p, "yield")
  /\ ret' = [ret EXCEPT ![p] = l]
  /\ UNCHANGED <<slotVars, cpuVars, np>>

Fault(c, p) ==
  /\ At(c, p, "user")
  /\ p # initproc
  /\ killed' = [killed EXCEPT ![p] = TRUE]
  /\ Goto(p, "exit")
  /\ UNCHANGED <<state, pid, parent, chan, mem, nextpid, cpuVars, ret, np>>

-----------------------------------------------------------------------------
(* fork(), with allocproc().                                               *)

ForkAlloc(c, p) ==
  /\ At(c, p, "sys")
  /\ InOneGo
  /\ \/ \E q \in Procs :
          /\ nextpid <= MaxPid
          /\ IsFirst(q, Having("UNUSED"))
          /\ state' = [state EXCEPT ![q] = "EMBRYO"]
          /\ pid'   = [pid EXCEPT ![q] = nextpid]
          /\ np'    = [np EXCEPT ![p] = q]
          /\ nextpid' = nextpid + 1
          /\ Goto(p, "fork_kstack")
     \/ /\ Having("UNUSED") = {}
        /\ Goto(p, "uret")
        /\ UNCHANGED <<state, pid, nextpid, np>>
  /\ UNCHANGED <<parent, chan, killed, mem, proc, mode, scan, ret>>

ForkFail_Leaks(p, q) ==
  /\ state' = [state EXCEPT ![q] = "UNUSED"]
  /\ np'    = [np EXCEPT ![p] = None]
  /\ Goto(p, "uret")
  /\ UNCHANGED <<mem, parent>>

\* fork() gives up and frees the slot, without ptable.lock; pid stays set.
ForkFail(p, q) ==
  /\ state' = [state EXCEPT ![q] = "UNUSED"]
  /\ mem'   = [mem EXCEPT ![q] = {}]
  /\ np'    = [np EXCEPT ![p] = None]
  /\ Goto(p, "uret")
  /\ UNCHANGED parent

ForkKstack(c, p) ==
  /\ At(c, p, "fork_kstack")
  /\ \/ /\ mem' = [mem EXCEPT ![np[p]] = {"kstack"}]
        /\ pc'  = [pc EXCEPT ![np[p]] = "forkret", ![p] = "fork_copy"]
        /\ UNCHANGED <<state, parent, np>>
     \/ ForkFail(p, np[p])
  /\ UNCHANGED <<pid, chan, killed, nextpid, cpuVars, ret>>

ForkCopy(c, p) ==
  /\ At(c, p, "fork_copy")
  /\ \/ /\ mem'    = [mem EXCEPT ![np[p]] = Memory]
        /\ parent' = [parent EXCEPT ![np[p]] = p]
        /\ Goto(p, "fork_run")
        /\ UNCHANGED <<state, np>>
     \/ ForkFail(p, np[p])
  /\ UNCHANGED <<pid, chan, killed, nextpid, cpuVars, ret>>

ForkRun(c, p) ==
  /\ At(c, p, "fork_run")
  /\ InOneGo
  /\ state' = [state EXCEPT ![np[p]] = "RUNNABLE"]
  /\ np'    = [np EXCEPT ![p] = None]
  /\ Goto(p, "uret")
  /\ UNCHANGED <<pid, parent, chan, killed, mem, nextpid, proc, mode, scan, ret>>

-----------------------------------------------------------------------------
(* exit() and wait().                                                      *)

\* sys_exit(); init never calls it (exit() panics "init exiting").
ExitCall(c, p) ==
  /\ At(c, p, "sys")
  /\ p # initproc
  /\ Goto(p, "exit")
  /\ UNCHANGED <<slotVars, cpuVars, ret, np>>

Adopted_ZombiesOnly(p) == [q \in Procs |-> IF parent[q] = p /\ state[q] = "ZOMBIE"
                                            THEN initproc ELSE parent[q]]

\* The parents once p's children are passed to init.
Adopted(p) == [q \in Procs |-> IF parent[q] = p THEN initproc ELSE parent[q]]

Exit(c, p) ==
  /\ At(c, p, "exit")
  /\ p # initproc
  /\ Acquire(c)
  /\ LET orphans == Children(p) \cap Having("ZOMBIE")
         chans   == {parent[p]} \cup (IF orphans = {} THEN {} ELSE {initproc})
     IN  state' = [Woken(chans) EXCEPT ![p] = "ZOMBIE"]
  /\ parent' = Adopted(p)
  /\ mode'   = [mode EXCEPT ![c] = "sched"]
  /\ Goto(p, "zombie")
  /\ UNCHANGED <<pid, chan, killed, mem, nextpid, proc, scan, ret, np>>

WaitAcquire(c, p) ==
  /\ At(c, p, "sys")
  /\ Acquire(c)
  /\ Goto(p, "wait_scan")
  /\ UNCHANGED <<slotVars, proc, mode, scan, ret, np>>

WaitReap(c, p) ==
  /\ At(c, p, "wait_scan")
  /\ \E q \in Procs :
       /\ IsFirst(q, Children(p) \cap Having("ZOMBIE"))
       /\ mem'    = [mem EXCEPT ![q] = {}]
       /\ pid'    = [pid EXCEPT ![q] = 0]
       /\ parent' = [parent EXCEPT ![q] = None]
       /\ killed' = [killed EXCEPT ![q] = FALSE]
       /\ state'  = [state EXCEPT ![q] = "UNUSED"]
  /\ Release(c)
  /\ Goto(p, "uret")
  /\ UNCHANGED <<chan, nextpid, proc, mode, scan, ret, np>>

WaitFail(c, p) ==
  /\ At(c, p, "wait_scan")
  /\ Children(p) \cap Having("ZOMBIE") = {}
  /\ Children(p) = {} \/ killed[p]
  /\ Release(c)
  /\ Goto(p, "uret")
  /\ UNCHANGED <<slotVars, proc, mode, scan, ret, np>>

\* sleep(curproc, &ptable.lock): the lock stays held up to the switch.
WaitSleep(c, p) ==
  /\ At(c, p, "wait_scan")
  /\ Children(p) \cap Having("ZOMBIE") = {}
  /\ Children(p) # {} /\ ~killed[p]
  /\ chan'  = [chan EXCEPT ![p] = p]
  /\ state' = [state EXCEPT ![p] = "SLEEPING"]
  /\ mode'  = [mode EXCEPT ![c] = "sched"]
  /\ Goto(p, "wait_ret")
  /\ UNCHANGED <<pid, parent, killed, mem, nextpid, ptlock, proc, scan, ret, np>>

WaitWoken(c, p) ==
  /\ At(c, p, "wait_ret")
  /\ chan' = [chan EXCEPT ![p] = None]
  /\ Goto(p, "wait_scan")
  /\ UNCHANGED <<state, pid, parent, killed, mem, nextpid, cpuVars, ret, np>>

-----------------------------------------------------------------------------
(* sleep() on another subsystem's channel, wakeup(), kill().               *)

\* A blocking system call, or exit() closing files, waits for ch; its own
\* lock lk is released inside the section and taken again by its subsystem.
Sleep(c, p, ch, l) ==
  /\ l \in {"sys", "blk", "exit"}
  /\ At(c, p, l)
  /\ Acquire(c)
  /\ chan'  = [chan EXCEPT ![p] = ch]
  /\ state' = [state EXCEPT ![p] = "SLEEPING"]
  /\ mode'  = [mode EXCEPT ![c] = "sched"]
  /\ Goto(p, "sleep_ret")
  /\ ret'   = [ret EXCEPT ![p] = IF l = "exit" THEN "exit" ELSE "blk"]
  /\ UNCHANGED <<pid, parent, killed, mem, nextpid, proc, scan, np>>

SleepReturn(c, p) ==
  /\ At(c, p, "sleep_ret")
  /\ chan' = [chan EXCEPT ![p] = None]
  /\ Release(c)
  /\ GoBack(p)
  /\ UNCHANGED <<state, pid, parent, killed, mem, nextpid, proc, mode, scan, np>>

\* Any other system call, or one that need not wait (any longer), is done.
SyscallDone(c, p, l) ==
  /\ l \in {"sys", "blk"}
  /\ At(c, p, l)
  /\ Goto(p, "uret")
  /\ UNCHANGED <<slotVars, cpuVars, ret, np>>

\* By an interrupt handler or another process: who calls it does not matter.
Wakeup(ch) ==
  /\ InOneGo
  /\ state' = Woken({ch})
  /\ UNCHANGED <<pid, parent, chan, killed, mem, nextpid, proc, mode, scan, pc, ret, np>>

\* kill() wakes its target only from sleep.
Roused(q) == IF state[q] = "SLEEPING" THEN "RUNNABLE" ELSE state[q]

\* The first slot whose pid field matches, whatever its state.
Kill(c, p, n) ==
  /\ At(c, p, "sys")
  /\ InOneGo
  /\ LET match == {q \in Procs : pid[q] = n}
     IN  \/ \E q \in Procs :
              /\ IsFirst(q, match)
              /\ killed' = [killed EXCEPT ![q] = TRUE]
              /\ state'  = [state EXCEPT ![q] = Roused(q)]
         \/ match = {} /\ UNCHANGED <<killed, state>>
  /\ Goto(p, "uret")
  /\ UNCHANGED <<pid, parent, chan, mem, nextpid, proc, mode, scan, ret, np>>

-----------------------------------------------------------------------------
SchedulerStep(c) ==
  \/ SchedulerAcquire(c)
  \/ \E p \in Procs : SchedulerSwitch(c, p)
  \/ SchedulerRelease(c)
  \/ Sched(c)

TrapStep(c, p) ==
  \/ Syscall(c, p) \/ ReturnToUser(c, p) \/ Fault(c, p)
  \/ TimerUser(c, p) \/ TickCheck(c, p)
  \/ \E l \in Preemptible : TimerKernel(c, p, l)
  \/ Yield(c, p) \/ YieldReturn(c, p) \/ ForkRet(c, p)

ProcStep(c, p) ==
  \/ ForkAlloc(c, p) \/ ForkKstack(c, p) \/ ForkCopy(c, p) \/ ForkRun(c, p)
  \/ ExitCall(c, p) \/ Exit(c, p)
  \/ WaitAcquire(c, p) \/ WaitReap(c, p) \/ WaitFail(c, p)
  \/ WaitSleep(c, p) \/ WaitWoken(c, p)
  \/ \E ch \in IoChans, l \in {"sys", "blk", "exit"} : Sleep(c, p, ch, l)
  \/ SleepReturn(c, p)
  \/ \E l \in {"sys", "blk"} : SyscallDone(c, p, l)
  \/ \E n \in KillPids : Kill(c, p, n)

Next ==
  \/ \E c \in Cpus : SchedulerStep(c)
  \/ \E c \in Cpus, p \in Procs : TrapStep(c, p) \/ ProcStep(c, p)
  \/ \E ch \in IoChans : Wakeup(ch)

Spec == Init /\ [][Next]_vars

-----------------------------------------------------------------------------
(* Properties.                                                             *)

\* Every variable keeps its type.
TypeOK ==
  /\ state  \in [Procs -> States]
  /\ pid    \in [Procs -> Nat]
  /\ parent \in [Procs -> Procs \cup {None}]
  /\ chan   \in [Procs -> Procs \cup IoChans \cup {None}]
  /\ killed \in [Procs -> BOOLEAN]
  /\ mem    \in [Procs -> SUBSET Memory]
  /\ nextpid \in Nat
  /\ ptlock \in Cpus \cup {None}
  /\ proc   \in [Cpus -> Procs \cup {None}]
  /\ mode   \in [Cpus -> Modes]
  /\ scan   \in [Cpus -> Nat]
  /\ pc     \in [Procs -> Labels]
  /\ ret    \in [Procs -> Labels]
  /\ np     \in [Procs -> Procs \cup {None}]

\* CPU c executes between an acquire and the matching release of ptable.lock,
\* on whichever side of a swtch().
InSection(c) == \/ mode[c] \in {"scan", "sched"}
                \/ mode[c] = "run" /\ pc[proc[c]] \in InLock

\* The hand-over of ptable.lock through swtch() is exact: a CPU holds the lock
\* exactly while it is inside a section, so release() and sched() never panic
\* and two CPUs are never inside at once (proc.c:342-378, 398, 418, 428).
LockHandOver == \A c \in Cpus : ptlock = c <=> InSection(c)

\* RUNNING means "some CPU executes it", and no process is executed by two
\* CPUs, although its state changes before it has left its CPU
\* (proc.c:351-364, 416-417, 466-469).
RunsOnOneCpu ==
  /\ \A c, d \in Cpus : proc[c] # None /\ proc[c] = proc[d] => c = d
  /\ \A p \in Procs : state[p] = "RUNNING" <=> \E c \in Cpus : mode[c] = "run" /\ proc[c] = p

\* wait() and a failing fork() never free the kernel stack or the page table a
\* CPU still runs on; in particular a zombie is reaped only once it is off its
\* stack (proc.c:268-272 against 296-298), and switchuvm() never panics.
MemoryInUse == \A c \in Cpus : proc[c] # None => mem[proc[c]] = Memory

\* A zombie is never switched to: exit() does not reach panic("zombie exit").
NoZombieRuns == \A c \in Cpus : mode[c] = "run" => pc[proc[c]] # "zombie"

\* Everyone who can become or is a zombie has a parent that is able to wait for
\* it, whatever the order in which parents and children exit (proc.c:256-265).
ParentCanWait ==
  \A p \in Procs \ {initproc} :
    state[p] \notin {"UNUSED", "EMBRYO"} =>
      /\ parent[p] # None
      /\ state[parent[p]] \in {"SLEEPING", "RUNNABLE", "RUNNING"}

\* Nobody sleeps in wait() having no child, an exited child, or a kill()
\* pending: neither exit()'s wakeup nor kill() can be missed (proc.c:293, 310,
\* 256, 262, 516).
WaitNeverMissed ==
  \A p \in Procs : state[p] = "SLEEPING" /\ chan[p] = p =>
    Children(p) # {} /\ Children(p) \cap Having("ZOMBIE") = {} /\ ~killed[p]

\* A slot in use has a pid of its own; a free slot owns no memory, and a slot
\* being set up belongs to exactly one fork() (proc.c:89-101, 196-200, 296-303).
SlotsAccounted ==
  /\ \A p, q \in Procs : state[p] # "UNUSED" /\ state[q] # "UNUSED" /\ pid[p] = pid[q] => p = q
  /\ \A p \in Procs : state[p] = "UNUSED" => mem[p] = {}
  /\ \A q \in Procs : state[q] = "EMBRYO" <=> \E p \in Procs : np[p] = q
  /\ \A p, q \in Procs : np[p] = np[q] /\ np[p] # None => p = q

-----------------------------------------------------------------------------
(* The inductive invariants behind the properties above.                   *)

Live       == {"SLEEPING", "RUNNABLE", "RUNNING"}
Resumable  == {"forkret", "yield_ret", "sleep_ret", "wait_ret"}
ForkLabels == {"fork_kstack", "fork_copy", "fork_run"}

\* Where a process stands, looking through a yield() or sleep() in progress.
Where(p) == IF pc[p] \in {"yield", "yield_ret", "sleep_ret"} THEN ret[p] ELSE pc[p]

\* What a CPU runs, and where a process that is not running will resume.
CpuRuns      == \A c \in Cpus : proc[c] # None <=> mode[c] \in {"run", "sched"}
SchedState   == \A c \in Cpus : mode[c] = "sched" =>
                  state[proc[c]] \in {"SLEEPING", "RUNNABLE", "ZOMBIE"}
ResumesAt    == \A p \in Procs : state[p] \in {"SLEEPING", "RUNNABLE"} => pc[p] \in Resumable
RunningLabel == \A p \in Procs : state[p] = "RUNNING" => pc[p] # "zombie"
RetLabel     == \A p \in Procs : ret[p] \in Preemptible \cup {"user", "tick_check"}
CpuInv       == CpuRuns /\ SchedState /\ ResumesAt /\ RunningLabel /\ RetLabel

\* The slot a fork() is setting up is its own, and is complete once it may run.
NpInFork  == \A p \in Procs : np[p] # None <=> state[p] \in Live /\ Where(p) \in ForkLabels
NpEmbryo  == \A p \in Procs : np[p] # None =>
               /\ state[np[p]] = "EMBRYO"
               /\ Where(p) # "fork_kstack" => pc[np[p]] = "forkret"
               /\ Where(p) = "fork_run" => mem[np[p]] = Memory
NpOwn     == \A p, q \in Procs : np[p] = np[q] /\ np[p] # None => p = q
MemOwned  == \A p \in Procs : state[p] \in Live \cup {"ZOMBIE"} => mem[p] = Memory
ForkInv   == NpInFork /\ NpEmbryo /\ NpOwn /\ MemOwned

\* Together they are preserved by every step, whatever the number of CPUs and
\* slots: the argument that the lock hand-over of scheduler(), sched(), sleep(),
\* exit() and wait() keeps every process on one CPU and on memory it owns.
SafetyInv == TypeOK /\ LockHandOver /\ RunsOnOneCpu /\ CpuInv /\ ForkInv

\* A slot has a parent exactly from the point where fork() sets it until wait()
\* frees the slot, and init is there to inherit orphans.
InitLives   == state[initproc] \in Live /\ parent[initproc] = None
NotOwnChild == \A p \in Procs : parent[p] # p
UnusedAlone == \A p \in Procs : state[p] = "UNUSED" => parent[p] = None
EmbryoOf    == \A p \in Procs : state[p] = "EMBRYO" =>
                 \/ parent[p] = None
                 \/ np[parent[p]] = p /\ Where(parent[p]) = "fork_run"
ForkRunOf   == \A p \in Procs : np[p] # None /\ Where(p) = "fork_run" => parent[np[p]] = p

\* With SafetyInv, inductive: who may wait for whom.
FamilyInv == /\ ParentCanWait /\ WaitNeverMissed
             /\ InitLives /\ NotOwnChild /\ UnusedAlone /\ EmbryoOf /\ ForkRunOf

=============================================================================
