------------------------------ MODULE Quantum ------------------------------
(***************************************************************************)
(* Time slices, the clock interrupt, the sleep() call and the turnaround   *)
(* report (proc.c, trap.c, sysproc.c).  The life of a process and the      *)
(* locking are module Proc's: here processes compute, sleep, fork, exit    *)
(* and are killed, and what is followed is the global time_slice, ticks,   *)
(* the per-process counters, when a tick takes the CPU away, and whether   *)
(* the local APIC has been told that its interrupt is over (lapiceoi()):   *)
(* until then it delivers no further tick to that CPU.  ptable.lock is     *)
(* held exactly while some CPU is in "scan".                               *)
(***************************************************************************)
EXTENDS Integers

CONSTANTS NPROC, NCPU,
          DEFAULT_TIME_SLICE,
          SliceLimit,   \* 1000000 in scheduler()
          TickMod,      \* ticks is an unsigned counter modulo 2^32
          SleepArgs     \* arguments of sleep(), as the unsigned numbers they are compared as

Procs == 1..NPROC
Cpus  == 1..NCPU      \* CPU 1 is cpuid() 0, which counts the ticks
None  == 0
initproc == 1

ASSUME SizeAssumption  == NPROC \in Nat \ {0} /\ NCPU \in Nat \ {0}
ASSUME SliceAssumption == DEFAULT_TIME_SLICE \in 2..SliceLimit /\ SliceLimit \in Nat
ASSUME TickAssumption  == TickMod \in Nat \ {0} /\ SleepArgs \subseteq 1..TickMod - 1

VARIABLES state, slice, killed,                     \* of struct proc; slice is p->time_slice
          terminate_time,                           \* whether it is greater than 0
          ctx,         \* where a process resumes: in user code, inside trap() or in sys_sleep()
          nap,         \* sys_sleep()'s ticks0 and n, and how many ticks there were since
          ticks, time_slice,
          proc, pos, scan, terminated,              \* per CPU, the last two scheduler()'s locals
          inservice    \* per CPU: its APIC waits for lapiceoi()

procVars == <<state, slice, terminate_time, killed, ctx, nap>>
cpuVars  == <<proc, pos, scan, terminated, inservice>>
vars     == <<procVars, cpuVars, ticks, time_slice>>

NoNap == [ticks0 |-> 0, n |-> 0, since |-> 0]

Init ==
  /\ state = [p \in Procs |-> IF p = initproc THEN "RUNNABLE" ELSE "UNUSED"]
  /\ slice = [p \in Procs |-> 0]
  /\ terminate_time = [p \in Procs |-> FALSE]
  /\ killed = [p \in Procs |-> FALSE]
  /\ ctx  = [p \in Procs |-> "user"]
  /\ nap = [p \in Procs |-> NoNap]
  /\ ticks = 0
  /\ time_slice = DEFAULT_TIME_SLICE
  /\ proc = [c \in Cpus |-> None]
  /\ pos  = [c \in Cpus |-> "idle"]
  /\ scan = [c \in Cpus |-> 1]
  /\ terminated = [c \in Cpus |-> 0]
  /\ inservice = [c \in Cpus |-> FALSE]

LockFree == \A c \in Cpus : pos[c] # "scan"

Terminated_AnyTime(term) == TRUE
Terminated(term) == term

\* Process p, now in state s in the table st, comes back to the scheduler of CPU
\* c, which prints the first termination it meets in a pass.
BackToScheduler(c, p, st, s, term) ==
  /\ state' = [st EXCEPT ![p] = s]
  /\ proc'  = [proc EXCEPT ![c] = None]
  /\ pos'   = [pos EXCEPT ![c] = "scan"]
  /\ scan'  = [scan EXCEPT ![c] = p + 1]
  /\ IF Terminated(term) /\ terminated[c] = 0
     THEN terminated' = [terminated EXCEPT ![c] = 1]
     ELSE UNCHANGED terminated

-----------------------------------------------------------------------------
(* scheduler().                                                            *)

StartPass(c) ==
  /\ pos[c] = "idle" /\ LockFree
  /\ pos'  = [pos EXCEPT ![c] = "scan"]
  /\ scan' = [scan EXCEPT ![c] = 1]
  /\ terminated' = [terminated EXCEPT ![c] = 0]
  /\ UNCHANGED <<procVars, proc, inservice, ticks, time_slice>>

Switch(c, p) ==
  /\ pos[c] = "scan"
  /\ p >= scan[c] /\ state[p] = "RUNNABLE"
  /\ \A q \in Procs : q >= scan[c] /\ state[q] = "RUNNABLE" => p <= q
  /\ state' = [state EXCEPT ![p] = "RUNNING"]
  /\ proc'  = [proc EXCEPT ![c] = p]
  /\ pos'   = [pos EXCEPT ![c] = ctx[p]]
  /\ UNCHANGED <<slice, terminate_time, killed, ctx, nap, scan, terminated,
                 inservice, ticks, time_slice>>

NextSlice_NoReset(t) == 2 * t
NextSlice(t) == IF t > SliceLimit THEN 2 ELSE 2 * t

EndPass(c) ==
  /\ pos[c] = "scan"
  /\ \A q \in Procs : q >= scan[c] => state[q] # "RUNNABLE"
  /\ time_slice' = IF terminated[c] = 0 THEN NextSlice(time_slice) ELSE time_slice
  /\ pos' = [pos EXCEPT ![c] = "idle"]
  /\ scan' = [scan EXCEPT ![c] = NPROC + 1]
  /\ UNCHANGED <<procVars, proc, terminated, inservice, ticks>>

-----------------------------------------------------------------------------
(* The clock interrupt of trap().                                          *)

\* wakeup(&ticks).
Woken(st) == [p \in Procs |-> IF st[p] = "SLEEPING" THEN "RUNNABLE" ELSE st[p]]

\* tickslock is held from the test of sys_sleep()'s loop to sleep()'s release of it.
TicksLockFree == \A c \in Cpus : pos[c] # "doze"

\* The first CPU counts the tick.
AfterTick(c) == IF c = 1 THEN Woken(state) ELSE state
CountTick(c) ==
  IF c = 1
  THEN /\ TicksLockFree
       /\ ticks' = (ticks + 1) % TickMod
       /\ nap' = [p \in Procs |-> IF nap[p].n > nap[p].since THEN [nap[p] EXCEPT !.since = @ + 1]
                                 ELSE nap[p]]
  ELSE UNCHANGED <<ticks, nap>>

\* In the scheduler's idle loop: no process to charge.
TickIdle(c) ==
  /\ pos[c] = "idle" /\ ~inservice[c] /\ LockFree
  /\ CountTick(c)
  /\ state' = AfterTick(c)
  /\ UNCHANGED <<slice, terminate_time, killed, ctx, cpuVars, time_slice>>

\* exit() of p on CPU c, in the table st.
Dies(c, p, st) ==
  /\ terminate_time' = [terminate_time EXCEPT ![p] = ticks' > 0]
  /\ BackToScheduler(c, p, st, "ZOMBIE", ticks' > 0)

\* The end of trap(), after lapiceoi(): a killed process exits, another yields.
TrapEnds(c, p, st) ==
  \/ killed[p] /\ Dies(c, p, st)
  \/ /\ ~killed[p]
     /\ BackToScheduler(c, p, st, "RUNNABLE", terminate_time[p])
     /\ UNCHANGED terminate_time

\* The slice is used up: yield() before lapiceoi().
TickExpires(c, p) ==
  /\ pos[c] = "user" /\ proc[c] = p /\ ~inservice[c] /\ LockFree
  /\ slice[p] + 1 >= time_slice
  /\ CountTick(c)
  /\ slice' = [slice EXCEPT ![p] = 0]
  /\ inservice' = [inservice EXCEPT ![c] = TRUE]
  /\ ctx' = [ctx EXCEPT ![p] = "expired"]
  /\ BackToScheduler(c, p, AfterTick(c), "RUNNABLE", terminate_time[p])
  /\ UNCHANGED <<terminate_time, killed, time_slice>>

\* The slice is not used up: lapiceoi(), and then yield() all the same.
TickYields(c, p) ==
  /\ pos[c] = "user" /\ proc[c] = p /\ ~inservice[c] /\ LockFree
  /\ slice[p] + 1 < time_slice
  /\ CountTick(c)
  /\ slice' = [slice EXCEPT ![p] = slice[p] + 1]
  /\ TrapEnds(c, p, AfterTick(c))
  /\ UNCHANGED <<killed, ctx, inservice, time_slice>>

\* Resumed from the first yield(), on whichever CPU: lapiceoi(), second yield().
TickResumes(c, p) ==
  /\ pos[c] = "expired" /\ proc[c] = p /\ LockFree
  /\ inservice' = [inservice EXCEPT ![c] = FALSE]
  /\ ctx' = [ctx EXCEPT ![p] = "user"]
  /\ UNCHANGED ticks
  /\ TrapEnds(c, p, state)
  /\ UNCHANGED <<slice, killed, nap, time_slice>>

-----------------------------------------------------------------------------
(* sys_sleep().  ticks - ticks0 and the comparison with n are unsigned.    *)

Over_Absolute(t) == ticks >= (t.ticks0 + t.n) % TickMod
Over(t) == (ticks - t.ticks0) % TickMod >= t.n

\* The call, up to the first sleep(): n is not 0, and no tick has passed.
sys_sleep(c, p, n) ==
  /\ pos[c] = "user" /\ proc[c] = p /\ ~killed[p] /\ TicksLockFree
  /\ nap' = [nap EXCEPT ![p] = [ticks0 |-> ticks, n |-> n, since |-> 0]]
  /\ pos' = [pos EXCEPT ![c] = "doze"]
  /\ UNCHANGED <<state, slice, terminate_time, killed, ctx, proc, scan, terminated,
                 inservice, ticks, time_slice>>

\* sleep(&ticks, &tickslock): a kill() since the test is not seen.
SleepOnTicks(c, p) ==
  /\ pos[c] = "doze" /\ proc[c] = p /\ LockFree
  /\ ctx' = [ctx EXCEPT ![p] = "sleep"]
  /\ BackToScheduler(c, p, state, "SLEEPING", terminate_time[p])
  /\ UNCHANGED <<slice, terminate_time, killed, nap, inservice, ticks, time_slice>>

\* sleep() has returned: another round of the loop, or sys_sleep() returns 0 or -1.
SleepTest(c, p) ==
  /\ pos[c] = "sleep" /\ proc[c] = p /\ TicksLockFree
  /\ \/ /\ ~Over(nap[p]) /\ ~killed[p]
        /\ pos' = [pos EXCEPT ![c] = "doze"]
        /\ UNCHANGED <<ctx, nap>>
     \/ /\ Over(nap[p]) \/ killed[p]
        /\ pos' = [pos EXCEPT ![c] = "user"]
        /\ ctx' = [ctx EXCEPT ![p] = "user"]
        /\ nap' = [nap EXCEPT ![p] = NoNap]
  /\ UNCHANGED <<state, slice, terminate_time, killed, proc, scan, terminated,
                 inservice, ticks, time_slice>>

-----------------------------------------------------------------------------
(* fork(), exit() and wait(), as far as they keep time.                    *)

Fork(c, p, q) ==
  /\ pos[c] = "user" /\ proc[c] = p /\ ~killed[p] /\ LockFree
  /\ state[q] = "UNUSED" /\ \A r \in Procs : state[r] = "UNUSED" => q <= r
  /\ state' = [state EXCEPT ![q] = "RUNNABLE"]
  /\ slice' = [slice EXCEPT ![q] = 0]
  /\ terminate_time' = [terminate_time EXCEPT ![q] = FALSE]
  /\ ctx'  = [ctx EXCEPT ![q] = "user"]
  /\ UNCHANGED <<killed, nap, cpuVars, ticks, time_slice>>

Exit(c, p) ==
  /\ pos[c] = "user" /\ proc[c] = p /\ p # initproc /\ LockFree
  /\ UNCHANGED ticks
  /\ Dies(c, p, state)
  /\ UNCHANGED <<slice, killed, ctx, nap, inservice, time_slice>>

Reap(c, p, q) ==
  /\ pos[c] = "user" /\ proc[c] = p /\ ~killed[p] /\ LockFree
  /\ state[q] = "ZOMBIE"
  /\ state' = [state EXCEPT ![q] = "UNUSED"]
  /\ killed' = [killed EXCEPT ![q] = FALSE]
  /\ UNCHANGED <<slice, terminate_time, ctx, nap, cpuVars, ticks, time_slice>>

\* kill() of another process wakes it, whatever it sleeps on.
Kill(c, p, q) ==
  /\ pos[c] = "user" /\ proc[c] = p /\ ~killed[p] /\ LockFree
  /\ q \notin {p, initproc} /\ state[q] # "UNUSED" /\ ~killed[q]
  /\ killed' = [killed EXCEPT ![q] = TRUE]
  /\ state' = [state EXCEPT ![q] = IF @ = "SLEEPING" THEN "RUNNABLE" ELSE @]
  /\ UNCHANGED <<slice, terminate_time, ctx, nap, cpuVars, ticks, time_slice>>

-----------------------------------------------------------------------------
SchedulerStep(c) ==
  \/ StartPass(c) \/ EndPass(c)
  \/ \E p \in Procs : Switch(c, p) \/ TickResumes(c, p) \/ SleepOnTicks(c, p) \/ SleepTest(c, p)

Tick(c) ==
  \/ TickIdle(c)
  \/ \E p \in Procs : TickExpires(c, p) \/ TickYields(c, p)

UserStep(c) ==
  \E p \in Procs :
    \/ \E q \in Procs : Fork(c, p, q) \/ Reap(c, p, q) \/ Kill(c, p, q)
    \/ \E n \in SleepArgs : sys_sleep(c, p, n)
    \/ Exit(c, p)

Next == \E c \in Cpus : SchedulerStep(c) \/ Tick(c) \/ UserStep(c)

Spec == Init /\ [][Next]_vars

\* Every CPU keeps executing, and the timer is periodic (lapic.c:63-69): a tick
\* that can be delivered again and again is delivered.
FairSpec == Spec /\ \A c \in Cpus : WF_vars(SchedulerStep(c)) /\ SF_vars(Tick(c))

-----------------------------------------------------------------------------
(* Properties.                                                             *)

\* Every variable keeps its type; a CPU that executes a process has one.
TypeOK ==
  /\ state \in [Procs -> {"UNUSED", "SLEEPING", "RUNNABLE", "RUNNING", "ZOMBIE"}]
  /\ slice \in [Procs -> Nat]
  /\ terminate_time \in [Procs -> BOOLEAN]
  /\ ticks \in 0..TickMod - 1
  /\ killed \in [Procs -> BOOLEAN]
  /\ ctx \in [Procs -> {"user", "expired", "sleep"}]
  /\ nap \in [Procs -> [ticks0 : 0..TickMod - 1, n : 0..TickMod - 1, since : 0..TickMod - 1]]
  /\ pos \in [Cpus -> {"idle", "scan", "user", "expired", "doze", "sleep"}]
  /\ \A c \in Cpus : proc[c] \in Procs <=> pos[c] \notin {"idle", "scan"}

\* Doubling and resetting keep the slice a usable number: at least 2, and far
\* from overflow (proc.c:366-376).  No counter of a process runs away from it.
SliceInRange == /\ TypeOK
                /\ time_slice \in 2..2 * SliceLimit
                /\ \A p \in Procs : slice[p] < 2 * SliceLimit

\* The scheduler reports a termination only for a process that has just exited,
\* although slots and their terminate_time are reused (proc.c:94, 355).
ReportsOnlyExits ==
  [][\A c \in Cpus : terminated'[c] > terminated[c] => state'[proc[c]] = "ZOMBIE"]_vars

\* sleep(n) lasts n ticks and no longer than it must, also when ticks wraps around
\* in between: the loop ends only after n of them (a negative n counts as an
\* unsigned number), and no process is left asleep when its time is over
\* (sysproc.c:69-74, trap.c:53-54).
SleepsItsTicks ==
  \A p \in Procs :
    /\ ctx[p] = "sleep" /\ state[p] \in {"RUNNABLE", "RUNNING"} /\ Over(nap[p])
         => nap[p].since = nap[p].n
    /\ state[p] = "SLEEPING" => ~Over(nap[p])

\* Round robin: a runnable process gets a CPU, since the clock takes it from
\* the others ("Force process to give up CPU on clock tick", trap.c:110).
RunnableRuns == \A p \in Procs : state[p] = "RUNNABLE" ~> state[p] = "RUNNING"

=============================================================================
