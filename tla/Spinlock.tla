------------------------------ MODULE Spinlock ------------------------------
(***************************************************************************)
(* Spinlocks and the interrupt flag (spinlock.c) under the kernel paths    *)
(* that take one lock while holding another, hand ptable.lock over in      *)
(* sched(), or run in an interrupt handler.                                *)
(*                                                                         *)
(* A thread is a process or a CPU's scheduler; its stack holds the rest of *)
(* the path it is on and, above it, the rest of the interrupt handler that *)
(* suspended it.  A path is the sequence of lock operations of the code.   *)
(* Which process runs next is left open: a process that is not running may *)
(* be chosen at any time.                                                  *)
(***************************************************************************)
EXTENDS Integers, Sequences, FiniteSets

CONSTANTS Cpus, Procs,
          Calls,     \* the system calls to run, of those below
          Handlers,  \* the interrupt handlers to run, of those below
          None

Locks == {"ptable", "cons", "tickslock", "kmem"}
Threads == Procs \cup Cpus

Acq(l) == [do |-> "acquire", l |-> l]
Rel(l) == [do |-> "release", l |-> l]
Do(op) == [do |-> op, l |-> None]

-----------------------------------------------------------------------------
(* The paths.  What sys_sleep() and the clock do with tickslock, sleep on  *)
(* it and wake its sleepers, is also what is done with the lock of a pipe, *)
(* the log, the disk queue or a sleep lock.                                *)

SleepOn_KeepsLock(l) == <<Acq(l), Acq("ptable"), Do("sched"), Rel("ptable"), Rel(l)>>
SleepOn(l) == <<Acq(l), Acq("ptable"), Rel(l), Do("sched"), Rel("ptable"), Acq(l), Rel(l)>>
WakeFor_PtableFirst(l) == <<Acq("ptable"), Acq(l), Rel(l), Rel("ptable")>>
WakeFor(l) == <<Acq(l), Acq("ptable"), Rel("ptable"), Rel(l)>>
Printing   == <<Acq("cons"), Rel("cons")>>
Yielding   == <<Acq("ptable"), Do("sched"), Rel("ptable")>>

Path == [ consoleread |-> SleepOn("cons"),
          sys_sleep   |-> SleepOn("tickslock"),
          wait        |-> <<Acq("ptable"), Acq("kmem"), Rel("kmem"), Do("sched"), Rel("ptable")>>,
          exit        |-> <<Acq("ptable")>> \o Printing \o <<Do("exit")>> ]

Handler == [ timer |-> WakeFor("tickslock"),
             kbd   |-> WakeFor("cons") ]

\* A tick also makes the running process yield (trap.c:61, 114).
HandlerPath(h, inProcess) ==
  IF h = "timer" /\ inProcess THEN Handler[h] \o Yielding ELSE Handler[h]

Scheduling == <<Acq("ptable"), Do("pick"), Rel("ptable")>>
Forkret    == <<Rel("ptable"), Do("iret")>>

ASSUME PathAssumption == Calls \subseteq DOMAIN Path /\ Handlers \subseteq DOMAIN Handler
ASSUME NamesAssumption == None \notin Cpus \cup Procs /\ Cpus \cap Procs = {}

-----------------------------------------------------------------------------
VARIABLES owner,               \* per lock: the CPU that holds it, or None
          IF_, ncli, intena,   \* per CPU: interrupts enabled, cpu->ncli, cpu->intena
          cur,                 \* per CPU: the running process, or None: the scheduler
          stack,               \* per thread: frames, the innermost last
          saved,               \* per process: sched()'s local intena; None in a new process
          panic

cpuVars == <<IF_, ncli, intena>>
vars == <<owner, cpuVars, cur, stack, saved, panic>>

\* ops: what is left of the path; step: how far its acquire() is; eflags: FL_IF
\* as the pushcli() in it read the flag.
Frame(ops) == [ops |-> ops, step |-> "start", eflags |-> FALSE]

Init ==
  /\ owner = [l \in Locks |-> None]
  /\ IF_ = [c \in Cpus |-> FALSE]
  /\ ncli = [c \in Cpus |-> 0]
  /\ intena = [c \in Cpus |-> FALSE]
  /\ cur = [c \in Cpus |-> None]
  /\ stack = [t \in Threads |-> <<Frame(IF t \in Procs THEN Forkret ELSE <<>>)>>]
  /\ saved = [p \in Procs |-> None]
  /\ panic = FALSE

Thread(c) == IF cur[c] = None THEN c ELSE cur[c]
Top(t)    == stack[t][Len(stack[t])]
Ops(t)    == Top(t).ops
At(t, op) == Ops(t) # <<>> /\ Head(Ops(t)).do = op
Between(t) == Len(stack[t]) = 1 /\ Ops(t) = <<>>

\* The innermost frame becomes f; the thread is done with the first operation of it.
SetTop(t, f) == stack' = [stack EXCEPT ![t][Len(stack[t])] = f]
Advance(t)   == SetTop(t, Frame(Tail(Ops(t))))

Holding(c, l) == owner[l] = c

\* popcli() enables interrupts when the outermost pushcli() found them enabled.
Popcli(c) ==
  /\ ncli' = [ncli EXCEPT ![c] = ncli[c] - 1]
  /\ IF_'  = [IF_ EXCEPT ![c] = IF_[c] \/ (ncli[c] = 1 /\ intena[c])]

-----------------------------------------------------------------------------
(* acquire() and release().                                                *)

\* pushcli() reads the flags; an interrupt, even a migration, may follow.
pushcli_read(c) ==
  LET t == Thread(c) IN
  /\ At(t, "acquire") /\ Top(t).step = "start"
  /\ SetTop(t, [Top(t) EXCEPT !.step = "read", !.eflags = IF_[c]])
  /\ UNCHANGED <<owner, cpuVars, cur, saved, panic>>

\* cli() and the rest of pushcli(), then acquire()'s test.
pushcli_cli(c) ==
  LET t == Thread(c) IN
  /\ At(t, "acquire") /\ Top(t).step = "read"
  /\ IF_' = [IF_ EXCEPT ![c] = FALSE]
  /\ intena' = IF ncli[c] = 0 THEN [intena EXCEPT ![c] = Top(t).eflags] ELSE intena
  /\ ncli' = [ncli EXCEPT ![c] = ncli[c] + 1]
  /\ panic' = Holding(c, Head(Ops(t)).l)
  /\ SetTop(t, [Top(t) EXCEPT !.step = "spin", !.eflags = FALSE])
  /\ UNCHANGED <<owner, cur, saved>>

\* The xchg that finds the lock free.
acquire(c) ==
  LET t == Thread(c)  l == Head(Ops(t)).l IN
  /\ At(t, "acquire") /\ Top(t).step = "spin" /\ owner[l] = None
  /\ owner' = [owner EXCEPT ![l] = c]
  /\ Advance(t)
  /\ UNCHANGED <<cpuVars, cur, saved, panic>>

release(c) ==
  LET t == Thread(c)  l == Head(Ops(t)).l IN
  /\ At(t, "release")
  /\ panic' = (~Holding(c, l) \/ IF_[c] \/ ncli[c] < 1)
  /\ owner' = [owner EXCEPT ![l] = None]
  /\ Popcli(c)
  /\ Advance(t)
  /\ UNCHANGED <<intena, cur, saved>>

-----------------------------------------------------------------------------
(* Threads.                                                                *)

\* The scheduler's loop starts over with sti().
scheduler(c) ==
  /\ cur[c] = None /\ Between(c)
  /\ IF_' = [IF_ EXCEPT ![c] = TRUE]
  /\ stack' = [stack EXCEPT ![c] = <<Frame(Scheduling)>>]
  /\ UNCHANGED <<owner, ncli, intena, cur, saved, panic>>

Restored_Not(c, p) == intena

\* sched() puts the process's intena back; a new process has none.
Restored(c, p) == IF saved[p] = None THEN intena ELSE [intena EXCEPT ![c] = saved[p]]

\* swtch() to a process: sched() returns there, or a new process starts.
SwitchTo(c, p) ==
  /\ cur[c] = None /\ At(c, "pick")
  /\ \A d \in Cpus : cur[d] # p
  /\ cur' = [cur EXCEPT ![c] = p]
  /\ intena' = Restored(c, p)
  /\ saved' = [saved EXCEPT ![p] = None]
  /\ UNCHANGED <<owner, IF_, ncli, stack, panic>>

EndPass(c) ==
  /\ cur[c] = None /\ At(c, "pick")
  /\ Advance(c)
  /\ UNCHANGED <<owner, cpuVars, cur, saved, panic>>

SchedPanics(c) == ~Holding(c, "ptable") \/ ncli[c] # 1 \/ IF_[c]

sched(c) ==
  LET p == cur[c] IN
  /\ p # None /\ At(p, "sched")
  /\ panic' = SchedPanics(c)
  /\ saved' = [saved EXCEPT ![p] = intena[c]]
  /\ cur' = [cur EXCEPT ![c] = None]
  /\ Advance(p)
  /\ UNCHANGED <<owner, cpuVars>>

\* sched() from exit(): the scheduler prints the turnaround time, unless it
\* has done so in this pass; the process's slot is for a new process.
sched_exit(c) ==
  LET p == cur[c] IN
  /\ p # None /\ At(p, "exit")
  /\ panic' = SchedPanics(c)
  /\ cur' = [cur EXCEPT ![c] = None]
  /\ \E report \in {<<>>, Printing} :
       stack' = [stack EXCEPT ![p] = <<Frame(Forkret)>>, ![c] = <<Frame(report \o Ops(c))>>]
  /\ UNCHANGED <<owner, cpuVars, saved>>

\* Return to user space for the first time.
iret(c) ==
  LET t == Thread(c) IN
  /\ At(t, "iret")
  /\ IF_' = [IF_ EXCEPT ![c] = TRUE]
  /\ Advance(t)
  /\ UNCHANGED <<owner, ncli, intena, cur, saved, panic>>

Call(c, s) ==
  LET p == cur[c] IN
  /\ p # None /\ Between(p)
  /\ stack' = [stack EXCEPT ![p] = <<Frame(Path[s])>>]
  /\ UNCHANGED <<owner, cpuVars, cur, saved, panic>>

-----------------------------------------------------------------------------
(* Interrupts.  The gates clear FL_IF, iret restores it.                   *)

Interrupt(c, h) ==
  LET t == Thread(c) IN
  /\ IF_[c]
  /\ IF_' = [IF_ EXCEPT ![c] = FALSE]
  /\ stack' = [stack EXCEPT ![t] = Append(stack[t], Frame(HandlerPath(h, t \in Procs)))]
  /\ UNCHANGED <<owner, ncli, intena, cur, saved, panic>>

InterruptReturn(c) ==
  LET t == Thread(c)  n == Len(stack[t]) IN
  /\ n > 1 /\ Ops(t) = <<>>
  /\ IF_' = [IF_ EXCEPT ![c] = TRUE]
  /\ stack' = [stack EXCEPT ![t] = SubSeq(stack[t], 1, n - 1)]
  /\ UNCHANGED <<owner, ncli, intena, cur, saved, panic>>

-----------------------------------------------------------------------------
CpuStep(c) ==
  \/ pushcli_read(c) \/ pushcli_cli(c) \/ acquire(c) \/ release(c)
  \/ scheduler(c) \/ (\E p \in Procs : SwitchTo(c, p)) \/ EndPass(c)
  \/ sched(c) \/ sched_exit(c) \/ iret(c) \/ (\E s \in Calls : Call(c, s))
  \/ (\E h \in Handlers : Interrupt(c, h)) \/ InterruptReturn(c)

Next == ~panic /\ \E c \in Cpus : CpuStep(c)

Spec == Init /\ [][Next]_vars
-----------------------------------------------------------------------------
(* Properties.                                                             *)

\* Every variable keeps its type, and handlers do not nest.
TypeOK ==
  /\ owner \in [Locks -> Cpus \cup {None}] /\ cur \in [Cpus -> Procs \cup {None}]
  /\ IF_ \in [Cpus -> BOOLEAN] /\ intena \in [Cpus -> BOOLEAN] /\ ncli \in [Cpus -> 0..3]
  /\ saved \in [Procs -> BOOLEAN \cup {None}] /\ panic \in BOOLEAN
  /\ \A t \in Threads : Len(stack[t]) \in 1..2

\* None of the panics of acquire(), release(), popcli() and sched() is reached:
\* no CPU takes a lock twice, and sched() is entered with ptable.lock alone
\* (spinlock.c:28, 49, 119-122; proc.c:398-405).
NoPanic == TypeOK /\ ~panic

Spinning(c) == At(Thread(c), "acquire") /\ Top(Thread(c)).step = "spin"
Wanted(c)   == Head(Ops(Thread(c))).l

\* A CPU that holds or waits for a lock takes no interrupts, so that no handler
\* waits for the thread it interrupted (spinlock.c:27); and a process that is in
\* a system call and holds no lock runs with interrupts enabled, on whichever CPU
\* sched() returned (proc.c:406-408).
InterruptsFollowLocks ==
  \A c \in Cpus :
    LET p == cur[c] IN
    /\ ncli[c] > 0 => ~IF_[c]
    /\ p # None /\ ncli[c] = 0 /\ Len(stack[p]) = 1 /\ ~At(p, "iret") => IF_[c]

WaitsFor(c, d) == c # d /\ Spinning(c) /\ Holding(d, Wanted(c))

\* The console lock and ptable.lock are the only pair of locks that two CPUs
\* take in opposite orders (proc.c:271, 358; console.c:223), and Notes:77-80
\* has no cycle at all.
OnlyConsoleCycle ==
  \A c, d \in Cpus : WaitsFor(c, d) /\ WaitsFor(d, c)
                       => {Wanted(c), Wanted(d)} = {"cons", "ptable"}

=============================================================================
