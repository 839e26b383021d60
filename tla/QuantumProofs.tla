--------------------------- MODULE QuantumProofs ----------------------------
(***************************************************************************)
(* Time slices and naps, for any number of processes and CPUs, any limit   *)
(* of the slice and any range of ticks: the slice stays a usable number,   *)
(* sleep(n) ends after n ticks and not before, and the turnaround report   *)
(* is about processes that exited.                                         *)
(***************************************************************************)
EXTENDS Quantum, TLAPS

States == {"UNUSED", "SLEEPING", "RUNNABLE", "RUNNING", "ZOMBIE"}

CpuTypes == /\ proc \in [Cpus -> Procs \cup {None}]
            /\ terminated \in [Cpus -> {0, 1}]
            /\ inservice \in [Cpus -> BOOLEAN]

\* A CPU's process is RUNNING, and no other CPU's.
Executing ==
  /\ \A c \in Cpus : proc[c] \in Procs => state[proc[c]] = "RUNNING"
  /\ \A c, d \in Cpus : proc[c] \in Procs /\ proc[c] = proc[d] => c = d

\* terminate_time is left over in free slots only.
NotTerminated == \A p \in Procs : state[p] \notin {"UNUSED", "ZOMBIE"} => ~terminate_time[p]

\* While fewer than n ticks have passed, ticks - ticks0 counts them.
Counted(t) == t.since <= t.n /\ (t.since < t.n => (ticks - t.ticks0) % TickMod = t.since)
NapsCounted == \A p \in Procs : Counted(nap[p])

\* A process about to sleep, or asleep, has time left.
TimeLeft ==
  /\ \A c \in Cpus : pos[c] = "doze" => ~Over(nap[proc[c]])
  /\ \A p \in Procs : state[p] = "SLEEPING" => ~Over(nap[p])

QuantumInv ==
  /\ SliceInRange /\ CpuTypes /\ Executing /\ NotTerminated /\ NapsCounted /\ TimeLeft

-----------------------------------------------------------------------------
(* Ticks.                                                                  *)

LEMMA ModUnique ==
  ASSUME NEW m \in Nat \ {0}, NEW q \in Int, NEW s \in 0..m - 1 PROVE (m * q + s) % m = s
OBVIOUS

LEMMA TicksSince ==
  ASSUME NEW m \in Nat \ {0}, NEW a \in 0..m - 1, NEW b \in 0..m - 1
  PROVE  (b - a) % m = IF b >= a THEN b - a ELSE (b - a) + m
<1>1. CASE b >= a
  <2>1. b - a \in 0..m - 1 /\ m * 0 + (b - a) = b - a BY <1>1
  <2> QED BY <1>1, <2>1, (m * 0 + (b - a)) % m = b - a, ModUnique
<1>2. CASE ~(b >= a)
  <2>1. (b - a) + m \in 0..m - 1 /\ m * (-1) + ((b - a) + m) = b - a BY <1>2
  <2>2. (m * (-1) + ((b - a) + m)) % m = (b - a) + m BY <2>1, ModUnique
  <2> QED BY <1>2, <2>1, <2>2
<1> QED BY <1>1, <1>2

LEMMA NextTick ==
  ASSUME NEW m \in Nat \ {0}, NEW b \in 0..m - 1
  PROVE  (b + 1) % m = IF b + 1 < m THEN b + 1 ELSE 0
<1>1. CASE b + 1 < m
  <2>1. b + 1 \in 0..m - 1 /\ m * 0 + (b + 1) = b + 1 BY <1>1
  <2>2. (m * 0 + (b + 1)) % m = b + 1 BY <2>1, ModUnique
  <2> QED BY <1>1, <2>1, <2>2
<1>2. CASE ~(b + 1 < m)
  <2>1. 0 \in 0..m - 1 /\ m * 1 + 0 = b + 1 BY <1>2
  <2>2. (m * 1 + 0) % m = 0 BY <2>1, ModUnique
  <2> QED BY <1>2, <2>1, <2>2
<1> QED BY <1>1, <1>2

\* One more tick, short of a full turn, is one more tick since.
LEMMA OneMoreTick ==
  ASSUME NEW m \in Nat \ {0}, NEW a \in 0..m - 1, NEW b \in 0..m - 1, NEW s \in Nat,
         (b - a) % m = s, s + 1 < m
  PROVE  (b + 1) % m \in 0..m - 1 /\ (((b + 1) % m) - a) % m = s + 1
<1> DEFINE d == IF b + 1 < m THEN b + 1 ELSE 0
<1>1. (b + 1) % m = d /\ d \in 0..m - 1 BY NextTick
<1>2. (d - a) % m = IF d >= a THEN d - a ELSE (d - a) + m BY <1>1, TicksSince, Zenon
<1>3. s = IF b >= a THEN b - a ELSE (b - a) + m BY TicksSince
<1> QED BY <1>1, <1>2, <1>3

-----------------------------------------------------------------------------
(* What the steps have in common.                                          *)

LEMMA SameNaps ==
  ASSUME NapsCounted, UNCHANGED <<nap, ticks>> PROVE NapsCounted'
BY DEF NapsCounted, Counted

\* A tick of the first CPU finds nobody between the test and sleep(), and counts
\* for every nap that is not over.
LEMMA TickCounts ==
  ASSUME QuantumInv, NEW c \in Cpus, CountTick(c)
  PROVE  /\ NapsCounted'
         /\ ticks' \in 0..TickMod - 1
         /\ nap' \in [Procs -> [ticks0 : 0..TickMod - 1, n : 0..TickMod - 1, since : 0..TickMod - 1]]
         /\ c # 1 => UNCHANGED <<nap, ticks>>
         /\ c = 1 => \A d \in Cpus : pos[d] # "doze"
<1> USE DEF QuantumInv, SliceInRange, TypeOK
<1>1. TickMod \in Nat \ {0} BY TickAssumption
<1>2. CASE c # 1
  <2>1. UNCHANGED <<nap, ticks>> BY <1>2 DEF CountTick
  <2> QED BY <1>2, <2>1, SameNaps
<1>3. CASE c = 1
  <2>1. /\ ticks' = (ticks + 1) % TickMod
        /\ nap' = [p \in Procs |-> IF nap[p].n > nap[p].since THEN [nap[p] EXCEPT !.since = @ + 1]
                                   ELSE nap[p]]
        /\ TicksLockFree
    BY <1>3 DEF CountTick
  <2>2. ticks' \in 0..TickMod - 1 BY <1>1, <2>1
  <2>3. ASSUME NEW p \in Procs
        PROVE  /\ nap'[p] \in [ticks0 : 0..TickMod - 1, n : 0..TickMod - 1, since : 0..TickMod - 1]
               /\ Counted(nap[p])'
    <3>1. /\ nap[p].ticks0 \in 0..TickMod - 1 /\ nap[p].n \in 0..TickMod - 1
          /\ nap[p].since \in 0..TickMod - 1 /\ ticks \in 0..TickMod - 1
          /\ nap[p] \in [ticks0 : 0..TickMod - 1, n : 0..TickMod - 1, since : 0..TickMod - 1]
      OBVIOUS
    <3>2. Counted(nap[p]) BY DEF NapsCounted
    <3>3. CASE nap[p].n > nap[p].since
      <4>1. /\ nap'[p] = [nap[p] EXCEPT !.since = @ + 1]
            /\ nap'[p].ticks0 = nap[p].ticks0 /\ nap'[p].n = nap[p].n
            /\ nap'[p].since = nap[p].since + 1
        BY <2>1, <3>1, <3>3
      <4>2. nap[p].since + 1 < TickMod /\ nap[p].since + 1 \in 0..TickMod - 1 /\ nap[p].since + 1 <= nap[p].n
        BY <1>1, <3>1, <3>3
      <4>3. (ticks - nap[p].ticks0) % TickMod = nap[p].since BY <3>1, <3>2, <3>3 DEF Counted
      <4>4. (((ticks + 1) % TickMod) - nap[p].ticks0) % TickMod = nap[p].since + 1
        <5> DEFINE a == nap[p].ticks0
                   s == nap[p].since
        <5>1. /\ TickMod \in Nat \ {0} /\ a \in 0..TickMod - 1 /\ ticks \in 0..TickMod - 1
              /\ s \in Nat /\ (ticks - a) % TickMod = s /\ s + 1 < TickMod
          BY <1>1, <3>1, <4>2, <4>3
        <5> HIDE DEF a, s
        <5>2. (((ticks + 1) % TickMod) - a) % TickMod = s + 1 BY ONLY <5>1, OneMoreTick, Zenon
        <5> QED BY ONLY <5>2 DEF a, s
      <4>5. nap'[p] \in [ticks0 : 0..TickMod - 1, n : 0..TickMod - 1, since : 0..TickMod - 1]
        BY <3>1, <4>1, <4>2
      <4>6. (ticks' - nap'[p].ticks0) % TickMod = nap'[p].since BY <2>1, <4>1, <4>4
      <4> QED BY <4>1, <4>2, <4>5, <4>6 DEF Counted
    <3>4. CASE ~(nap[p].n > nap[p].since)
      BY <2>1, <3>1, <3>2, <3>4 DEF Counted
    <3> QED BY <3>3, <3>4
  <2>4. nap' \in [Procs -> [ticks0 : 0..TickMod - 1, n : 0..TickMod - 1, since : 0..TickMod - 1]]
    BY <2>1, <2>3
  <2> QED BY <1>3, <2>1, <2>2, <2>3, <2>4 DEF NapsCounted, TicksLockFree
<1> QED BY <1>2, <1>3

\* st is the table, but for sleepers that were woken.
WokenFrom(st) ==
  /\ st \in [Procs -> States]
  /\ \A q \in Procs : st[q] = state[q] \/ (state[q] = "SLEEPING" /\ st[q] = "RUNNABLE")

LEMMA AfterTickWakes ==
  ASSUME QuantumInv, NEW c
  PROVE  /\ WokenFrom(AfterTick(c)) /\ WokenFrom(state)
         /\ c = 1 => \A q \in Procs : AfterTick(c)[q] # "SLEEPING"
         /\ c # 1 => AfterTick(c) = state
BY DEF AfterTick, Woken, WokenFrom, QuantumInv, SliceInRange, TypeOK, States

LEMMA ComesBack ==
  ASSUME QuantumInv, NEW c \in Cpus, NEW p \in Procs, proc[c] = p,
         NEW st, WokenFrom(st), NEW s \in {"RUNNABLE", "ZOMBIE", "SLEEPING"}, NEW term \in BOOLEAN,
         BackToScheduler(c, p, st, s, term)
  PROVE  /\ state' \in [Procs -> States] /\ state'[p] = s
         /\ \A q \in Procs : q # p => state'[q] = st[q]
         /\ proc' \in [Cpus -> Procs \cup {None}]
         /\ terminated' \in [Cpus -> {0, 1}]
         /\ pos' \in [Cpus -> {"idle", "scan", "user", "expired", "doze", "sleep"}]
         /\ \A d \in Cpus : proc'[d] \in Procs <=> pos'[d] \notin {"idle", "scan"}
         /\ \A d \in Cpus : pos'[d] = "doze" => pos[d] = "doze" /\ proc'[d] = proc[d] /\ d # c
         /\ Executing'
         /\ \A d \in Cpus : terminated'[d] > terminated[d] => term /\ d = c
<1> USE DEF QuantumInv, SliceInRange, TypeOK, CpuTypes, States, WokenFrom
<1>1. None \notin Procs BY DEF None, Procs
<1>2. /\ state' = [st EXCEPT ![p] = s] /\ proc' = [proc EXCEPT ![c] = None]
      /\ pos' = [pos EXCEPT ![c] = "scan"]
      /\ terminated' = IF term /\ terminated[c] = 0 THEN [terminated EXCEPT ![c] = 1] ELSE terminated
  BY DEF BackToScheduler, Terminated
<1>3. /\ state' \in [Procs -> States] /\ state'[p] = s
      /\ \A q \in Procs : q # p => state'[q] = st[q]
  BY <1>2
<1>4. /\ proc' \in [Cpus -> Procs \cup {None}]
      /\ pos' \in [Cpus -> {"idle", "scan", "user", "expired", "doze", "sleep"}]
      /\ \A d \in Cpus : proc'[d] \in Procs <=> pos'[d] \notin {"idle", "scan"}
      /\ \A d \in Cpus : pos'[d] = "doze" => pos[d] = "doze" /\ proc'[d] = proc[d] /\ d # c
  BY <1>1, <1>2
<1>5. /\ terminated' \in [Cpus -> {0, 1}]
      /\ \A d \in Cpus : terminated'[d] > terminated[d] => term /\ d = c
  BY <1>2
<1>6. Executing' BY <1>1, <1>2, <1>3 DEF Executing
<1> QED BY <1>3, <1>4, <1>5, <1>6

\* The scheduler's report in this step, if any, is about a process that exits.
Reported == \A c \in Cpus : terminated'[c] > terminated[c] => state'[proc[c]] = "ZOMBIE"

\* Every step in which process p gives CPU c back.
LEMMA GivesBack ==
  ASSUME QuantumInv, NEW c \in Cpus, NEW p \in Procs, proc[c] = p,
         NEW st, WokenFrom(st), NEW s \in {"RUNNABLE", "ZOMBIE", "SLEEPING"}, NEW term \in BOOLEAN,
         BackToScheduler(c, p, st, s, term), term => s = "ZOMBIE",
         NapsCounted', ticks' \in 0..TickMod - 1,
         nap' \in [Procs -> [ticks0 : 0..TickMod - 1, n : 0..TickMod - 1, since : 0..TickMod - 1]],
         \/ UNCHANGED <<nap, ticks>>
         \/ (\A d \in Cpus : pos[d] # "doze") /\ \A q \in Procs : st[q] # "SLEEPING",
         s = "SLEEPING" => ~Over(nap[p]) /\ UNCHANGED <<nap, ticks>>,
         slice' \in [Procs -> Nat], \A q \in Procs : slice'[q] < 2 * SliceLimit,
         UNCHANGED <<killed, time_slice>>,
         ctx' \in [Procs -> {"user", "expired", "sleep"}], inservice' \in [Cpus -> BOOLEAN],
         terminate_time' \in [Procs -> BOOLEAN],
         \A q \in Procs : terminate_time'[q] = terminate_time[q] \/ (q = p /\ s = "ZOMBIE")
  PROVE  QuantumInv' /\ Reported
<1>1. /\ state' \in [Procs -> States] /\ state'[p] = s
      /\ \A q \in Procs : q # p => state'[q] = st[q]
      /\ proc' \in [Cpus -> Procs \cup {None}]
      /\ terminated' \in [Cpus -> {0, 1}]
      /\ pos' \in [Cpus -> {"idle", "scan", "user", "expired", "doze", "sleep"}]
      /\ \A d \in Cpus : proc'[d] \in Procs <=> pos'[d] \notin {"idle", "scan"}
      /\ \A d \in Cpus : pos'[d] = "doze" => pos[d] = "doze" /\ proc'[d] = proc[d] /\ d # c
      /\ Executing'
      /\ \A d \in Cpus : terminated'[d] > terminated[d] => term /\ d = c
  BY ComesBack
<1>3. TypeOK' BY <1>1 DEF QuantumInv, SliceInRange, TypeOK, States
<1>4. SliceInRange' BY <1>3 DEF QuantumInv, SliceInRange
<1>5. CpuTypes' BY <1>1 DEF CpuTypes
<1>6. NotTerminated'
  <2> SUFFICES ASSUME NEW q \in Procs, state'[q] \notin {"UNUSED", "ZOMBIE"}
               PROVE  ~terminate_time'[q]
    BY DEF NotTerminated
  <2>1. state[p] = "RUNNING" BY DEF QuantumInv, Executing
  <2>2. CASE q = p BY <1>1, <2>1, <2>2 DEF QuantumInv, NotTerminated
  <2>3. CASE q # p
    <3>1. state[q] \notin {"UNUSED", "ZOMBIE"} BY <1>1, <2>3 DEF WokenFrom
    <3>2. ~terminate_time[q] BY <3>1 DEF QuantumInv, NotTerminated
    <3> QED BY <2>3, <3>2
  <2> QED BY <2>2, <2>3
<1>7. TimeLeft'
  <2>1. ASSUME NEW d \in Cpus, pos'[d] = "doze" PROVE ~Over(nap[proc[d]])'
    BY <1>1, <2>1 DEF QuantumInv, TimeLeft, Over
  <2>2. ASSUME NEW q \in Procs, state'[q] = "SLEEPING" PROVE ~Over(nap[q])'
    BY <1>1, <2>2 DEF QuantumInv, TimeLeft, Over, WokenFrom
  <2> QED BY <2>1, <2>2 DEF TimeLeft
<1>8. Reported BY <1>1 DEF Reported
<1> QED BY <1>1, <1>4, <1>5, <1>6, <1>7, <1>8 DEF QuantumInv

\* Steps that leave the CPUs, the clock and the naps alone.
LEMMA QuietStep ==
  ASSUME QuantumInv, UNCHANGED <<cpuVars, ticks, time_slice, nap>>,
         state' \in [Procs -> States], slice' \in [Procs -> Nat],
         \A q \in Procs : slice'[q] < 2 * SliceLimit,
         killed' \in [Procs -> BOOLEAN], terminate_time' \in [Procs -> BOOLEAN],
         ctx' \in [Procs -> {"user", "expired", "sleep"}],
         \A q \in Procs : state[q] = "RUNNING" => state'[q] = "RUNNING",
         \A q \in Procs : state'[q] = "SLEEPING" => state[q] = "SLEEPING",
         NotTerminated'
  PROVE  QuantumInv' /\ Reported
<1> USE DEF QuantumInv, cpuVars
<1>1. SliceInRange' BY DEF SliceInRange, TypeOK, States
<1>2. CpuTypes' BY DEF CpuTypes
<1>3. Executing' BY DEF Executing
<1>4. NapsCounted' BY SameNaps
<1>5. TimeLeft' BY DEF TimeLeft, Over
<1>6. Reported BY DEF Reported, CpuTypes
<1> QED BY <1>1, <1>2, <1>3, <1>4, <1>5, <1>6

-----------------------------------------------------------------------------
(* The steps.                                                              *)

LEMMA InitQuantum == Init => QuantumInv
<1> SUFFICES ASSUME Init PROVE QuantumInv OBVIOUS
<1> USE SizeAssumption, SliceAssumption, TickAssumption DEF Init, Procs, None
<1>1. SliceInRange BY DEF SliceInRange, TypeOK, NoNap, initproc
<1>2. CpuTypes /\ Executing /\ NotTerminated BY DEF CpuTypes, Executing, NotTerminated
<1>3. NapsCounted BY DEF NapsCounted, Counted, NoNap
<1>4. TimeLeft BY DEF TimeLeft
<1> QED BY <1>1, <1>2, <1>3, <1>4 DEF QuantumInv

LEMMA TickIdleStep ==
  ASSUME QuantumInv, NEW c \in Cpus, TickIdle(c) PROVE QuantumInv' /\ Reported
<1>1. /\ CountTick(c) /\ state' = AfterTick(c)
      /\ UNCHANGED <<slice, terminate_time, killed, ctx, cpuVars, time_slice>>
  BY DEF TickIdle
<1>2. /\ NapsCounted' /\ ticks' \in 0..TickMod - 1
      /\ nap' \in [Procs -> [ticks0 : 0..TickMod - 1, n : 0..TickMod - 1, since : 0..TickMod - 1]]
      /\ c # 1 => UNCHANGED <<nap, ticks>>
      /\ c = 1 => \A d \in Cpus : pos[d] # "doze"
  BY <1>1, TickCounts
<1>3. /\ WokenFrom(AfterTick(c))
      /\ c = 1 => \A q \in Procs : AfterTick(c)[q] # "SLEEPING"
      /\ c # 1 => AfterTick(c) = state
  BY AfterTickWakes
<1> USE <1>1, <1>2, <1>3 DEF QuantumInv, cpuVars
<1>4. SliceInRange' BY DEF SliceInRange, TypeOK, States, WokenFrom
<1>5. CpuTypes' BY DEF CpuTypes
<1>6. Executing' BY DEF Executing, WokenFrom
<1>7. NotTerminated' BY DEF NotTerminated, WokenFrom
<1>8. TimeLeft' BY DEF TimeLeft, Over
<1>9. Reported BY DEF Reported, CpuTypes
<1> QED BY <1>4, <1>5, <1>6, <1>7, <1>8, <1>9

\* What a process on a CPU is known to be.
LEMMA OnCpu ==
  ASSUME QuantumInv, NEW c \in Cpus, NEW p \in Procs, proc[c] = p
  PROVE  /\ state[p] = "RUNNING" /\ terminate_time[p] = FALSE
         /\ killed[p] \in BOOLEAN /\ slice[p] \in Nat /\ SliceLimit \in Nat
<1>1. state[p] = "RUNNING" BY DEF QuantumInv, Executing
<1>2. ~terminate_time[p] BY <1>1 DEF QuantumInv, NotTerminated
<1>3. terminate_time \in [Procs -> BOOLEAN] /\ killed \in [Procs -> BOOLEAN] /\ slice \in [Procs -> Nat]
  BY DEF QuantumInv, SliceInRange, TypeOK
<1> QED BY <1>1, <1>2, <1>3, SliceAssumption

LEMMA DiesFlag ==
  ASSUME NEW c, NEW p, NEW st, Dies(c, p, st)
  PROVE  \E t \in BOOLEAN : /\ terminate_time' = [terminate_time EXCEPT ![p] = t]
                             /\ BackToScheduler(c, p, st, "ZOMBIE", t)
<1>1. CASE ticks' > 0
  <2>1. (ticks' > 0) = TRUE BY <1>1
  <2>2. /\ terminate_time' = [terminate_time EXCEPT ![p] = TRUE]
        /\ BackToScheduler(c, p, st, "ZOMBIE", TRUE)
    BY <2>1, Zenon DEF Dies
  <2> QED BY <2>2, Zenon
<1>2. CASE ~(ticks' > 0)
  <2>1. (ticks' > 0) = FALSE BY <1>2
  <2>2. /\ terminate_time' = [terminate_time EXCEPT ![p] = FALSE]
        /\ BackToScheduler(c, p, st, "ZOMBIE", FALSE)
    BY <2>1, Zenon DEF Dies
  <2> QED BY <2>2, Zenon
<1> QED BY <1>1, <1>2

\* The end of trap().
LEMMA TrapEndsStep ==
  ASSUME QuantumInv, NEW c \in Cpus, NEW p \in Procs, proc[c] = p,
         NEW st, WokenFrom(st), TrapEnds(c, p, st),
         NapsCounted', ticks' \in 0..TickMod - 1,
         nap' \in [Procs -> [ticks0 : 0..TickMod - 1, n : 0..TickMod - 1, since : 0..TickMod - 1]],
         \/ UNCHANGED <<nap, ticks>>
         \/ (\A d \in Cpus : pos[d] # "doze") /\ \A q \in Procs : st[q] # "SLEEPING",
         slice' \in [Procs -> Nat], \A q \in Procs : slice'[q] < 2 * SliceLimit,
         UNCHANGED <<killed, time_slice>>,
         ctx' \in [Procs -> {"user", "expired", "sleep"}], inservice' \in [Cpus -> BOOLEAN]
  PROVE  QuantumInv' /\ Reported
<1>1. terminate_time[p] = FALSE BY OnCpu, Zenon
<1>2. CASE Dies(c, p, st)
  <2>1. PICK t \in BOOLEAN : /\ terminate_time' = [terminate_time EXCEPT ![p] = t]
                             /\ BackToScheduler(c, p, st, "ZOMBIE", t)
    BY <1>2, DiesFlag
  <2>2. /\ terminate_time' \in [Procs -> BOOLEAN]
        /\ \A q \in Procs : terminate_time'[q] = terminate_time[q] \/ q = p
    BY <2>1 DEF QuantumInv, SliceInRange, TypeOK
  <2> QED BY <2>1, <2>2, GivesBack
<1>3. CASE BackToScheduler(c, p, st, "RUNNABLE", FALSE) /\ UNCHANGED terminate_time
  <2>1. terminate_time' \in [Procs -> BOOLEAN] BY <1>3 DEF QuantumInv, SliceInRange, TypeOK
  <2> QED BY <1>3, <2>1, GivesBack, Zenon
<1> QED BY <1>1, <1>2, <1>3, Zenon DEF TrapEnds

LEMMA TickExpiresStep ==
  ASSUME QuantumInv, NEW c \in Cpus, NEW p \in Procs, TickExpires(c, p)
  PROVE  QuantumInv' /\ Reported
<1>1. /\ proc[c] = p /\ CountTick(c) /\ slice' = [slice EXCEPT ![p] = 0]
      /\ inservice' = [inservice EXCEPT ![c] = TRUE] /\ ctx' = [ctx EXCEPT ![p] = "expired"]
      /\ BackToScheduler(c, p, AfterTick(c), "RUNNABLE", terminate_time[p])
      /\ UNCHANGED <<terminate_time, killed, time_slice>>
  BY DEF TickExpires
<1>2. /\ NapsCounted' /\ ticks' \in 0..TickMod - 1
      /\ nap' \in [Procs -> [ticks0 : 0..TickMod - 1, n : 0..TickMod - 1, since : 0..TickMod - 1]]
      /\ c # 1 => UNCHANGED <<nap, ticks>>
      /\ c = 1 => \A d \in Cpus : pos[d] # "doze"
  BY <1>1, TickCounts
<1>3. /\ WokenFrom(AfterTick(c))
      /\ c = 1 => \A q \in Procs : AfterTick(c)[q] # "SLEEPING"
  BY AfterTickWakes
<1>4. BackToScheduler(c, p, AfterTick(c), "RUNNABLE", FALSE) BY <1>1, OnCpu, Zenon
<1>5. slice' \in [Procs -> Nat] /\ \A q \in Procs : slice'[q] < 2 * SliceLimit
  BY <1>1, SliceAssumption DEF QuantumInv, SliceInRange, TypeOK
<1>6. ctx' \in [Procs -> {"user", "expired", "sleep"}] /\ inservice' \in [Cpus -> BOOLEAN]
  BY <1>1 DEF QuantumInv, SliceInRange, TypeOK, CpuTypes
<1>7. terminate_time' \in [Procs -> BOOLEAN] BY <1>1 DEF QuantumInv, SliceInRange, TypeOK
<1> QED BY <1>1, <1>2, <1>3, <1>4, <1>5, <1>6, <1>7, GivesBack, Zenon

LEMMA TickYieldsStep ==
  ASSUME QuantumInv, NEW c \in Cpus, NEW p \in Procs, TickYields(c, p)
  PROVE  QuantumInv' /\ Reported
<1>1. /\ proc[c] = p /\ CountTick(c) /\ slice[p] + 1 < time_slice
      /\ slice' = [slice EXCEPT ![p] = slice[p] + 1]
      /\ TrapEnds(c, p, AfterTick(c))
      /\ UNCHANGED <<killed, ctx, inservice, time_slice>>
  BY DEF TickYields
<1>2. /\ NapsCounted' /\ ticks' \in 0..TickMod - 1
      /\ nap' \in [Procs -> [ticks0 : 0..TickMod - 1, n : 0..TickMod - 1, since : 0..TickMod - 1]]
      /\ c # 1 => UNCHANGED <<nap, ticks>>
      /\ c = 1 => \A d \in Cpus : pos[d] # "doze"
  BY <1>1, TickCounts
<1>3. /\ WokenFrom(AfterTick(c))
      /\ c = 1 => \A q \in Procs : AfterTick(c)[q] # "SLEEPING"
  BY AfterTickWakes
<1>4. slice' \in [Procs -> Nat] /\ \A q \in Procs : slice'[q] < 2 * SliceLimit
  BY <1>1, SliceAssumption DEF QuantumInv, SliceInRange, TypeOK
<1>5. ctx' \in [Procs -> {"user", "expired", "sleep"}] /\ inservice' \in [Cpus -> BOOLEAN]
  BY <1>1 DEF QuantumInv, SliceInRange, TypeOK, CpuTypes
<1> QED BY <1>1, <1>2, <1>3, <1>4, <1>5, TrapEndsStep

\* A step of p that gives the CPU back without a tick.
LEMMA NoTick ==
  ASSUME QuantumInv, NEW c \in Cpus, UNCHANGED <<nap, ticks, slice>>
  PROVE  /\ NapsCounted' /\ ticks' \in 0..TickMod - 1
         /\ nap' \in [Procs -> [ticks0 : 0..TickMod - 1, n : 0..TickMod - 1, since : 0..TickMod - 1]]
         /\ slice' \in [Procs -> Nat] /\ \A q \in Procs : slice'[q] < 2 * SliceLimit
         /\ WokenFrom(state)
BY SameNaps, AfterTickWakes, Zenon DEF QuantumInv, SliceInRange, TypeOK

LEMMA TickResumesStep ==
  ASSUME QuantumInv, NEW c \in Cpus, NEW p \in Procs, TickResumes(c, p)
  PROVE  QuantumInv' /\ Reported
<1>1. /\ proc[c] = p /\ TrapEnds(c, p, state) /\ UNCHANGED <<nap, ticks, slice>>
      /\ UNCHANGED <<killed, time_slice>>
      /\ ctx' = [ctx EXCEPT ![p] = "user"] /\ inservice' = [inservice EXCEPT ![c] = FALSE]
  BY DEF TickResumes
<1>2. ctx' \in [Procs -> {"user", "expired", "sleep"}] /\ inservice' \in [Cpus -> BOOLEAN]
  BY <1>1 DEF QuantumInv, SliceInRange, TypeOK, CpuTypes
<1> QED BY <1>1, <1>2, NoTick, TrapEndsStep

LEMMA ExitStep ==
  ASSUME QuantumInv, NEW c \in Cpus, NEW p \in Procs, Exit(c, p)
  PROVE  QuantumInv' /\ Reported
<1>1. /\ proc[c] = p /\ UNCHANGED <<nap, ticks, slice>>
      /\ UNCHANGED <<killed, time_slice, ctx, inservice>> /\ Dies(c, p, state)
  BY DEF Exit
<1>2. PICK t \in BOOLEAN : /\ terminate_time' = [terminate_time EXCEPT ![p] = t]
                           /\ BackToScheduler(c, p, state, "ZOMBIE", t)
  BY <1>1, DiesFlag
<1>3. /\ terminate_time' \in [Procs -> BOOLEAN]
      /\ \A q \in Procs : terminate_time'[q] = terminate_time[q] \/ q = p
  BY <1>2 DEF QuantumInv, SliceInRange, TypeOK
<1>4. ctx' \in [Procs -> {"user", "expired", "sleep"}] /\ inservice' \in [Cpus -> BOOLEAN]
  BY <1>1 DEF QuantumInv, SliceInRange, TypeOK, CpuTypes
<1> QED BY <1>1, <1>2, <1>3, <1>4, NoTick, GivesBack

LEMMA SleepOnTicksStep ==
  ASSUME QuantumInv, NEW c \in Cpus, NEW p \in Procs, SleepOnTicks(c, p)
  PROVE  QuantumInv' /\ Reported
<1>1. /\ pos[c] = "doze" /\ proc[c] = p /\ UNCHANGED <<nap, ticks, slice>>
      /\ UNCHANGED <<killed, time_slice, inservice, terminate_time>>
      /\ ctx' = [ctx EXCEPT ![p] = "sleep"]
      /\ BackToScheduler(c, p, state, "SLEEPING", terminate_time[p])
  BY DEF SleepOnTicks
<1>2. ctx' \in [Procs -> {"user", "expired", "sleep"}] /\ inservice' \in [Cpus -> BOOLEAN]
  BY <1>1 DEF QuantumInv, SliceInRange, TypeOK, CpuTypes
<1>3. ~Over(nap[p]) BY <1>1 DEF QuantumInv, TimeLeft
<1>4. BackToScheduler(c, p, state, "SLEEPING", FALSE) BY <1>1, OnCpu, Zenon
<1>5. terminate_time' \in [Procs -> BOOLEAN] BY <1>1 DEF QuantumInv, SliceInRange, TypeOK
<1> QED BY <1>1, <1>2, <1>3, <1>4, <1>5, NoTick, GivesBack, Zenon

\* scheduler() goes on in its loop.
LEMMA PassStep ==
  ASSUME QuantumInv, NEW c \in Cpus, StartPass(c) \/ EndPass(c)
  PROVE  QuantumInv' /\ Reported
<1>1. UNCHANGED <<procVars, proc, inservice, ticks>>
  BY DEF StartPass, EndPass
<1>2. /\ pos[c] \in {"idle", "scan"}
      /\ \E l \in {"idle", "scan"} : pos' = [pos EXCEPT ![c] = l]
  BY DEF StartPass, EndPass
<1>3. terminated' = terminated \/ terminated' = [terminated EXCEPT ![c] = 0]
  BY DEF StartPass, EndPass
<1>4. time_slice' \in 2..2 * SliceLimit
  <2>1. time_slice \in 2..2 * SliceLimit BY DEF QuantumInv, SliceInRange
  <2>2. NextSlice(time_slice) \in 2..2 * SliceLimit BY <2>1, SliceAssumption DEF NextSlice
  <2> QED BY <2>1, <2>2 DEF StartPass, EndPass
<1> USE <1>1, <1>2 DEF QuantumInv, procVars
<1>5. SliceInRange' BY <1>4 DEF SliceInRange, TypeOK
<1>6. CpuTypes' BY <1>3 DEF CpuTypes
<1>7. Executing' /\ NotTerminated' BY DEF Executing, NotTerminated
<1>8. NapsCounted' BY SameNaps
<1>9. TimeLeft' BY DEF TimeLeft, Over, SliceInRange, TypeOK
<1>10. Reported BY <1>3 DEF Reported, CpuTypes
<1> QED BY <1>5, <1>6, <1>7, <1>8, <1>9, <1>10

LEMMA SwitchStep ==
  ASSUME QuantumInv, NEW c \in Cpus, NEW p \in Procs, Switch(c, p)
  PROVE  QuantumInv' /\ Reported
<1>1. /\ pos[c] = "scan" /\ state[p] = "RUNNABLE"
      /\ state' = [state EXCEPT ![p] = "RUNNING"] /\ proc' = [proc EXCEPT ![c] = p]
      /\ pos' = [pos EXCEPT ![c] = ctx[p]]
      /\ UNCHANGED <<slice, terminate_time, killed, ctx, nap, terminated, inservice, ticks, time_slice>>
  BY DEF Switch
<1>2. ctx[p] \in {"user", "expired", "sleep"} BY DEF QuantumInv, SliceInRange, TypeOK
<1> USE <1>1, <1>2 DEF QuantumInv
<1>3. SliceInRange' BY DEF SliceInRange, TypeOK, CpuTypes
<1>4. CpuTypes' BY DEF CpuTypes
<1>5. Executing' BY DEF Executing, CpuTypes, SliceInRange, TypeOK
<1>6. NotTerminated' BY DEF NotTerminated, SliceInRange, TypeOK
<1>7. NapsCounted' BY SameNaps
<1>8. TimeLeft' BY DEF TimeLeft, Over, SliceInRange, TypeOK, CpuTypes
<1>9. Reported BY DEF Reported, CpuTypes
<1> QED BY <1>3, <1>4, <1>5, <1>6, <1>7, <1>8, <1>9

\* p's nap begins or ends; the CPUs keep their processes.
LEMMA NapStep ==
  ASSUME QuantumInv, NEW c \in Cpus, NEW p \in Procs, proc[c] = p, pos[c] \notin {"idle", "scan"},
         NEW t \in [ticks0 : 0..TickMod - 1, n : 0..TickMod - 1, since : 0..TickMod - 1],
         Counted(t), nap' = [nap EXCEPT ![p] = t],
         NEW l \in {"user", "doze"}, l = "doze" => ~Over(t),
         pos' = [pos EXCEPT ![c] = l],
         ctx' \in [Procs -> {"user", "expired", "sleep"}],
         UNCHANGED <<state, slice, terminate_time, killed, proc, terminated, inservice, ticks, time_slice>>
  PROVE  QuantumInv' /\ Reported
<1> USE DEF QuantumInv
<1>1. SliceInRange' BY ZenonT(30) DEF SliceInRange, TypeOK
<1>2. CpuTypes' /\ Executing' /\ NotTerminated' BY DEF CpuTypes, Executing, NotTerminated
<1>3. NapsCounted' BY DEF NapsCounted, Counted, SliceInRange, TypeOK
<1>4. nap \in [Procs -> [ticks0 : 0..TickMod - 1, n : 0..TickMod - 1, since : 0..TickMod - 1]]
  BY DEF SliceInRange, TypeOK
<1>5. \A d \in Cpus : pos[d] = "doze" => proc[d] \in Procs BY DEF SliceInRange, TypeOK
<1>6. \A d \in Cpus : d # c /\ proc[d] \in Procs => proc[d] # p BY DEF Executing
<1>7. ASSUME NEW d \in Cpus, pos'[d] = "doze" PROVE ~Over(nap[proc[d]])'
  <2>1. CASE d = c BY <1>4, <1>7, <2>1 DEF Over, SliceInRange, TypeOK
  <2>2. CASE d # c BY <1>4, <1>5, <1>6, <1>7, <2>2 DEF Over, TimeLeft, SliceInRange, TypeOK
  <2> QED BY <2>1, <2>2
<1>8. ASSUME NEW q \in Procs, state'[q] = "SLEEPING" PROVE ~Over(nap[q])'
  <2>1. q # p BY <1>8 DEF Executing
  <2> QED BY <1>4, <1>8, <2>1 DEF Over, TimeLeft
<1>9. TimeLeft' BY <1>7, <1>8 DEF TimeLeft
<1>10. Reported BY DEF Reported, CpuTypes
<1> QED BY <1>1, <1>2, <1>3, <1>9, <1>10

LEMMA SysSleepStep ==
  ASSUME QuantumInv, NEW c \in Cpus, NEW p \in Procs, NEW n \in SleepArgs, sys_sleep(c, p, n)
  PROVE  QuantumInv' /\ Reported
<1> DEFINE t == [ticks0 |-> ticks, n |-> n, since |-> 0]
<1>1. /\ pos[c] = "user" /\ proc[c] = p /\ nap' = [nap EXCEPT ![p] = t]
      /\ pos' = [pos EXCEPT ![c] = "doze"]
      /\ UNCHANGED <<state, slice, terminate_time, killed, ctx, proc, terminated, inservice, ticks,
                     time_slice>>
  BY Zenon DEF sys_sleep
<1>2. TickMod \in Nat \ {0} /\ ticks \in 0..TickMod - 1 /\ n \in 1..TickMod - 1
  BY TickAssumption DEF QuantumInv, SliceInRange, TypeOK
<1>3. (ticks - ticks) % TickMod = 0 BY <1>2, TicksSince
<1>4. t \in [ticks0 : 0..TickMod - 1, n : 0..TickMod - 1, since : 0..TickMod - 1] BY <1>2
<1>5. Counted(t) /\ ~Over(t) BY <1>2, <1>3 DEF Counted, Over
<1>6. ctx' \in [Procs -> {"user", "expired", "sleep"}] BY <1>1 DEF QuantumInv, SliceInRange, TypeOK
<1> HIDE DEF t
<1> QED BY <1>1, <1>4, <1>5, <1>6, NapStep, Zenon

LEMMA SleepTestStep ==
  ASSUME QuantumInv, NEW c \in Cpus, NEW p \in Procs, SleepTest(c, p)
  PROVE  QuantumInv' /\ Reported
<1>1. /\ pos[c] = "sleep" /\ proc[c] = p
      /\ UNCHANGED <<state, slice, terminate_time, killed, proc, terminated, inservice, ticks, time_slice>>
  BY DEF SleepTest
<1>2. /\ TickMod \in Nat \ {0} /\ ticks \in 0..TickMod - 1
      /\ nap \in [Procs -> [ticks0 : 0..TickMod - 1, n : 0..TickMod - 1, since : 0..TickMod - 1]]
      /\ ctx \in [Procs -> {"user", "expired", "sleep"}]
  BY TickAssumption DEF QuantumInv, SliceInRange, TypeOK
<1>3. CASE ~Over(nap[p]) /\ pos' = [pos EXCEPT ![c] = "doze"] /\ UNCHANGED <<ctx, nap>>
  <2>1. nap' = [nap EXCEPT ![p] = nap[p]] BY <1>2, <1>3
  <2>2. Counted(nap[p]) BY DEF QuantumInv, NapsCounted
  <2> QED BY <1>1, <1>2, <1>3, <2>1, <2>2, NapStep, Zenon
<1>4. CASE /\ pos' = [pos EXCEPT ![c] = "user"] /\ ctx' = [ctx EXCEPT ![p] = "user"]
           /\ nap' = [nap EXCEPT ![p] = NoNap]
  <2>1. NoNap \in [ticks0 : 0..TickMod - 1, n : 0..TickMod - 1, since : 0..TickMod - 1] /\ Counted(NoNap)
    BY <1>2 DEF NoNap, Counted
  <2>2. ctx' \in [Procs -> {"user", "expired", "sleep"}] BY <1>2, <1>4
  <2> QED BY <1>1, <1>4, <2>1, <2>2, NapStep, Zenon
<1> QED BY <1>3, <1>4 DEF SleepTest

LEMMA ForkStep ==
  ASSUME QuantumInv, NEW c \in Cpus, NEW p \in Procs, NEW q \in Procs, Fork(c, p, q)
  PROVE  QuantumInv' /\ Reported
<1>1. /\ state[q] = "UNUSED" /\ state' = [state EXCEPT ![q] = "RUNNABLE"]
      /\ slice' = [slice EXCEPT ![q] = 0] /\ terminate_time' = [terminate_time EXCEPT ![q] = FALSE]
      /\ ctx' = [ctx EXCEPT ![q] = "user"]
      /\ UNCHANGED <<killed, nap, cpuVars, ticks, time_slice>>
  BY DEF Fork
<1>2. /\ state \in [Procs -> States] /\ slice \in [Procs -> Nat] /\ terminate_time \in [Procs -> BOOLEAN]
      /\ ctx \in [Procs -> {"user", "expired", "sleep"}] /\ killed \in [Procs -> BOOLEAN]
      /\ \A r \in Procs : slice[r] < 2 * SliceLimit
  BY DEF QuantumInv, SliceInRange, TypeOK, States
<1>3. NotTerminated' BY <1>1, <1>2 DEF QuantumInv, NotTerminated
<1>4. \A r \in Procs : slice'[r] < 2 * SliceLimit BY <1>1, <1>2, SliceAssumption
<1>5. /\ state' \in [Procs -> States] /\ slice' \in [Procs -> Nat] /\ terminate_time' \in [Procs -> BOOLEAN]
      /\ ctx' \in [Procs -> {"user", "expired", "sleep"}] /\ killed' \in [Procs -> BOOLEAN]
  BY <1>1, <1>2 DEF States
<1>6. /\ \A r \in Procs : state[r] = "RUNNING" => state'[r] = "RUNNING"
      /\ \A r \in Procs : state'[r] = "SLEEPING" => state[r] = "SLEEPING"
  BY <1>1, <1>2
<1> QED BY <1>1, <1>3, <1>4, <1>5, <1>6, QuietStep

\* wait() and kill().
LEMMA ReapKillStep ==
  ASSUME QuantumInv, NEW c \in Cpus, NEW p \in Procs, NEW q \in Procs, Reap(c, p, q) \/ Kill(c, p, q)
  PROVE  QuantumInv' /\ Reported
<1>1. /\ \/ state[q] = "ZOMBIE" /\ state' = [state EXCEPT ![q] = "UNUSED"]
         \/ state[q] = "SLEEPING" /\ state' = [state EXCEPT ![q] = "RUNNABLE"]
         \/ state' = [state EXCEPT ![q] = state[q]]
      /\ \E b \in BOOLEAN : killed' = [killed EXCEPT ![q] = b]
      /\ UNCHANGED <<slice, terminate_time, ctx, nap, cpuVars, ticks, time_slice>>
  BY ZenonT(30) DEF Reap, Kill
<1>2. /\ state \in [Procs -> States] /\ slice \in [Procs -> Nat] /\ terminate_time \in [Procs -> BOOLEAN]
      /\ ctx \in [Procs -> {"user", "expired", "sleep"}] /\ killed \in [Procs -> BOOLEAN]
      /\ \A r \in Procs : slice[r] < 2 * SliceLimit
  BY DEF QuantumInv, SliceInRange, TypeOK, States
<1>3. NotTerminated' BY <1>1, <1>2 DEF QuantumInv, NotTerminated
<1>4. state' \in [Procs -> States] /\ killed' \in [Procs -> BOOLEAN] BY <1>1, <1>2 DEF States
<1>5. /\ \A r \in Procs : state[r] = "RUNNING" => state'[r] = "RUNNING"
      /\ \A r \in Procs : state'[r] = "SLEEPING" => state[r] = "SLEEPING"
  BY <1>1, <1>2
<1> QED BY <1>1, <1>2, <1>3, <1>4, <1>5, QuietStep

LEMMA QuantumStep == QuantumInv /\ [Next]_vars => QuantumInv' /\ (Reported \/ UNCHANGED vars)
<1> SUFFICES ASSUME QuantumInv, [Next]_vars PROVE QuantumInv' /\ (Reported \/ UNCHANGED vars)
  OBVIOUS
<1>1. CASE UNCHANGED vars
  <2> USE <1>1 DEF vars, procVars, cpuVars, QuantumInv
  <2>1. SliceInRange' BY DEF SliceInRange, TypeOK
  <2>2. CpuTypes' /\ Executing' /\ NotTerminated' BY DEF CpuTypes, Executing, NotTerminated
  <2>3. NapsCounted' BY SameNaps
  <2>4. TimeLeft' BY DEF TimeLeft, Over
  <2> QED BY <2>1, <2>2, <2>3, <2>4
<1>2. ASSUME NEW c \in Cpus, SchedulerStep(c) PROVE QuantumInv' /\ Reported
  BY <1>2, PassStep, SwitchStep, TickResumesStep, SleepOnTicksStep, SleepTestStep DEF SchedulerStep
<1>3. ASSUME NEW c \in Cpus, Tick(c) PROVE QuantumInv' /\ Reported
  BY <1>3, TickIdleStep, TickExpiresStep, TickYieldsStep DEF Tick
<1>4. ASSUME NEW c \in Cpus, UserStep(c) PROVE QuantumInv' /\ Reported
  BY <1>4, ForkStep, ReapKillStep, SysSleepStep, ExitStep DEF UserStep
<1> QED BY <1>1, <1>2, <1>3, <1>4 DEF Next

-----------------------------------------------------------------------------
LEMMA QuantumInvariant == Spec => []QuantumInv
BY InitQuantum, QuantumStep, PTL DEF Spec

\* time_slice stays within 2 and twice the limit, and no process's counter
\* passes it, after any number of passes and terminations (proc.c:366-376).
THEOREM SliceInRangeCorrect == Spec => []SliceInRange
<1>1. QuantumInv => SliceInRange BY DEF QuantumInv
<1> QED BY <1>1, QuantumInvariant, PTL

\* sleep(n) ends once n ticks have passed and not before, and nobody whose time
\* is over is asleep, for every range that ticks wraps around in
\* (sysproc.c:69-74, trap.c:53-54).
THEOREM SleepsItsTicksCorrect == Spec => []SleepsItsTicks
<1>1. QuantumInv => SleepsItsTicks
  <2> SUFFICES ASSUME QuantumInv, NEW p \in Procs
               PROVE  /\ Over(nap[p]) => nap[p].since = nap[p].n
                      /\ state[p] = "SLEEPING" => ~Over(nap[p])
    BY DEF SleepsItsTicks
  <2>1. nap[p].since \in Int /\ nap[p].n \in Int BY DEF QuantumInv, SliceInRange, TypeOK
  <2>2. Counted(nap[p]) BY DEF QuantumInv, NapsCounted
  <2> QED BY <2>1, <2>2 DEF Counted, Over, QuantumInv, TimeLeft
<1> QED BY <1>1, QuantumInvariant, PTL

\* The scheduler's turnaround report is about a process that exits in that very
\* step, however often slots and their terminate_time are used (proc.c:94, 355).
THEOREM ReportsOnlyExitsCorrect == Spec => ReportsOnlyExits
<1>1. QuantumInv /\ [Next]_vars =>
        [\A c \in Cpus : terminated'[c] > terminated[c] => state'[proc[c]] = "ZOMBIE"]_vars
  BY QuantumStep DEF Reported
<1> QED BY <1>1, QuantumInvariant, PTL DEF Spec, ReportsOnlyExits
=============================================================================
