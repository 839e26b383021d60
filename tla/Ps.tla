--------------------------------- MODULE Ps ---------------------------------
(***************************************************************************)
(* The process listings, sys_ps() and procdump() (proc.c:526-725), which   *)
(* walk the process table without its lock while processes come and go.    *)
(*                                                                         *)
(* What a row shows is left out: a listing is the set of slots it printed. *)
(* Of the table, state, pid and name are kept; how they change is Proc's   *)
(* matter and happens here one slot at a time, wait() in two steps because *)
(* a reader without the lock can see pid and name gone before the state.   *)
(***************************************************************************)
EXTENDS Integers, FiniteSets

CONSTANTS PsSlots,     \* NPROC
          PsPids,      \* pids are given up to this one
          PsNames,     \* names of programs
          NEAR,        \* how far from a missing pid sys_ps() looks (5)
          PsQueries    \* the arguments ps is called with, and "dump" for ^P

NoPid   == -1
NoState == "any"       \* -1
NoName  == "None"

ASSUME PsAssumption ==
  /\ {PsSlots, PsPids, NEAR} \subseteq Nat \ {0} /\ NoName \notin PsNames
  /\ \A q \in PsQueries : q.pid \in Int /\ q.pid # 0

VARIABLES tab,     \* the table
          nextpid,
          ps       \* the listing: pc, slot i, distance d, query, found, rows;
                   \* still: the slots nothing has changed in since it began

psVars == <<tab, nextpid, ps>>

Slots   == 1..PsSlots
NoProc  == [state |-> "UNUSED", pid |-> 0, name |-> ""]
NoQuery == [kind |-> "none", pid |-> NoPid, state |-> NoState, name |-> NoName]
NoList  == [pc |-> "idle", i |-> 1, d |-> 1, q |-> NoQuery, found |-> FALSE,
            rows |-> {}, still |-> {}]

PsInit ==
  /\ tab = [s \in Slots |-> IF s = 1 THEN [state |-> "RUNNABLE", pid |-> 1, name |-> "init"] ELSE NoProc]
  /\ nextpid = 2
  /\ ps = NoList

-----------------------------------------------------------------------------
(* Other processes.                                                        *)

Change(s, t) == /\ tab' = [tab EXCEPT ![s] = t]
                /\ ps' = [ps EXCEPT !.still = @ \ {s}]

PsAlloc(s) ==
  /\ tab[s].state = "UNUSED" /\ nextpid <= PsPids
  /\ Change(s, [tab[s] EXCEPT !.state = "EMBRYO", !.pid = nextpid])
  /\ nextpid' = nextpid + 1
PsMoves(s) ==
  /\ \/ \E n \in PsNames : tab[s].state = "EMBRYO" /\ Change(s, [tab[s] EXCEPT !.state = "RUNNABLE", !.name = n])
     \/ tab[s].state = "RUNNABLE" /\ Change(s, [tab[s] EXCEPT !.state = "SLEEPING"])
     \/ tab[s].state = "SLEEPING" /\ Change(s, [tab[s] EXCEPT !.state = "RUNNABLE"])
     \/ s # 1 /\ tab[s].state = "RUNNABLE" /\ Change(s, [tab[s] EXCEPT !.state = "ZOMBIE"])
     \/ tab[s].state = "ZOMBIE" /\ tab[s].pid # 0 /\ Change(s, [tab[s] EXCEPT !.pid = 0, !.name = ""])
     \/ tab[s].state = "ZOMBIE" /\ tab[s].pid = 0 /\ Change(s, NoProc)
  /\ UNCHANGED nextpid

-----------------------------------------------------------------------------
(* The listings.                                                           *)

PsCall(q) ==
  /\ ps.pc = "idle"
  /\ ps' = [NoList EXCEPT !.pc = "scan", !.q = q, !.still = Slots]
  /\ UNCHANGED <<tab, nextpid>>

\* What makes sys_ps() print a row: state, name, or no filter at all.
Selected(q, t) ==
  \/ q.state # NoState /\ t.state = q.state
  \/ q.name # NoName /\ t.name = q.name
  \/ q.state = NoState /\ q.pid = NoPid /\ q.name = NoName

\* The loop over the table; the pid asked for ends it.
Last_OffByOne(i) == i = PsSlots - 1
Last(i) == i = PsSlots
PsScan ==
  LET t == tab[ps.i]
      q == ps.q
      hit == Selected(q, t)
      l == [ps EXCEPT !.rows = IF hit THEN @ \cup {ps.i} ELSE @, !.found = @ \/ hit]
  IN  /\ ps.pc = "scan" /\ q.kind = "ps"
      /\ ps' = IF q.pid # NoPid /\ t.pid = q.pid
               THEN [ps EXCEPT !.rows = @ \cup {ps.i}, !.found = TRUE, !.pc = "done"]
               ELSE IF ~Last(ps.i) THEN [l EXCEPT !.i = @ + 1]
               ELSE IF l.found \/ q.pid = NoPid THEN [l EXCEPT !.pc = "done"]
               ELSE [l EXCEPT !.pc = "near", !.i = 1]
      /\ UNCHANGED <<tab, nextpid>>

Distance(q, t) == IF q.pid > t.pid THEN q.pid - t.pid ELSE t.pid - q.pid

\* The pid is not there: the processes one pid away, two away, and so on.
PsNear ==
  LET t == tab[ps.i]
  IN  /\ ps.pc = "near"
      /\ ps' = IF t.state # "UNUSED" /\ Distance(ps.q, t) = ps.d
               THEN [ps EXCEPT !.rows = {ps.i}, !.pc = "done"]
               ELSE IF ~Last(ps.i) THEN [ps EXCEPT !.i = @ + 1]
               ELSE IF ps.d < NEAR THEN [ps EXCEPT !.d = @ + 1, !.i = 1]
               ELSE [ps EXCEPT !.pc = "done"]
      /\ UNCHANGED <<tab, nextpid>>

procdump ==
  /\ ps.pc = "scan" /\ ps.q.kind = "dump"
  /\ LET l == IF tab[ps.i].state = "UNUSED" THEN ps ELSE [ps EXCEPT !.rows = @ \cup {ps.i}]
     IN  ps' = IF Last(ps.i) THEN [l EXCEPT !.pc = "done"] ELSE [l EXCEPT !.i = @ + 1]
  /\ UNCHANGED <<tab, nextpid>>

PsReturn ==
  /\ ps.pc = "done"
  /\ ps' = NoList
  /\ UNCHANGED <<tab, nextpid>>

PsNext == \/ \E s \in Slots : PsAlloc(s) \/ PsMoves(s)
          \/ \E q \in PsQueries : PsCall(q)
          \/ PsScan \/ PsNear \/ procdump \/ PsReturn

PsSpec == PsInit /\ [][PsNext]_psVars

-----------------------------------------------------------------------------
(* Properties.                                                             *)

\* Without the lock a listing may miss or misreport a process that changes while
\* it runs, but not one that does not: ^P lists just the processes, a listing by
\* state or name just those asked for, the pid asked for is listed if it is
\* there, and if it is not, no process that is there all the time is closer to it
\* than the one listed instead (proc.c:546-560, 615-722).
ListsTheUnchanged ==
  ps.pc = "done" =>
    \A s \in ps.still :
      LET t == tab[s]
          q == ps.q
          near == t.state # "UNUSED" /\ Distance(q, t) <= NEAR
      IN  /\ q.kind = "dump" => (s \in ps.rows <=> t.state # "UNUSED")
          /\ q.kind = "ps" /\ q.pid = NoPid => (s \in ps.rows <=> Selected(q, t))
          /\ q.kind = "ps" /\ q.pid # NoPid =>
               /\ t.pid = q.pid => s \in ps.rows
               /\ near => \E r \in Slots : r \in ps.rows /\ (r \in ps.still /\ ~Selected(q, tab[r]) =>
                                                  Distance(q, tab[r]) <= Distance(q, t))
=============================================================================
