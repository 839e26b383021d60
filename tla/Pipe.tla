-------------------------------- MODULE Pipe --------------------------------
(***************************************************************************)
(* A pipe (pipe.c) shared by processes that inherit its ends through       *)
(* fork(), close them, read, write, sleep, and may be killed.              *)
(*                                                                         *)
(* The pipe's lock is explicit, and so is the moment between a sleeper's   *)
(* last test and sleep(): kill() takes only ptable.lock and may fall into  *)
(* it.  sleep() releases the pipe's lock and sleeps as one step, because   *)
(* whoever wakes the channel holds the lock.  A woken process takes the    *)
(* lock again before it tests anything.                                    *)
(***************************************************************************)
EXTENDS Integers, Sequences, FiniteSets

CONSTANTS Procs,
          Bytes,
          PIPESIZE,
          UINT,      \* nread and nwrite count modulo UINT (2^32)
          Counts,    \* the n of read() and write() calls
          Killable,  \* processes that may be killed
          None       \* no process, no byte

ASSUME SizeAssumption == /\ PIPESIZE \in Nat \ {0} /\ Counts \subseteq Nat
                         /\ UINT \in Nat /\ UINT > PIPESIZE
                         /\ UINT % PIPESIZE = 0
ASSUME ProcsAssumption == /\ IsFiniteSet(Procs) /\ Killable \subseteq Procs /\ Bytes # {}
                          /\ None \notin Procs \cup Bytes /\ None \notin {"r", "w"}

VARIABLES lock,                 \* who holds p->lock
          data, nread, nwrite,
          readopen, writeopen,
          allocated,            \* the page of struct pipe is in use
          fd,                   \* per process: the ends it has open
          ref,                  \* per end: f->ref of its struct file
          pc, todo, killed,     \* per process: position, bytes to go, p->killed
          closing,              \* per process: the end pipeclose() is called for
          out                   \* the byte copied to a reader last

pipeVars == <<data, nread, nwrite, readopen, writeopen, allocated>>
fileVars == <<fd, ref>>
vars == <<pipeVars, fileVars, lock, pc, todo, killed, closing, out>>

Ends == {"r", "w"}

Init ==
  /\ lock = None
  /\ data = [i \in 0..PIPESIZE - 1 |-> CHOOSE b \in Bytes : TRUE]
  /\ nread = 0 /\ nwrite = 0
  /\ readopen = FALSE /\ writeopen = FALSE /\ allocated = FALSE
  /\ fd = [p \in Procs |-> {}]
  /\ ref = [e \in Ends |-> 0]
  /\ pc = [p \in Procs |-> "user"]
  /\ todo = [p \in Procs |-> 0]
  /\ killed = [p \in Procs |-> FALSE]
  /\ closing = [p \in Procs |-> None]
  /\ out = None

Empty == nread = nwrite

Full_OneMore == nwrite = (nread + PIPESIZE + 1) % UINT
Full  == nwrite = (nread + PIPESIZE) % UINT

ReaderWaits_Never == FALSE
ReaderWaits == Empty /\ writeopen

\* A counter's ++.
Incremented(n) == (n + 1) % UINT

Goto(p, l) == pc' = [pc EXCEPT ![p] = l]

ReadersWoken_Nobody(f) == f

\* wakeup(&p->nread) and wakeup(&p->nwrite): sleepers go on to take the lock.
ReadersWoken(f) == [p \in Procs |-> IF f[p] = "rchan" THEN "racq" ELSE f[p]]
WritersWoken(f) == [p \in Procs |-> IF f[p] = "wchan" THEN "wacq" ELSE f[p]]

-----------------------------------------------------------------------------
(* Descriptors.                                                            *)

pipealloc(p) ==
  /\ ~allocated /\ pc[p] = "user" /\ ~killed[p]
  /\ allocated' = TRUE
  /\ readopen' = TRUE /\ writeopen' = TRUE
  /\ nwrite' = 0 /\ nread' = 0
  /\ fd' = [fd EXCEPT ![p] = Ends]
  /\ ref' = [e \in Ends |-> 1]
  /\ UNCHANGED <<data, lock, pc, todo, killed, closing, out>>

\* fork() gives the child q the parent's files, filedup()ed; a killed process
\* does not come back.
Fork(p, q) ==
  /\ pc[p] = "user" /\ ~killed[p] /\ fd[p] # {}
  /\ pc[q] = "user" /\ fd[q] = {} /\ ~killed[q]
  /\ fd' = [fd EXCEPT ![q] = fd[p]]
  /\ ref' = [e \in Ends |-> IF e \in fd[p] THEN ref[e] + 1 ELSE ref[e]]
  /\ UNCHANGED <<pipeVars, lock, pc, todo, killed, closing, out>>

LastRef_Ignored(e) == TRUE
LastRef(e) == ref[e] = 1

\* close() or exit(): the last reference to a file goes on to pipeclose().
fileclose(p, e) ==
  /\ pc[p] = "user" /\ e \in fd[p]
  /\ fd' = [fd EXCEPT ![p] = fd[p] \ {e}]
  /\ ref' = [ref EXCEPT ![e] = ref[e] - 1]
  /\ IF LastRef(e)
     THEN Goto(p, "close") /\ closing' = [closing EXCEPT ![p] = e]
     ELSE UNCHANGED <<pc, closing>>
  /\ UNCHANGED <<pipeVars, lock, todo, killed, out>>

pipeclose(p) ==
  /\ pc[p] = "close" /\ lock = None
  /\ LET e == closing[p]
         done == [pc EXCEPT ![p] = "user"]
     IN  /\ writeopen' = (writeopen /\ e # "w")
         /\ readopen'  = (readopen /\ e # "r")
         /\ pc' = IF e = "w" THEN ReadersWoken(done) ELSE WritersWoken(done)
  /\ allocated' = (readopen' \/ writeopen')
  /\ closing' = [closing EXCEPT ![p] = None]
  /\ UNCHANGED <<data, nread, nwrite, fileVars, lock, todo, killed, out>>

-----------------------------------------------------------------------------
(* Reading and writing.                                                    *)

\* read() or write() of n bytes on an open end.
Call(p, e, n) ==
  /\ pc[p] = "user" /\ ~killed[p] /\ e \in fd[p]
  /\ Goto(p, IF e = "r" THEN "racq" ELSE "wacq")
  /\ todo' = [todo EXCEPT ![p] = n]
  /\ UNCHANGED <<pipeVars, fileVars, lock, killed, closing, out>>

Acquire(p) ==
  /\ pc[p] \in {"racq", "wacq"} /\ lock = None
  /\ lock' = p
  /\ Goto(p, IF pc[p] = "racq" THEN "rwait" ELSE "wloop")
  /\ UNCHANGED <<pipeVars, fileVars, todo, killed, closing, out>>

\* release() and return to user space.
Return(p, f) ==
  /\ lock' = None
  /\ pc' = [f EXCEPT ![p] = "user"]
  /\ todo' = [todo EXCEPT ![p] = 0]

\* sleep(): go off the lock and onto the channel.
Sleep(p) ==
  /\ pc[p] \in {"rsleep", "wsleep"}
  /\ lock' = None
  /\ Goto(p, IF pc[p] = "rsleep" THEN "rchan" ELSE "wchan")
  /\ UNCHANGED <<pipeVars, fileVars, todo, killed, closing, out>>

piperead_wait(p) ==
  /\ pc[p] = "rwait"
  /\ \/ ReaderWaits /\ killed[p] /\ Return(p, pc)
     \/ ReaderWaits /\ ~killed[p] /\ Goto(p, "rsleep") /\ UNCHANGED <<lock, todo>>
     \/ ~ReaderWaits /\ Goto(p, "rcopy") /\ UNCHANGED <<lock, todo>>
  /\ UNCHANGED <<pipeVars, fileVars, killed, closing, out>>

piperead_copy(p) ==
  /\ pc[p] = "rcopy" /\ todo[p] > 0 /\ ~Empty
  /\ out' = data[nread % PIPESIZE]
  /\ nread' = Incremented(nread)
  /\ todo' = [todo EXCEPT ![p] = todo[p] - 1]
  /\ UNCHANGED <<data, nwrite, readopen, writeopen, allocated, fileVars, lock, pc, killed, closing>>

piperead_return(p) ==
  /\ pc[p] = "rcopy" /\ (todo[p] = 0 \/ Empty)
  /\ Return(p, WritersWoken(pc))
  /\ UNCHANGED <<pipeVars, fileVars, killed, closing, out>>

pipewrite_full(p) ==
  /\ pc[p] = "wloop" /\ todo[p] > 0 /\ Full
  /\ \/ (~readopen \/ killed[p]) /\ Return(p, pc)
     \/ /\ readopen /\ ~killed[p]
        /\ pc' = ReadersWoken([pc EXCEPT ![p] = "wsleep"])
        /\ UNCHANGED <<lock, todo>>
  /\ UNCHANGED <<pipeVars, fileVars, killed, closing, out>>

pipewrite_put(p, b) ==
  /\ pc[p] = "wloop" /\ todo[p] > 0 /\ ~Full
  /\ data' = [data EXCEPT ![nwrite % PIPESIZE] = b]
  /\ nwrite' = Incremented(nwrite)
  /\ todo' = [todo EXCEPT ![p] = todo[p] - 1]
  /\ UNCHANGED <<nread, readopen, writeopen, allocated, fileVars, lock, pc, killed, closing, out>>

pipewrite_return(p) ==
  /\ pc[p] = "wloop" /\ todo[p] = 0
  /\ Return(p, ReadersWoken(pc))
  /\ UNCHANGED <<pipeVars, fileVars, killed, closing, out>>

\* kill() marks the process and wakes it if it sleeps.
kill(p) ==
  /\ p \in Killable /\ ~killed[p] /\ fd[p] # {}
  /\ killed' = [killed EXCEPT ![p] = TRUE]
  /\ pc' = IF pc[p] \in {"rchan", "wchan"}
           THEN [pc EXCEPT ![p] = IF pc[p] = "rchan" THEN "racq" ELSE "wacq"]
           ELSE pc
  /\ UNCHANGED <<pipeVars, fileVars, lock, todo, closing, out>>

-----------------------------------------------------------------------------
\* What a process inside the kernel does.
KernelStep(p) ==
  \/ Acquire(p) \/ Sleep(p) \/ pipeclose(p)
  \/ piperead_wait(p) \/ piperead_copy(p) \/ piperead_return(p)
  \/ pipewrite_full(p) \/ pipewrite_return(p) \/ \E b \in Bytes : pipewrite_put(p, b)

UserStep(p) ==
  \/ pipealloc(p) \/ \E q \in Procs : Fork(p, q)
  \/ \E e \in Ends : fileclose(p, e) \/ \E n \in Counts : Call(p, e, n)

Next == \E p \in Procs : KernelStep(p) \/ UserStep(p) \/ kill(p)

Spec == Init /\ [][Next]_vars

-----------------------------------------------------------------------------
(* Properties.                                                             *)

\* Every variable keeps its type.
TypeOK ==
  /\ lock \in Procs \cup {None} /\ out \in Bytes \cup {None}
  /\ data \in [0..PIPESIZE - 1 -> Bytes]
  /\ nread \in 0..UINT - 1 /\ nwrite \in 0..UINT - 1
  /\ readopen \in BOOLEAN /\ writeopen \in BOOLEAN /\ allocated \in BOOLEAN
  /\ fd \in [Procs -> SUBSET Ends] /\ ref \in [Ends -> Nat]
  /\ pc \in [Procs -> {"user", "racq", "rwait", "rsleep", "rchan", "rcopy",
                       "wacq", "wloop", "wsleep", "wchan", "close"}]
  /\ todo \in [Procs -> Nat] /\ killed \in [Procs -> BOOLEAN]
  /\ closing \in [Procs -> Ends \cup {None}]

Opened(e) == \E p \in Procs : e \in fd[p]

\* The pipe is a byte stream: nothing is lost, duplicated or reordered when the
\* counters wrap or writers interleave, and nothing is discarded while an end
\* is open (pipe.c:70-72, 85, 93, 114-116).
Contents == IF allocated
            THEN [i \in 1..(nwrite - nread) % UINT |-> data[(nread + i - 1) % PIPESIZE]]
            ELSE <<>>
Abstract == INSTANCE ByteStream WITH
              Capacity <- PIPESIZE, queue <- Contents, open <- {e \in Ends : Opened(e)}
StreamKept == Abstract!Spec

\* pipeclose() frees the page only when no process can still use the pipe: none
\* has an end open, none is inside a call, and each end is closed once
\* (pipe.c:70-72, file.c:61-74).
NoUseAfterFree ==
  TypeOK /\ (~allocated => \A p \in Procs : pc[p] = "user" /\ fd[p] = {})

\* A read() returns 0 only at the end of the stream: the pipe is empty and no
\* process can write to it any more (pipe.c:106, 114).
EofIsReal == [][\A p \in Procs : pc[p] = "rwait" /\ pc'[p] = "rcopy" /\ Empty
                                   => ~Opened("w")]_vars

\* A writer sleeps only while the pipe is full and somebody may still read it, a
\* reader only while it is empty and somebody may still write to it; in between,
\* the lock's holder has yet to wake them (pipe.c:65, 68, 85-95, 106-118).  Only a
\* killed writer, which leaves without a wakeup (pipe.c:86-89), may have left a
\* reader asleep on data.
SleepersHaveToWait ==
  /\ (\E p \in Procs : pc[p] = "wchan")
       => (Full /\ readopen) \/ (\E p \in Procs : lock = p /\ pc[p] = "rcopy")
  /\ (\E p \in Procs : pc[p] = "rchan")
       => \/ Empty /\ writeopen
          \/ \E p \in Procs : lock = p /\ pc[p] = "wloop"
          \/ writeopen /\ \E p \in Procs : killed[p]

=============================================================================
