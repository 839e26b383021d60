------------------------------- MODULE Shell --------------------------------
(***************************************************************************)
(* The shell at work (sh.c:57-190): init starts it, it reads lines, and    *)
(* each command it forks wires its own descriptors and waits for others,   *)
(* on top of the open-file table (file.c), the descriptors of processes    *)
(* (sysfile.c), fork(), exit() and wait().  A system call is one step:     *)
(* what goes on inside pipes, processes and files is Pipe's, Proc's and    *)
(* Inode's matter.  A pipe is the number of items in it.                   *)
(*                                                                         *)
(* A process is the list of calls it has still to make.  runcmd() never    *)
(* returns, so "run" is always the last of a list and is replaced by the   *)
(* calls of its command.  The programs run are not sh's: "gen" writes two  *)
(* items, "cat" copies its input, any other word cannot be exec()ed.       *)
(* cd changes only the directory of the shell and is left out.             *)
(***************************************************************************)
EXTENDS ShellParse, Integers, FiniteSets, FiniteSetsExt

CONSTANTS NPROC, NOFILE, NFILE,
          NPIPE,      \* pages for pipes
          PIPESIZE,   \* items a pipe holds
          Typed,      \* the lines the user types
          Alone       \* those typed only when there is no job in the background

None     == 0
Procs    == 1..NPROC
initproc == 1
Fds      == 0..NOFILE - 1
FTable   == 1..NFILE
console  == 1        \* the file init opened

ASSUME ShellAssumption == /\ {NPROC, NFILE, PIPESIZE} \subseteq Nat \ {0} /\ NPIPE \in Nat
                          /\ NOFILE \in Nat /\ NOFILE >= 3

VARIABLES task,    \* processes: state, parent, calls to make, descriptors, p[2]; and
                   \* what descriptors 0 and 1 should be by the command it runs
          ftable,  \* open files: ref, type ("r" and "w": the ends of a pipe), pipe
          pipes,   \* pipes: items in it, readopen, writeopen
          sh       \* the shell's process

shellVars == <<task, ftable, pipes, sh>>

Call(op, n, c) == [op |-> op, n |-> n, cmd |-> c]
NoCmd   == [type |-> "none"]
Exit    == Call("exit", 0, NoCmd)
Wait    == Call("wait", 0, NoCmd)
Prompt  == Call("prompt", 0, NoCmd)
Run(c)  == Call("run", 0, c)

NoFds   == [d \in Fds |-> None]
StdFds  == [d \in Fds |-> IF d <= 2 THEN console ELSE None]
Unused  == [st |-> "UNUSED", parent |-> None, todo |-> <<>>, fd |-> NoFds,
            p |-> <<None, None>>, want |-> <<None, None>>]
Closed  == [ref |-> 0, type |-> "none", pipe |-> None]
Free    == [n |-> 0, readopen |-> FALSE, writeopen |-> FALSE]

\* init has opened the console, duplicated it twice and started a shell.  What sh
\* opens to make sure of its three descriptors, it closes again.
ShellInit ==
  /\ sh = 2
  /\ task = [p \in Procs |->
       IF p = initproc THEN [Unused EXCEPT !.st = "RUN", !.fd = StdFds]
       ELSE IF p = sh THEN [Unused EXCEPT !.st = "RUN", !.parent = initproc, !.todo = <<Prompt>>,
                                          !.fd = StdFds, !.want = <<console, console>>]
       ELSE Unused]
  /\ ftable = [f \in FTable |-> IF f = console THEN [Closed EXCEPT !.ref = 6, !.type = "console"] ELSE Closed]
  /\ pipes = [k \in 1..NPIPE |-> Free]

-----------------------------------------------------------------------------
(* runcmd(): the calls a command makes.  A fork's n is the descriptor that *)
(* the child connects to the pipe, or -1.                                  *)

Fork(n, c) == Call("fork", n, c)

PipeCode_LeaksWriteEnd(left, right) ==
  <<Call("pipe", 0, NoCmd), Fork(1, left), Fork(0, right),
    Call("closep", 0, NoCmd), Wait, Wait, Exit>>
PipeCode(left, right) ==
  <<Call("pipe", 0, NoCmd), Fork(1, left), Fork(0, right),
    Call("closep", 0, NoCmd), Call("closep", 1, NoCmd), Wait, Wait, Exit>>

Code(c) ==
  CASE c.type = "none"  -> <<Exit>>
    [] c.type = "EXEC"  -> IF c.argv = <<>> THEN <<Exit>> ELSE <<Call("exec", 0, c), Exit>>
    [] c.type = "REDIR" -> <<Call("close", c.fd, NoCmd), Call("open", c.fd, NoCmd), Run(c.cmd)>>
    [] c.type = "LIST"  -> <<Fork(-1, c.left), Wait, Run(c.right)>>
    [] c.type = "PIPE"  -> PipeCode(c.left, c.right)
    [] c.type = "BACK"  -> <<Fork(-1, c.cmd), Exit>>

ChildCode_KeepsEnd(n, c) ==
  IF n = -1 THEN <<Run(c)>>
  ELSE <<Call("close", n, NoCmd), Call("dupp", n, NoCmd), Call("closep", 1 - n, NoCmd), Run(c)>>
ChildCode(n, c) ==
  IF n = -1 THEN <<Run(c)>>
  ELSE <<Call("close", n, NoCmd), Call("dupp", n, NoCmd),
         Call("closep", 0, NoCmd), Call("closep", 1, NoCmd), Run(c)>>

Program(word) == CASE word = "gen" -> <<Call("write", 0, NoCmd), Call("write", 0, NoCmd), Exit>>
                   [] word = "cat" -> <<Call("read", 0, NoCmd), Exit>>
Programs == {"gen", "cat"}

\* runcmd() of the last call.
Unrolled(todo) == IF Head(todo).op = "run" THEN Code(Head(todo).cmd) ELSE todo

-----------------------------------------------------------------------------
(* Process p's next call is op; afterwards it goes on with calls t.        *)

Next1(p, op) == task[p].st = "RUN" /\ task[p].todo # <<>> /\ Head(task[p].todo).op = op
Arg(p)  == Head(task[p].todo).n
Rest(p) == Unrolled(Tail(task[p].todo))
Then(p, t) == [task[p] EXCEPT !.todo = t]

\* filealloc(), pipealloc()'s page, fdalloc(), allocproc(): the first free one.
FreeFiles == {f \in FTable : ftable[f].ref = 0}
FreePipes == {k \in 1..NPIPE : ~pipes[k].readopen /\ ~pipes[k].writeopen}
FreeProcs == {q \in Procs : task[q].st = "UNUSED"}
FreeFds(p) == {d \in Fds : task[p].fd[d] = None}

\* fileclose(f), with pipeclose() after the last reference.
fileclose(f) ==
  /\ ftable' = [ftable EXCEPT ![f] = IF @.ref = 1 THEN Closed ELSE [@ EXCEPT !.ref = @ - 1]]
  /\ pipes' = IF ftable[f].ref > 1 \/ ftable[f].pipe = None THEN pipes
              ELSE [pipes EXCEPT ![ftable[f].pipe] =
                      LET k == IF ftable[f].type = "r" THEN [@ EXCEPT !.readopen = FALSE]
                               ELSE [@ EXCEPT !.writeopen = FALSE]
                      IN  IF k.readopen \/ k.writeopen THEN k ELSE Free]

sys_close(p, d, t) ==
  /\ task' = [task EXCEPT ![p] = [Then(p, t) EXCEPT !.fd[d] = None]]
  /\ IF task[p].fd[d] = None THEN UNCHANGED <<ftable, pipes>> ELSE fileclose(task[p].fd[d])
  /\ UNCHANGED sh

Closes(p) ==
  \/ Next1(p, "close") /\ sys_close(p, Arg(p), Rest(p))
  \/ Next1(p, "closep") /\ sys_close(p, task[p].p[Arg(p) + 1], Rest(p))

\* dup(p[n]); sh does not look at what it returns.
Dups(p) ==
  LET f == task[p].fd[task[p].p[Arg(p) + 1]]
  IN  /\ Next1(p, "dupp")
      /\ IF FreeFds(p) = {} THEN task' = [task EXCEPT ![p] = Then(p, Rest(p))] /\ UNCHANGED ftable
         ELSE /\ task' = [task EXCEPT ![p] = [Then(p, Rest(p)) EXCEPT !.fd[Min(FreeFds(p))] = f]]
              /\ ftable' = [ftable EXCEPT ![f].ref = @ + 1]
      /\ UNCHANGED <<pipes, sh>>

\* open() of a redirection's file, which may fail; then the command is given up.
OpenFails(p) ==
  /\ Next1(p, "open")
  /\ Arg(p) = 0 \/ FreeFiles = {} \/ FreeFds(p) = {}
  /\ task' = [task EXCEPT ![p] = Then(p, <<Exit>>)]
  /\ UNCHANGED <<ftable, pipes, sh>>
Opens(p) ==
  /\ Next1(p, "open") /\ FreeFiles # {} /\ FreeFds(p) # {}
  /\ LET f == Min(FreeFiles)
     IN  /\ ftable' = [ftable EXCEPT ![f] = [ref |-> 1, type |-> "file", pipe |-> None]]
         /\ task' = [task EXCEPT ![p] = [Then(p, Rest(p)) EXCEPT !.fd[Min(FreeFds(p))] = f,
                                                                 !.want[Arg(p) + 1] = f]]
  /\ UNCHANGED <<pipes, sh>>

\* pipe(p), or panic("pipe").  What sys_pipe() got is given back when it fails.
Pipes(p) ==
  /\ Next1(p, "pipe")
  /\ IF Cardinality(FreeFiles) < 2 \/ FreePipes = {} \/ Cardinality(FreeFds(p)) < 2
     THEN task' = [task EXCEPT ![p] = Then(p, <<Exit>>)] /\ UNCHANGED <<ftable, pipes>>
     ELSE LET f0 == Min(FreeFiles)
              f1 == Min(FreeFiles \ {f0})
              d0 == Min(FreeFds(p))
              d1 == Min(FreeFds(p) \ {d0})
              k  == Min(FreePipes)
          IN  /\ ftable' = [ftable EXCEPT ![f0] = [ref |-> 1, type |-> "r", pipe |-> k],
                                          ![f1] = [ref |-> 1, type |-> "w", pipe |-> k]]
              /\ pipes' = [pipes EXCEPT ![k] = [n |-> 0, readopen |-> TRUE, writeopen |-> TRUE]]
              /\ task' = [task EXCEPT ![p] = [Then(p, Rest(p)) EXCEPT !.fd[d0] = f0, !.fd[d1] = f1,
                                                                      !.p = <<d0, d1>>]]
  /\ UNCHANGED sh

\* fork1(): the child inherits the descriptors (filedup()), or panic("fork").
Dupped_OncePerFile(fd) ==
  [f \in FTable |-> [ftable[f] EXCEPT !.ref = @ + Cardinality({d \in {0} : \E x \in Fds : fd[x] = f})]]
Dupped(fd) == [f \in FTable |-> [ftable[f] EXCEPT !.ref = @ + Cardinality({d \in Fds : fd[d] = f})]]

\* What the child's descriptors 0 and 1 are to be.
ChildWant(p, n) == IF n = -1 THEN task[p].want
                   ELSE [task[p].want EXCEPT ![n + 1] = task[p].fd[task[p].p[n + 1]]]

Forks(p) ==
  /\ Next1(p, "fork")
  /\ IF FreeProcs = {}
     THEN task' = [task EXCEPT ![p] = Then(p, <<Exit>>)] /\ UNCHANGED ftable
     ELSE LET c == Head(task[p].todo)
          IN  /\ task' = [task EXCEPT ![p] = Then(p, Rest(p)),
                                      ![Min(FreeProcs)] =
                             [task[p] EXCEPT !.parent = p, !.todo = Unrolled(ChildCode(c.n, c.cmd)),
                                             !.want = ChildWant(p, c.n)]]
              /\ ftable' = Dupped(task[p].fd)
  /\ UNCHANGED <<pipes, sh>>

Children(p) == {q \in Procs : task[q].st # "UNUSED" /\ task[q].parent = p}
Zombies(p)  == {q \in Children(p) : task[q].st = "ZOMBIE"}

\* wait(): blocked as long as there are children and none is a zombie.
Waits(p) ==
  /\ Next1(p, "wait") /\ (Children(p) = {} \/ Zombies(p) # {})
  /\ task' = [q \in Procs |-> IF q = p THEN Then(p, Rest(p))
                              ELSE IF Zombies(p) # {} /\ q = Min(Zombies(p)) THEN Unused ELSE task[q]]
  /\ UNCHANGED <<ftable, pipes, sh>>

\* exit() closes the descriptors one by one, then leaves the children to init.
Exits(p) ==
  /\ Next1(p, "exit")
  /\ LET open == {d \in Fds : task[p].fd[d] # None}
     IN  \/ open # {} /\ sys_close(p, Min(open), task[p].todo)
        \/ /\ open = {}
           /\ task' = [q \in Procs |-> IF q = p THEN [Unused EXCEPT !.st = "ZOMBIE", !.parent = task[p].parent]
                                       ELSE IF q \in Children(p) THEN [task[q] EXCEPT !.parent = initproc]
                                       ELSE task[q]]
           /\ UNCHANGED <<ftable, pipes, sh>>

Execs(p) ==
  /\ Next1(p, "exec")
  /\ LET word == Head(task[p].todo).cmd.argv[1]
     IN  task' = [task EXCEPT ![p] = Then(p, IF word \in Programs THEN Program(word) ELSE Rest(p))]
  /\ UNCHANGED <<ftable, pipes, sh>>

-----------------------------------------------------------------------------
(* The programs' reads and writes.  A file or the console is at its end at *)
(* once and takes everything.                                              *)

Reads(p) ==
  LET f == ftable[task[p].fd[0]]
      k == f.pipe
  IN  /\ Next1(p, "read")
      /\ IF f.type = "r" /\ pipes[k].n > 0
         THEN /\ pipes' = [pipes EXCEPT ![k].n = @ - 1]
              /\ task' = [task EXCEPT ![p] = Then(p, <<Call("write", 0, NoCmd)>> \o task[p].todo)]
         ELSE /\ f.type = "r" => ~pipes[k].writeopen
              /\ task' = [task EXCEPT ![p] = Then(p, Rest(p))]
              /\ UNCHANGED pipes
      /\ UNCHANGED <<ftable, sh>>

\* A program that cannot write exits.
Writes(p) ==
  LET f == ftable[task[p].fd[1]]
      k == f.pipe
  IN  /\ Next1(p, "write")
      /\ IF f.type # "w" THEN task' = [task EXCEPT ![p] = Then(p, Rest(p))] /\ UNCHANGED pipes
         ELSE IF ~pipes[k].readopen THEN task' = [task EXCEPT ![p] = Then(p, <<Exit>>)] /\ UNCHANGED pipes
         ELSE /\ pipes[k].n < PIPESIZE
              /\ pipes' = [pipes EXCEPT ![k].n = @ + 1]
              /\ task' = [task EXCEPT ![p] = Then(p, Rest(p))]
      /\ UNCHANGED <<ftable, sh>>

-----------------------------------------------------------------------------
(* main() of sh, and of init.                                              *)

AtPrompt == sh # None /\ Next1(sh, "prompt")

\* The user types a line.  The child parses it, and exits if it cannot.
ReadLine(s) ==
  /\ AtPrompt
  /\ s \in Alone => Children(initproc) = {sh}
  /\ task' = [task EXCEPT ![sh].todo = <<Fork(-1, parsecmd(s).cmd), Wait, Prompt>>]
  /\ UNCHANGED <<ftable, pipes, sh>>

\* End of file: the shell exits.
ReadEnd ==
  /\ AtPrompt
  /\ task' = [task EXCEPT ![sh].todo = <<Exit>>]
  /\ UNCHANGED <<ftable, pipes, sh>>

\* init reaps whoever was left to it, and starts a new shell for an old one, which
\* finds its three descriptors open.
InitReaps ==
  /\ Zombies(initproc) # {}
  /\ LET z == Min(Zombies(initproc))
     IN  task' = [task EXCEPT ![z] = Unused] /\ sh' = IF z = sh THEN None ELSE sh
  /\ UNCHANGED <<ftable, pipes>>
InitForks ==
  /\ sh = None
  /\ IF FreeProcs = {} THEN task' = [task EXCEPT ![initproc].st = "ZOMBIE"] /\ UNCHANGED <<ftable, sh>>
     ELSE /\ sh' = Min(FreeProcs)
          /\ task' = [task EXCEPT ![sh'] = [task[initproc] EXCEPT !.parent = initproc, !.todo = <<Prompt>>,
                                                                  !.want = <<console, console>>]]
          /\ ftable' = Dupped(task[initproc].fd)
  /\ UNCHANGED pipes

TaskStep(p) == \/ Closes(p) \/ Dups(p) \/ OpenFails(p) \/ Opens(p) \/ Pipes(p) \/ Forks(p)
               \/ Waits(p) \/ Exits(p) \/ Execs(p) \/ Reads(p) \/ Writes(p)
InitStep == task[initproc].st = "RUN" /\ (InitReaps \/ InitForks)
UserStep == (\E s \in Typed : ReadLine(s)) \/ ReadEnd

ShellNext == (\E p \in Procs : TaskStep(p)) \/ InitStep \/ UserStep

-----------------------------------------------------------------------------
(* Properties.                                                             *)

\* A file's ref counts the descriptors that refer to it, over all processes, and a
\* pipe's end is open exactly as long as there are any: through fork(), dup(),
\* close(), exit() and failures in the middle of pipe() (file.c:26-80,
\* sysfile.c:40-104, 422-444; proc.c:209-211, 241-246).
DescriptorsCounted ==
  /\ \A f \in FTable :
       ftable[f].ref = Cardinality({x \in Procs \X Fds : task[x[1]].fd[x[2]] = f})
  /\ \A k \in 1..NPIPE :
       /\ pipes[k].readopen  <=> \E f \in FTable : ftable[f].pipe = k /\ ftable[f].type = "r"
       /\ pipes[k].writeopen <=> \E f \in FTable : ftable[f].pipe = k /\ ftable[f].type = "w"

\* A program starts with the input and the output its place in the command line
\* calls for and with no other descriptor than 2: sh.c relies on close() and
\* dup() or open() in a row hitting the same number.  The shell itself is back
\* at the prompt with just its three descriptors (sh.c:84-85, 105-119).
WiredAsWritten ==
  \A p \in Procs : Next1(p, "read") \/ Next1(p, "write") \/ Next1(p, "prompt") =>
    task[p].fd = [StdFds EXCEPT ![0] = task[p].want[1], ![1] = task[p].want[2]]

\* The prompt comes back: no command line leaves a process waiting for an end of
\* file, for room in a pipe or for a child that never exits, also when fork() or
\* pipe() failed in the middle of it; and after its end of file there is a new
\* shell (sh.c:94-128, 167-169; init.c:22-35).
PromptReturns == []<>AtPrompt
=============================================================================
