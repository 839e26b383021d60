------------------------------- MODULE Console ------------------------------
(***************************************************************************)
(* The console (console.c): keyboard interrupts fill and edit the input    *)
(* ring, processes read lines from it and write to the screen.             *)
(*                                                                         *)
(* consoleintr() runs to its end with cons.lock held, so a key is a single *)
(* step.  A process has the lock over several steps, and between its test  *)
(* of p->killed and sleep() a kill() may come in.  The console's inode is  *)
(* locked by fileread() and filewrite() and unlocked inside.  What is      *)
(* shown on the screen is left out, and so is ^P, whose listing is Ps.     *)
(***************************************************************************)
EXTENDS Integers, Sequences, FiniteSetsExt

CONSTANTS Users,      \* processes that read from the console
          Writers,    \* those of them that also write
          Killable,   \* those of them that may be killed
          Keys,       \* the keys typed
          INPUT_BUF,
          UINT,       \* r, w and e count modulo UINT (2^32)
          ReadSizes   \* the n of read() calls

Nobody == 0
EOT    == "^D"

\* What the keys other than the editing ones are stored as.
Stored(k) == IF k = "cr" THEN "nl" ELSE k
Editing   == {"^U", "^H", "nul"}
Chars     == {Stored(k) : k \in Keys \ Editing}

ASSUME RingAssumption ==
  /\ INPUT_BUF \in Nat \ {0} /\ UINT \in Nat /\ UINT > INPUT_BUF /\ UINT % INPUT_BUF = 0
  /\ ReadSizes \subseteq Nat /\ Nobody \notin Users
  /\ Writers \subseteq Users /\ Killable \subseteq Users

VARIABLES buf, r, w, e,    \* struct input
          conslock,        \* who holds cons.lock
          iplock,          \* who holds the lock of the console's inode
          io,              \* per process: where it is in a call, n, target and p->killed
          out              \* the character copied to a reader last

inputVars   == <<buf, r, w, e>>
consoleVars == <<inputVars, conslock, iplock, io, out>>

Away == [pc |-> "user", call |-> "none", n |-> 0, target |-> 0, killed |-> FALSE]

ConsoleInit ==
  /\ buf = [i \in 0..INPUT_BUF - 1 |-> "nul"] /\ r = 0 /\ w = 0 /\ e = 0
  /\ conslock = Nobody /\ iplock = Nobody
  /\ io = [p \in Users |-> Away]
  /\ out = "nul"

Plus(i, k) == (i + k) % UINT
At(i)      == i % INPUT_BUF

-----------------------------------------------------------------------------
(* consoleintr().                                                          *)

ReadersWoken_Nobody == io
\* wakeup(&input.r): the readers go on to take the lock again.
ReadersWoken == [p \in Users |-> IF io[p].pc = "asleep" THEN [io[p] EXCEPT !.pc = "relock"]
                                 ELSE io[p]]

\* Where ^U stops: at w, or after a newline.
LineStart ==
  LET len == (e - w) % UINT
  IN  Plus(w, Max({k \in 0..len : k = 0 \/ buf[At(Plus(w, k - 1))] = "nl"}))

\* Whether the character just put at e completes what readers may have.
HandedOver_NotWhenFull(c) == c \in {"nl", EOT}
HandedOver(c) == c \in {"nl", EOT} \/ Plus(e, 1) = Plus(r, INPUT_BUF)

Insert(c) ==
  IF c # "nul" /\ (e - r) % UINT < INPUT_BUF
  THEN /\ buf' = [buf EXCEPT ![At(e)] = c]
       /\ e' = Plus(e, 1)
       /\ IF HandedOver(c) THEN w' = e' /\ io' = ReadersWoken ELSE UNCHANGED <<w, io>>
  ELSE UNCHANGED <<buf, w, e, io>>

consoleintr(k) ==
  /\ conslock = Nobody
  /\ \/ k = "^U" /\ e' = LineStart /\ UNCHANGED <<buf, w, io>>
     \/ k = "^H" /\ e' = (IF e # w THEN Plus(e, -1) ELSE e) /\ UNCHANGED <<buf, w, io>>
     \/ k \notin {"^U", "^H"} /\ Insert(Stored(k))
  /\ UNCHANGED <<r, conslock, iplock, out>>

-----------------------------------------------------------------------------
(* consoleread() and consolewrite(), under fileread() and filewrite().     *)

Step(p, l) == io' = [io EXCEPT ![p].pc = l]

\* fileread() or filewrite() of the console, up to its ilock().
CallConsole(p, c, n) ==
  /\ io[p].pc = "user" /\ ~io[p].killed /\ iplock = Nobody
  /\ iplock' = p
  /\ io' = [io EXCEPT ![p] = [Away EXCEPT !.pc = "inside", !.call = c, !.n = n, !.target = n]]
  /\ UNCHANGED <<inputVars, conslock, out>>

\* iunlock(), the first thing consoleread() does.
UnlockInode(p) ==
  /\ io[p].pc = "inside"
  /\ iplock' = Nobody
  /\ Step(p, "relock")
  /\ UNCHANGED <<inputVars, conslock, out>>

\* ilock() at its end, and the return through fileread(), which unlocks it again.
ReturnToUser(p) ==
  /\ io[p].pc = "ending" /\ iplock = Nobody
  /\ io' = [io EXCEPT ![p] = [Away EXCEPT !.killed = io[p].killed]]
  /\ UNCHANGED <<inputVars, conslock, iplock, out>>

AcquireConsole(p) ==
  /\ io[p].pc = "relock" /\ conslock = Nobody
  /\ conslock' = p
  /\ Step(p, io[p].call)
  /\ UNCHANGED <<inputVars, iplock, out>>

ReleaseConsole(p) == conslock' = Nobody /\ Step(p, "ending")

\* The characters go to the screen.
consolewrite(p) ==
  /\ io[p].pc = "write"
  /\ ReleaseConsole(p)
  /\ UNCHANGED <<inputVars, iplock, out>>

\* Nothing to read: -1 for a killed process, sleep() for another.
ReadEmpty(p) ==
  /\ io[p].pc = "read" /\ io[p].n > 0 /\ r = w
  /\ IF io[p].killed THEN ReleaseConsole(p) ELSE Step(p, "tosleep") /\ UNCHANGED conslock
  /\ UNCHANGED <<inputVars, iplock, out>>

SleepOnInput(p) ==
  /\ io[p].pc = "tosleep"
  /\ conslock' = Nobody
  /\ Step(p, "asleep")
  /\ UNCHANGED <<inputVars, iplock, out>>

\* ^D ends the read; it stays in the ring if the read has got something already.
ReadEof(p) ==
  /\ io[p].pc = "read" /\ io[p].n > 0 /\ r # w /\ buf[At(r)] = EOT
  /\ r' = IF io[p].n < io[p].target THEN r ELSE Plus(r, 1)
  /\ ReleaseConsole(p)
  /\ UNCHANGED <<buf, w, e, iplock, out>>

ReadChar(p) ==
  /\ io[p].pc = "read" /\ io[p].n > 0 /\ r # w /\ buf[At(r)] # EOT
  /\ out' = buf[At(r)]
  /\ r' = Plus(r, 1)
  /\ IF out' = "nl" THEN ReleaseConsole(p)
     ELSE io' = [io EXCEPT ![p].n = @ - 1] /\ UNCHANGED conslock
  /\ UNCHANGED <<buf, w, e, iplock>>

ReadFull(p) ==
  /\ io[p].pc = "read" /\ io[p].n = 0
  /\ ReleaseConsole(p)
  /\ UNCHANGED <<inputVars, iplock, out>>

\* kill(): a sleeper is woken.  A killed process exits when its call returns, and
\* its slot serves another one.
KillUser(p) ==
  /\ p \in Killable /\ ~io[p].killed
  /\ io' = [io EXCEPT ![p].killed = TRUE, ![p].pc = IF @ = "asleep" THEN "relock" ELSE @]
  /\ UNCHANGED <<inputVars, conslock, iplock, out>>
ExitUser(p) ==
  /\ io[p].pc = "user" /\ io[p].killed
  /\ io' = [io EXCEPT ![p].killed = FALSE]
  /\ UNCHANGED <<inputVars, conslock, iplock, out>>

-----------------------------------------------------------------------------
ConsoleNext ==
  \/ \E k \in Keys : consoleintr(k)
  \/ \E p \in Users :
       \/ \E n \in ReadSizes : CallConsole(p, "read", n)
       \/ p \in Writers /\ CallConsole(p, "write", 0)
       \/ UnlockInode(p) \/ ReturnToUser(p) \/ AcquireConsole(p)
       \/ consolewrite(p) \/ ReadEmpty(p) \/ SleepOnInput(p) \/ ReadEof(p) \/ ReadChar(p) \/ ReadFull(p)
       \/ KillUser(p) \/ ExitUser(p)

ConsoleSpec == ConsoleInit /\ [][ConsoleNext]_consoleVars

-----------------------------------------------------------------------------
(* Properties.                                                             *)

\* The characters in the ring from index i up to index j.
Ring(i, j) == [k \in 1..((j - i) % UINT) |-> buf[At(Plus(i, k - 1))]]

Lines == INSTANCE LineBuffer WITH Capacity <- INPUT_BUF, Closing <- {"nl", EOT}, Eof <- EOT,
                                  line <- Ring(w, e), input <- Ring(r, w)

\* The ring is a line under edit behind the input handed over: keys change only
\* the line, a full ring is handed over rather than wedged, and readers, however
\* many, take what was handed over once, in order and unchanged, also when the
\* three indices wrap around (console.c:203-226, 253-265).
LinesKept == Lines!Spec

\* A reader sleeps only while there is nothing to read, and without the lock of
\* the console or of its inode, which the others need to write
\* (console.c:222-223, 241, 245-251).
ReaderAsleep ==
  \A p \in Users : io[p].pc = "asleep" => r = w /\ conslock # p /\ iplock # p
=============================================================================
