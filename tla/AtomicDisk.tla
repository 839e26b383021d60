----------------------------- MODULE AtomicDisk -----------------------------
(***************************************************************************)
(* What the log promises the file system: system calls update blocks in    *)
(* memory; the updates reach the disk all at once, and only at a moment    *)
(* when no system call is in progress; a crash goes back to the last such  *)
(* moment (log.c:9-21).                                                    *)
(***************************************************************************)
CONSTANTS Blocks, Values, Calls

VARIABLES durable,  \* what a reboot would find
          current,  \* what system calls read and write
          active    \* the system calls between begin_op() and end_op()

avars == <<durable, current, active>>

Init == /\ durable \in [Blocks -> Values]
        /\ current = durable
        /\ active = {}

Begin(o) == /\ o \notin active
            /\ active' = active \cup {o}
            /\ UNCHANGED <<durable, current>>

Write(o, b, v) == /\ o \in active
                  /\ current' = [current EXCEPT ![b] = v]
                  /\ UNCHANGED <<durable, active>>

End(o) == /\ o \in active
          /\ active' = active \ {o}
          /\ UNCHANGED <<durable, current>>

Commit == /\ active = {}
          /\ durable' = current
          /\ UNCHANGED <<current, active>>

Crash == /\ current' = durable
         /\ active' = {}
         /\ UNCHANGED durable

Next == \/ \E o \in Calls : Begin(o) \/ End(o)
        \/ \E o \in Calls, b \in Blocks, v \in Values : Write(o, b, v)
        \/ Commit
        \/ Crash

Spec == Init /\ [][Next]_avars
=============================================================================
