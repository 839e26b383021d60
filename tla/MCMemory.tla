----------------------------- MODULE MCMemory ------------------------------
(* A small instance of memory, and one of the heap of a user program: each *)
(* behaviour is one of the two.                                            *)
EXTENDS Memory, Umalloc, TLC

CONSTANTS p1, p2, p3

VARIABLE part

Seg(vaddr, memsz, filesz, whole) ==
  [vaddr |-> vaddr, memsz |-> memsz, filesz |-> filesz, whole |-> whole]

\* One small segment; two, the second with room that the file does not fill;
\* and files that are refused at different steps.
SmallPrograms ==
  {[elf |-> TRUE, ph |-> <<Seg(0, 1, 1, TRUE)>>],
   [elf |-> TRUE, ph |-> <<Seg(0, 2, 1, TRUE), Seg(2, 3, 1, TRUE)>>],
   [elf |-> TRUE, ph |-> <<Seg(0, 2, 2, TRUE), Seg(3, 1, 1, TRUE)>>],
   [elf |-> TRUE, ph |-> <<Seg(0, 3, 3, FALSE)>>],
   [elf |-> TRUE, ph |-> <<Seg(0, 7, 1, TRUE)>>],
   [elf |-> TRUE, ph |-> <<Seg(0, 1, 2, TRUE)>>],
   [elf |-> FALSE, ph |-> <<>>]}

Marks == p1 :> 1 @@ p2 :> 2 @@ p3 :> 3
SbrkSizes == {-3, 3}

MCInit == Init /\ HeapInit /\ part \in {"memory", "heap"}
MCNext == \/ part = "memory" /\ Next /\ UNCHANGED <<heapVars, part>>
          \/ part = "heap" /\ HeapNext /\ UNCHANGED <<vars, part>>
MCSpec == MCInit /\ [][MCNext]_<<vars, heapVars, part>>
=============================================================================
