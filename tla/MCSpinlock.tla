----------------------------- MODULE MCSpinlock -----------------------------
(* Small instances of the spinlocks.                                       *)
EXTENDS Spinlock, TLC

Interchangeable == Permutations(Cpus) \cup Permutations(Procs)
=============================================================================
