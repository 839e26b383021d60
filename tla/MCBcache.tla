------------------------------ MODULE MCBcache ------------------------------
(* Small instances of the buffer cache.                                    *)
EXTENDS Bcache, TLC

Interchangeable == Permutations(Procs) \cup Permutations(Blocks)
=============================================================================
