------------------------------- MODULE MCPipe -------------------------------
(* Small instances of the pipe.                                            *)
EXTENDS Pipe, TLC

Interchangeable == Permutations(Procs \ Killable)
=============================================================================
