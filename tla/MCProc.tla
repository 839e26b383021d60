------------------------------ MODULE MCProc ------------------------------
(* Small instances of the process table.                                   *)
EXTENDS Proc

\* kill() of every pid a fork() can return, none of them init's.
ForkedPids == 2..MaxPid
=============================================================================
