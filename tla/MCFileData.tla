---------------------------- MODULE MCFileData -----------------------------
(* A small instance of file contents.                                      *)
EXTENDS FileData

CONSTANTS p1, p2

\* What each process writes.
Marks == p1 :> 1 @@ p2 :> 2

\* The files mkfs is given: a single one, of three words.
OneFile == {<< <<3, 4, 5>> >>}

Interchangeable == Permutations(Files)
=============================================================================
