------------------------------ MODULE MCInode ------------------------------
(* Small instances of the name space.                                      *)
EXTENDS Inode, TLC

CONSTANTS x, y

\* Two names in the root directory, and one in a directory.
FlatPaths == {<<x>>, <<y>>}
DeepPaths == {<<x>>, <<x, y>>}

FlatCalls == {"open", "creat", "mkdir", "unlink", "chdir"} \X FlatPaths
DeepCalls == ({"creat", "mkdir", "unlink"} \X DeepPaths)
             \cup {<<"mknod", <<x, y>>>>, <<"open", <<x>>>>, <<"chdir", <<x>>>>}

Interchangeable == Permutations(Procs)
=============================================================================
