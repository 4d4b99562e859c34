------------------------ MODULE MCFileMutationQueue ------------------------
(* Four calls: three on one file by its canonical path and by a path through *)
(* a symbolic link, one on another file.                                     *)
EXTENDS FileMutationQueue, TLC

CONSTANTS o1, o2, o3, o4, real, link, other

MCOps == {o1, o2, o3, o4}
MCPaths == {real, link, other}
MCPathOf == o1 :> real @@ o2 :> link @@ o3 :> real @@ o4 :> other
MCCanon == real :> real @@ link :> real @@ other :> other
=============================================================================
