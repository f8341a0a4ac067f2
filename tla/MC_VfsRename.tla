---------------------------- MODULE MC_VfsRename ----------------------------
(* Instance of VfsRename for TLC: two workers, the root and two            *)
(* directories, one file, two leaf names.  The share starts as             *)
(*     root/n1 = d1,  root/n1/n1 = d2,  root/n2 = f1                       *)
(* so that one directory is nested in another and renames can try to move *)
(* a directory under itself.                                               *)
EXTENDS VfsRename, TLC

CONSTANTS w1, w2, root, d1, d2, f1, n1, n2, badFid, noObj, noLeaf, noOwner, renameMutex

MCWorkers == {w1, w2}
MCDirs    == {d1, d2}
MCFiles   == {f1}
MCNames   == {n1, n2}
MCHandles == {f1}
MCInitParent == (d1 :> root) @@ (d2 :> d1) @@ (f1 :> root)
MCInitName   == (d1 :> n1) @@ (d2 :> n1) @@ (f1 :> n2)

\* The tree without the file, for the liveness run.
MCNoFiles == {}
MCInitParentDirs == (d1 :> root) @@ (d2 :> d1)
MCInitNameDirs   == (d1 :> n1) @@ (d2 :> n1)
=============================================================================
