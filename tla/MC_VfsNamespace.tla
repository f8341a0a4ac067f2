--------------------------- MODULE MC_VfsNamespace ---------------------------
(* Instance of VfsNamespace for TLC, over the tree and constants of        *)
(* MC_VfsRename:  root/n1 = d1,  root/n1/n1 = d2,  root/n2 = f1.           *)
(* One more file, f2, is not in the share at the start: an inode that     *)
(* create, symlink and link can allocate.  A removed directory is one that *)
(* mkdir can allocate again.                                               *)
EXTENDS VfsNamespace, MC_VfsRename

CONSTANT f2

MCNsFiles == {f1, f2}
MCSpare   == {f2}
MCNsInitParent == MCInitParent @@ (f2 :> d2)
MCNsInitName   == MCInitName @@ (f2 :> n2)

MCRequests == {"rename", "unlink", "rmdir"}
MCAllRequests == {"create", "mkdir", "symlink", "link", "unlink", "rmdir", "rename"}

\* A smaller share for all the requests together: root/n1 = d1, root/n2 = f1,
\* and the spare f2.
MCSmallDirs == {d1}
MCSmallInitParent == (d1 :> root) @@ (f1 :> root) @@ (f2 :> d1)
MCSmallInitName   == (d1 :> n1) @@ (f1 :> n2) @@ (f2 :> n2)
=============================================================================
