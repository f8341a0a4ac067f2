----------------------------- MODULE MC_VfsAttr -----------------------------
(* Two server threads on one inode of type regular file or symlink,       *)
(* with a capability xattr whose name is two bytes long.                  *)
EXTENDS VfsAttr, TLC

CONSTANTS w1, w2, u1, u2, g1

MCWorkers == {w1, w2}

(* chown to u1 with a set-id chmod; chown to u2; truncate to 0; a chmod   *)
(* whose mode carries a type bit.                                         *)
MCAttrRequests ==
    {[valid |-> {"ATTR_UID", "ATTR_MODE"}, mode |-> PermBits,
      uid |-> KuidT(u1), gid |-> KgidT(g1), size |-> 0],
     [valid |-> {"ATTR_UID"}, mode |-> {},
      uid |-> KuidT(u2), gid |-> KgidT(g1), size |-> 0],
     [valid |-> {"ATTR_SIZE"}, mode |-> {},
      uid |-> KuidT(u1), gid |-> KgidT(g1), size |-> 0],
     [valid |-> {"ATTR_MODE"}, mode |-> {"S_ISGID", "S_IFDIR"},
      uid |-> KuidT(u1), gid |-> KgidT(g1), size |-> 0]}

MCNameLen == [n \in {"security.capability"} |-> 2]

(* The threads are interchangeable.                                        *)
MCSymmetry == Permutations(MCWorkers)
=============================================================================
