----------------------------- MODULE VfsNamespace -----------------------------
(***************************************************************************)
(* smb_vfs_unlink and smb_vfs_rmdir, run by the same workers and over the  *)
(* same dentry tree and directory locks as smb_vfs_rename (VfsRename).     *)
(* Both take the parent's i_mutex through path.dentry->d_parent, and read  *)
(* that pointer anew for the lock, for the vfs call and for the unlock.    *)
(* Nothing stops a rename from changing it between the three reads.        *)
(* smb_vfs_create, smb_vfs_mkdir, smb_vfs_link and smb_vfs_symlink instead *)
(* lock and unlock the parent kern_path_create resolved.                   *)
(***************************************************************************)
EXTENDS VfsRename

CONSTANTS
    CrossDirRename,  \* whether a rename may name two parent directories
    Spare,           \* objects not in the share when the workers start
    Requests         \* the SMB requests the workers are given

ASSUME Requests \subseteq {"rename", "unlink", "rmdir", "create", "mkdir",
                           "symlink", "link"}

ASSUME Spare \subseteq Objs /\ Spare \cap Handles = {}

\* The share at the start: the objects of InitParent, except the spare ones.
NsInit ==
    /\ parent = InitParent
    /\ name = InitName
    /\ linked = [o \in Objs |-> o \notin Spare]
    /\ owner = [l \in Locks |-> NoOwner]
    /\ pc = [w \in Workers |-> "idle"]
    /\ st = [w \in Workers |-> NoLocals]

\* kern_path(name): a full path, as a parent path and a last component.
Resolve(p, n) ==
    LET d == Walk(Root, p) IN IF d = NoObj THEN NoObj ELSE Child(d, n)

Goto(w, l) == pc' = [pc EXCEPT ![w] = l]

\* Rename requests, restricted to one parent directory unless CrossDirRename.
NsStartByPath(w) ==
    StartByPath(w) /\ (CrossDirRename \/ st'[w].oldp = st'[w].newp)

NsStartByFid(w) ==
    StartByFid(w) /\ (CrossDirRename \/ st'[w].oldp = st'[w].newp)

\* The argument of mutex_lock_nested: d_parent, read once, before the call
\* blocks (lines 439 and 470).
ReadParent(w, next) ==
    /\ st' = [st EXCEPT ![w].oldp = parent[st[w].dold]]
    /\ Goto(w, next)
    /\ UNCHANGED <<parent, name, linked, owner>>

\* Mutant of Grab: the mutex is taken without waiting for its holder.
GrabNoWait(w, l) == owner' = [owner EXCEPT ![l] = w]

\* mutex_lock: blocks while another worker holds l.
Grab(w, l) == owner[l] = NoOwner /\ owner' = [owner EXCEPT ![l] = w]

\* mutex_unlock(&path.dentry->d_parent->d_inode->i_mutex) with d_parent
\* read again (lines 445 and 484): the mutex is released whoever holds it;
\* then the request returns.
UnlockParent(w) ==
    /\ owner' = [owner EXCEPT ![parent[st[w].dold]] = NoOwner]
    /\ pc' = [pc EXCEPT ![w] = "idle"]
    /\ st' = [st EXCEPT ![w] = NoLocals]
    /\ UNCHANGED <<parent, name, linked>>

-----------------------------------------------------------------------------
(* smb_vfs_unlink, lines 457-489.                                          *)

\* kern_path (461-466): -ENOENT if the name does not resolve.
UnlinkStart(w) ==
    /\ pc[w] = "idle"
    /\ \E p \in Paths, n \in Names :
         LET o == Resolve(p, n) IN
         \/ o = NoObj /\ Return(w, "ENOENT")
         \/ /\ o # NoObj
            /\ Goto(w, "unlink_parent")
            /\ st' = [st EXCEPT ![w].dold = o]
            /\ UNCHANGED <<parent, name, linked, owner>>

UnlinkReadParent(w) == pc[w] = "unlink_parent" /\ ReadParent(w, "unlink_lock")

UnlinkLock(w) ==
    /\ pc[w] = "unlink_lock"
    /\ Grab(w, st[w].oldp)
    /\ Goto(w, "unlink")
    /\ UNCHANGED <<parent, name, linked, st>>

\* Mutant of UnlinkExit: the i_nlink == 0 case returns past the unlock.
UnlinkExitSkip(o) == IF linked[o] THEN "unlink_unlock" ELSE "idle"

\* Where unlink goes after vfs_unlink or the skip: label skip, the unlock.
UnlinkExit(o) == "unlink_unlock"

\* Lines 472-481: i_nlink == 0 skips; vfs_unlink(d_parent, dentry) refuses
\* a directory (may_delete: -EISDIR) and otherwise removes the file.  The
\* BUG_ON of may_delete holds, since the directory is d_parent read now.
UnlinkCall(w) ==
    /\ pc[w] = "unlink"
    /\ LET o == st[w].dold IN
       \/ ~linked[o] /\ UNCHANGED linked
       \/ linked[o] /\ o \in Dirs /\ UNCHANGED linked
       \/ linked[o] /\ o \in Files /\ linked' = [linked EXCEPT ![o] = FALSE]
    /\ Goto(w, UnlinkExit(st[w].dold))
    /\ UNCHANGED <<parent, name, owner, st>>

UnlinkUnlock(w) == pc[w] = "unlink_unlock" /\ UnlockParent(w)

-----------------------------------------------------------------------------
(* smb_vfs_rmdir, lines 427-449.                                           *)

\* kern_path(name, LOOKUP_DIRECTORY): -ENOENT, or -ENOTDIR for a file.
RmdirStart(w) ==
    /\ pc[w] = "idle"
    /\ \E p \in Paths, n \in Names :
         LET o == Resolve(p, n) IN
         \/ o \notin Dirs /\ Return(w, IF o = NoObj THEN "ENOENT" ELSE "ENOTDIR")
         \/ /\ o \in Dirs
            /\ Goto(w, "rmdir_parent")
            /\ st' = [st EXCEPT ![w].dold = o]
            /\ UNCHANGED <<parent, name, linked, owner>>

RmdirReadParent(w) == pc[w] = "rmdir_parent" /\ ReadParent(w, "rmdir_lock")

RmdirLock(w) ==
    /\ pc[w] = "rmdir_lock"
    /\ Grab(w, st[w].oldp)
    /\ Goto(w, "rmdir")
    /\ UNCHANGED <<parent, name, linked, st>>

\* vfs_rmdir(d_parent, dentry), d_parent read again (line 441): may_delete
\* refuses a removed directory (IS_DEADDIR: -ENOENT); otherwise vfs_rmdir
\* goes on to lock the victim.
RmdirCall(w) ==
    /\ pc[w] = "rmdir"
    /\ LET dir == parent[st[w].dold] IN
       \/ Dead(dir) /\ Goto(w, "rmdir_unlock") /\ UNCHANGED st
       \/ /\ ~Dead(dir)
          /\ Goto(w, "rmdir_victim")
          /\ st' = [st EXCEPT ![w].newp = dir]
    /\ UNCHANGED <<parent, name, linked, owner>>

\* Mutant of VictimLock: the parent's i_mutex instead of the victim's.
VictimLockParent(o) == parent[o]

\* The mutex vfs_rmdir takes: the victim's own i_mutex.
VictimLock(o) == o

\* The rest of vfs_rmdir: mutex_lock on the victim's i_mutex (blocking);
\* the filesystem finds no entry for it in dir (-ENOENT) if it was removed
\* or moved, refuses a non-empty one (-ENOTEMPTY), or removes it; the
\* victim's i_mutex is released before vfs_rmdir returns.
RmdirVictim(w) ==
    /\ pc[w] = "rmdir_victim"
    /\ LET o == st[w].dold IN
       /\ owner[VictimLock(o)] = NoOwner
       /\ \/ (~linked[o] \/ parent[o] # st[w].newp) /\ UNCHANGED linked
          \/ /\ linked[o] /\ parent[o] = st[w].newp
             /\ NonEmpty(o) /\ UNCHANGED linked
          \/ /\ linked[o] /\ parent[o] = st[w].newp
             /\ ~NonEmpty(o) /\ linked' = [linked EXCEPT ![o] = FALSE]
    /\ Goto(w, "rmdir_unlock")
    /\ UNCHANGED <<parent, name, owner, st>>

RmdirUnlock(w) == pc[w] = "rmdir_unlock" /\ UnlockParent(w)

-----------------------------------------------------------------------------
(* smb_vfs_create (41-61), smb_vfs_mkdir (70-94), smb_vfs_link (498-540)   *)
(* and smb_vfs_symlink (549-569).  kern_path_create locks the parent it    *)
(* resolved and looks the last component up under that lock; the vfs call *)
(* creates the entry; done_path_create unlocks the same parent.            *)
(* A new inode is an object that nothing refers to any more: not hashed,   *)
(* not open, not in any worker's locals.                                   *)

\* An object some worker's locals still name (a resolved dentry or parent).
Referenced(o) ==
    \E w \in Workers :
        \/ o \in {st[w].oldp, st[w].newp, st[w].dold, st[w].dnew, st[w].trap}
        \/ \E i \in DOMAIN st[w].toLock : st[w].toLock[i] = o

Unused(S) == {o \in S : ~linked[o] /\ o \notin Handles /\ ~Referenced(o)}

\* The pc of a request between kern_path_create and its vfs call.
CreateLockLabels == {"create_lock", "mkdir_lock", "symlink_lock", "link_lock"}
CallAfterLock == [create_lock |-> "create", mkdir_lock |-> "mkdir",
                  symlink_lock |-> "symlink", link_lock |-> "link"]

\* kern_path_create's LOOKUP_PARENT walk (47, 77, 555): -ENOENT if the
\* parent path does not resolve.
MkStart(w) ==
    /\ pc[w] = "idle"
    /\ \E l \in CreateLockLabels \ {"link_lock"}, p \in Paths, n \in Names :
         /\ CallAfterLock[l] \in Requests
         /\ LET d == Walk(Root, p) IN
            \/ d = NoObj /\ Return(w, "ENOENT")
            \/ /\ d # NoObj
               /\ Goto(w, l)
               /\ st' = [st EXCEPT ![w].newp = d, ![w].newLeaf = n]
               /\ UNCHANGED <<parent, name, linked, owner>>

\* smb_vfs_link: kern_path(oldname) with no lock held (out1 on error), then
\* kern_path_create(newname) (out2 on error).
LinkStart(w) ==
    /\ pc[w] = "idle"
    /\ \E op \in Paths, ol \in Names, np \in Paths, nl \in Names :
         LET s == Resolve(op, ol)
             d == Walk(Root, np)
         IN \/ (s = NoObj \/ d = NoObj) /\ Return(w, "ENOENT")
            \/ /\ s # NoObj /\ d # NoObj
               /\ Goto(w, "link_lock")
               /\ st' = [st EXCEPT ![w].dold = s, ![w].newp = d, ![w].newLeaf = nl]
               /\ UNCHANGED <<parent, name, linked, owner>>

\* The rest of kern_path_create: mutex_lock_nested on the parent (blocking),
\* then lookup_hash of the last component: a positive dentry is -EEXIST,
\* after which kern_path_create unlocks and the handler returns.
PathCreateLock(w) ==
    /\ pc[w] \in CreateLockLabels
    /\ LET d == st[w].newp
           exists == Child(d, st[w].newLeaf) # NoObj
       IN \/ /\ Grab(w, d) /\ ~exists
             /\ Goto(w, CallAfterLock[pc[w]])
             /\ UNCHANGED <<parent, name, linked, st>>
          \/ /\ owner[d] = NoOwner /\ exists
             /\ Goto(w, "idle")
             /\ st' = [st EXCEPT ![w] = NoLocals]
             /\ UNCHANGED <<parent, name, linked, owner>>

\* The vfs call makes the negative dentry positive with a new inode.
NewEntry(o, d, n) ==
    /\ parent' = [parent EXCEPT ![o] = d]
    /\ name' = [name EXCEPT ![o] = n]
    /\ linked' = [linked EXCEPT ![o] = TRUE]

\* vfs_create, vfs_mkdir, vfs_symlink: may_create refuses a removed parent
\* (IS_DEADDIR: -ENOENT); the filesystem has no inode left (-ENOSPC) or
\* makes one of the requested type (S_IFREG, S_IFDIR; a symlink is a
\* non-directory); then done_path_create.
CreateEntry(w, kind, pool) ==
    /\ pc[w] = kind
    /\ LET d == st[w].newp IN
       \/ Dead(d) /\ UNCHANGED <<parent, name, linked>>
       \/ ~Dead(d) /\ Unused(pool) = {} /\ UNCHANGED <<parent, name, linked>>
       \/ ~Dead(d) /\ \E o \in Unused(pool) : NewEntry(o, d, st[w].newLeaf)
    /\ Goto(w, "done_path_create")
    /\ UNCHANGED <<owner, st>>

CreateCall(w)  == CreateEntry(w, "create", Files)
MkdirCall(w)   == CreateEntry(w, "mkdir", Dirs)
SymlinkCall(w) == CreateEntry(w, "symlink", Files)

\* vfs_link (526): may_create (-ENOENT in a removed parent), a directory
\* source is -EPERM, a source whose i_nlink dropped to 0 since kern_path is
\* -ENOENT; otherwise the new name.  One mount: the -EXDEV test never fires.
LinkCall(w) ==
    /\ pc[w] = "link"
    /\ LET d == st[w].newp
           s == st[w].dold
       IN \/ (Dead(d) \/ s \in Dirs \/ ~linked[s]) /\ UNCHANGED <<parent, name, linked>>
          \/ /\ ~Dead(d) /\ s \in Files /\ linked[s]
             /\ Unused(Files) = {}
             /\ UNCHANGED <<parent, name, linked>>
          \/ /\ ~Dead(d) /\ s \in Files /\ linked[s]
             /\ \E o \in Unused(Files) : NewEntry(o, d, st[w].newLeaf)
    /\ Goto(w, "done_path_create")
    /\ UNCHANGED <<owner, st>>

\* done_path_create (compat.h): dput, mutex_unlock on the parent of the
\* struct path kern_path_create filled in (not d_parent read again),
\* mnt_drop_write, path_put; then the handler returns.
DonePathCreate(w) ==
    /\ pc[w] = "done_path_create"
    /\ owner' = [owner EXCEPT ![st[w].newp] = NoOwner]
    /\ pc' = [pc EXCEPT ![w] = "idle"]
    /\ st' = [st EXCEPT ![w] = NoLocals]
    /\ UNCHANGED <<parent, name, linked>>

-----------------------------------------------------------------------------
\* The steps of a worker inside unlink, rmdir or a creating request.
NsRunning(w) ==
    \/ UnlinkReadParent(w) \/ UnlinkLock(w) \/ UnlinkCall(w) \/ UnlinkUnlock(w)
    \/ RmdirReadParent(w) \/ RmdirLock(w) \/ RmdirCall(w) \/ RmdirVictim(w)
    \/ RmdirUnlock(w)
    \/ PathCreateLock(w) \/ CreateCall(w) \/ MkdirCall(w) \/ SymlinkCall(w)
    \/ LinkCall(w) \/ DonePathCreate(w)

NsNext ==
    \E w \in Workers :
        \/ "rename" \in Requests /\ (NsStartByPath(w) \/ NsStartByFid(w))
        \/ "unlink" \in Requests /\ UnlinkStart(w)
        \/ "rmdir" \in Requests /\ RmdirStart(w)
        \/ MkStart(w)
        \/ "link" \in Requests /\ LinkStart(w)
        \/ Running(w) \/ NsRunning(w)

\* As for rename: a started request keeps running, and a mutex that is
\* free again and again is handed to a worker waiting for it.
NsFairness == \A w \in Workers : SF_vars(Running(w) \/ NsRunning(w))

NsSpec == NsInit /\ [][NsNext]_vars /\ NsFairness

-----------------------------------------------------------------------------
\* The lookup of kern_path_create and the creation run under the parent's
\* i_mutex, and so does every rename into that parent: no directory ever
\* holds two hashed entries of the same name, whatever creates, links,
\* renames and removals interleave.
NamesUnique ==
    \A o1, o2 \in Objs :
        (o1 # o2 /\ linked[o1] /\ linked[o2] /\ parent[o1] = parent[o2])
            => name[o1] # name[o2]

\* Unlink, rmdir, the creating requests and renames together implement the
\* namespace's atomic operations: every step that changes the tree is one
\* Remove, Create or Move of NamespaceSpec, taken in a state where its
\* conditions hold (the identity maps the tree; the spare objects start
\* out of the share).
NsAbstract == INSTANCE NamespaceSpec WITH InitLinked <- Objs \ Spare

NsRefinesNamespace == NsAbstract!Spec
=============================================================================
