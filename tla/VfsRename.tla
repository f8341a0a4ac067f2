------------------------------ MODULE VfsRename ------------------------------
(***************************************************************************)
(* smb_vfs_rename() of vfs.c, run concurrently by the kworker threads that *)
(* serve SMB requests, over a small directory tree.                        *)
(*                                                                         *)
(* A dentry is an object with a parent directory (d_parent), a leaf name   *)
(* (d_name) and a flag saying whether it is still hashed in that parent.   *)
(* Directory i_mutexes and the superblock's s_vfs_rename_mutex are locks   *)
(* with an owner.  The kernel helpers the handler calls (kern_path,        *)
(* lock_rename, lookup_one_len, vfs_rename, unlock_rename) are modelled by *)
(* what they do to that state; each is one atomic step except the mutex    *)
(* acquisitions of lock_rename, which may block one at a time.             *)
(***************************************************************************)
EXTENDS Naturals, Sequences, FiniteSets, Relation

CONSTANTS
    Workers,      \* kworker threads executing SMB requests
    Root,         \* the share's root directory
    Dirs,         \* the other directories
    Files,        \* regular files
    Names,        \* leaf names a path component may have
    Handles,      \* objects some session has open: the fid table
    BadFid,       \* a fid that get_id_from_fidtable() does not find
    NoObj,        \* a negative dentry, an unresolved path, no trap
    NoLeaf,       \* a path whose last component strrchr() cannot extract
    NoOwner,      \* owner of a free mutex
    RenameMutex,  \* the superblock's s_vfs_rename_mutex
    MaxDepth,     \* the longest parent path of a request, in components
    FidRename,    \* whether requests rename by fid (abs_oldname == NULL)
    InitParent,   \* the share's tree when the workers start: d_parent
    InitName      \* and d_name of every object

Objs    == Dirs \cup Files
AllDirs == {Root} \cup Dirs
Locks   == AllDirs \cup {RenameMutex}

\* The parent path of a request: a sequence of leaf names from the root.
Paths == UNION {[1..k -> Names] : k \in 0..MaxDepth}

ASSUME /\ Root \notin Objs /\ Dirs \cap Files = {}
       /\ Handles \subseteq Objs /\ BadFid \notin Handles
       /\ MaxDepth \in Nat /\ FidRename \in BOOLEAN

VARIABLES
    parent,   \* d_parent of each object
    name,     \* d_name of each object
    linked,   \* the dentry is hashed in its parent (it has not been removed)
    owner,    \* the holder of each directory i_mutex and of the rename mutex
    pc,       \* where each worker is in smb_vfs_rename
    st        \* each worker's locals: dold_p, dnew_p, names, trap, dold, dnew

vars == <<parent, name, linked, owner, pc, st>>

-----------------------------------------------------------------------------
(* The dentry tree.                                                        *)

\* lookup in a directory: the hashed child called n, or a negative dentry.
Child(d, n) ==
    IF \E o \in Objs : linked[o] /\ parent[o] = d /\ name[o] = n
    THEN CHOOSE o \in Objs : linked[o] /\ parent[o] = d /\ name[o] = n
    ELSE NoObj

\* A directory removed from the tree: IS_DEADDIR, lookups in it fail.
Dead(d) == d \in Dirs /\ ~linked[d]

\* kern_path(..., LOOKUP_PARENT): walk a parent path from the share root.
RECURSIVE Walk(_, _)
Walk(d, path) ==
    IF path = <<>> THEN d
    ELSE LET c == Child(d, Head(path))
         IN IF c \in Dirs THEN Walk(c, Tail(path)) ELSE NoObj

\* The d_parent chain above d, followed at most k steps.
RECURSIVE ChainUp(_, _)
ChainUp(d, k) ==
    IF d = Root \/ k = 0 THEN {} ELSE {parent[d]} \cup ChainUp(parent[d], k - 1)

StrictAncestors(d) == ChainUp(d, Cardinality(AllDirs))

\* d_ancestor(p1, p2): the dentry on p2's chain (p2 included) whose parent
\* is p1, if p1 is an ancestor of p2.
DAncestor(p1, p2) ==
    LET chain == ({p2} \cup StrictAncestors(p2)) \ {Root}
    IN IF \E c \in chain : parent[c] = p1
       THEN CHOOSE c \in chain : parent[c] = p1
       ELSE NoObj

-----------------------------------------------------------------------------
(* The handler.                                                            *)

\* The locals of a worker not inside smb_vfs_rename.
NoLocals == [oldp |-> NoObj, oldLeaf |-> NoLeaf, newp |-> NoObj,
             newLeaf |-> NoLeaf, src |-> NoObj, byFid |-> FALSE,
             toLock |-> <<>>, trap |-> NoObj, dold |-> NoObj, dnew |-> NoObj]

ASSUME /\ InitParent \in [Objs -> AllDirs] /\ InitName \in [Objs -> Names]
       /\ \A o1, o2 \in Objs : o1 # o2 =>
              <<InitParent[o1], InitName[o1]>> # <<InitParent[o2], InitName[o2]>>

Init ==
    /\ parent = InitParent
    /\ name = InitName
    /\ linked = [o \in Objs |-> TRUE]
    /\ owner = [l \in Locks |-> NoOwner]
    /\ pc = [w \in Workers |-> "idle"]
    /\ st = [w \in Workers |-> NoLocals]

\* Return from smb_vfs_rename before lock_rename (label out1 and earlier)
\* with the error e.  The returned value is not kept: no property needs it.
Return(w, e) ==
    /\ pc' = [pc EXCEPT ![w] = "idle"]
    /\ UNCHANGED <<parent, name, linked, owner, st>>

\* A failure after lock_rename: jump to out2/out3/out4, which unlock.
Fail(w, e) ==
    /\ pc' = [pc EXCEPT ![w] = "unlock"]
    /\ UNCHANGED <<parent, name, linked, owner, st>>

\* Mutant of Found: the error of kern_path is not checked.
FoundUnchecked(d) == TRUE

\* kern_path succeeded: the parent path resolved to a directory.
Found(d) == d # NoObj

\* Rename with a source path: split both names, resolve both parents.
StartByPath(w) ==
    /\ pc[w] = "idle"
    /\ \E op \in Paths, ol \in Names \cup {NoLeaf},
          np \in Paths, nl \in Names \cup {NoLeaf} :
         LET dold_p == Walk(Root, op)
             dnew_p == Walk(Root, np)
         IN \/ ol = NoLeaf /\ Return(w, "ENOENT")
            \/ ol # NoLeaf /\ ~Found(dold_p) /\ Return(w, "ENOENT")
            \/ ol # NoLeaf /\ Found(dold_p) /\ nl = NoLeaf /\ Return(w, "ENOMEM")
            \/ /\ ol # NoLeaf /\ Found(dold_p) /\ nl # NoLeaf
               /\ ~Found(dnew_p)
               /\ Return(w, "ENOENT")
            \/ /\ ol # NoLeaf /\ Found(dold_p) /\ nl # NoLeaf
               /\ Found(dnew_p)
               /\ pc' = [pc EXCEPT ![w] = "lock_rename"]
               /\ st' = [st EXCEPT ![w] = [@ EXCEPT !.oldp = dold_p,
                            !.oldLeaf = ol, !.newp = dnew_p, !.newLeaf = nl,
                            !.byFid = FALSE, !.src = NoObj]]
               /\ UNCHANGED <<parent, name, linked, owner>>

\* Rename by fid: the source's parent is read from the open file's dentry,
\* with no lock held, before lock_rename.
StartByFid(w) ==
    /\ FidRename
    /\ pc[w] = "idle"
    /\ \E fid \in Handles \cup {BadFid}, np \in Paths, nl \in Names \cup {NoLeaf} :
         LET dnew_p == Walk(Root, np)
         IN \/ fid = BadFid /\ Return(w, "ENOENT")
            \/ fid # BadFid /\ nl = NoLeaf /\ Return(w, "ENOMEM")
            \/ fid # BadFid /\ nl # NoLeaf /\ ~Found(dnew_p) /\ Return(w, "ENOENT")
            \/ /\ fid # BadFid /\ nl # NoLeaf /\ Found(dnew_p)
               /\ pc' = [pc EXCEPT ![w] = "lock_rename"]
               /\ st' = [st EXCEPT ![w] = [@ EXCEPT !.oldp = parent[fid],
                            !.oldLeaf = NoLeaf, !.newp = dnew_p, !.newLeaf = nl,
                            !.byFid = TRUE, !.src = fid]]
               /\ UNCHANGED <<parent, name, linked, owner>>

\* lock_rename(p1, p2) with p1 = p2: mutex_lock on the one directory (it
\* blocks while another worker holds it); there is no trap.
LockRenameSameDir(w) ==
    /\ pc[w] = "lock_rename"
    /\ st[w].oldp = st[w].newp
    /\ owner[st[w].oldp] = NoOwner
    /\ owner' = [owner EXCEPT ![st[w].oldp] = w]
    /\ pc' = [pc EXCEPT ![w] = "lookup"]
    /\ UNCHANGED <<parent, name, linked, st>>

\* Mutant of LockOrder: the directories are locked in argument order.
LockOrderArgs(p1, p2) == <<p1, p2>>

\* Mutant of LockOrder: only the first directory is locked.
LockOrderFirstOnly(p1, p2) ==
    IF DAncestor(p2, p1) # NoObj THEN <<p2>> ELSE <<p1>>

\* lock_rename's order for two directories: an ancestor before its
\* descendant, else p1 before p2.
LockOrder(p1, p2) ==
    IF DAncestor(p2, p1) # NoObj THEN <<p2, p1>> ELSE <<p1, p2>>

\* lock_rename's trap: the child of the ancestor directory on the way to
\* the other one, if one of them is an ancestor of the other.
Trap(p1, p2) ==
    IF DAncestor(p2, p1) # NoObj THEN DAncestor(p2, p1) ELSE DAncestor(p1, p2)

\* lock_rename(p1, p2) with p1 # p2: take s_vfs_rename_mutex, then lock the
\* two directories in LockOrder one at a time.
LockRenameCrossDir(w) ==
    /\ pc[w] = "lock_rename"
    /\ st[w].oldp # st[w].newp
    /\ owner[RenameMutex] = NoOwner
    /\ owner' = [owner EXCEPT ![RenameMutex] = w]
    /\ st' = [st EXCEPT ![w].toLock = LockOrder(st[w].oldp, st[w].newp),
                        ![w].trap = Trap(st[w].oldp, st[w].newp)]
    /\ pc' = [pc EXCEPT ![w] = "lock"]
    /\ UNCHANGED <<parent, name, linked>>

\* One mutex_lock of lock_rename: blocks while another worker holds it.
Acquire(w) ==
    /\ pc[w] = "lock"
    /\ st[w].toLock # <<>>
    /\ owner[Head(st[w].toLock)] = NoOwner
    /\ owner' = [owner EXCEPT ![Head(st[w].toLock)] = w]
    /\ st' = [st EXCEPT ![w].toLock = Tail(@)]
    /\ pc' = [pc EXCEPT ![w] = IF Tail(st[w].toLock) = <<>> THEN "lookup"
                                                            ELSE "lock"]
    /\ UNCHANGED <<parent, name, linked>>

\* Mutant of IsTrap: the trap checks are left out.
IsTrapNever(d, trap) == FALSE

\* dold == trap, dnew == trap: a positive dentry that is the trap.
IsTrap(d, trap) == d # NoObj /\ d = trap

\* With both parents locked: find the source under the old parent (by
\* name, or the fid's own dentry) and refuse a negative dentry or the trap;
\* find the target under the new parent and refuse the trap.  Nothing
\* these lookups read can change while the two directories are locked.
Lookup(w) ==
    /\ pc[w] = "lookup"
    /\ LET s == st[w]
           dold == IF s.byFid THEN s.src ELSE Child(s.oldp, s.oldLeaf)
           dnew == Child(s.newp, s.newLeaf)
           oldOk == (s.byFid \/ ~Dead(s.oldp)) /\ dold # NoObj /\ ~IsTrap(dold, s.trap)
       IN \/ ~s.byFid /\ Dead(s.oldp) /\ Fail(w, "ENOENT")
          \/ (s.byFid \/ ~Dead(s.oldp)) /\ dold = NoObj /\ Fail(w, "ENOENT")
          \/ (s.byFid \/ ~Dead(s.oldp)) /\ dold # NoObj /\ IsTrap(dold, s.trap)
             /\ Fail(w, "EINVAL")
          \/ oldOk /\ Dead(s.newp) /\ Fail(w, "ENOENT")
          \/ oldOk /\ ~Dead(s.newp) /\ IsTrap(dnew, s.trap) /\ Fail(w, "ENOTEMPTY")
          \/ /\ oldOk /\ ~Dead(s.newp) /\ ~IsTrap(dnew, s.trap)
             /\ pc' = [pc EXCEPT ![w] = "vfs_rename"]
             /\ st' = [st EXCEPT ![w].dold = dold, ![w].dnew = dnew,
                                 ![w].oldLeaf = NoLeaf, ![w].trap = NoObj,
                                 ![w].src = NoObj, ![w].byFid = FALSE]
             /\ UNCHANGED <<parent, name, linked, owner>>

\* Mutant of NonEmpty: the filesystem's emptiness check is missing.
NonEmptyNever(d) == FALSE

\* Whether a directory has hashed entries.
NonEmpty(d) == \E o \in Objs : linked[o] /\ parent[o] = d

\* vfs_rename(old_dir, dold, new_dir, dnew), up to the point where it locks
\* a directory target.  source == target returns 0 at once.  may_delete()
\* has BUG_ON(dold->d_parent->d_inode != old_dir): the worker oopses there
\* and never releases its locks.  A source no longer hashed is not found by
\* the filesystem's rename (ENOENT).  A target of the other type is refused.
\* A directory target is locked first (VfsRenameDirTarget); otherwise the
\* file target, if any, is removed and the source moved.
VfsRenameCall(w) ==
    /\ pc[w] = "vfs_rename"
    /\ LET s == st[w]
           d == s.dold
           t == s.dnew
       IN \/ t = d /\ Fail(w, "OK")
          \/ t # d /\ parent[d] # s.oldp
             /\ pc' = [pc EXCEPT ![w] = "oops"]
             /\ UNCHANGED <<parent, name, linked, owner, st>>
          \/ t # d /\ parent[d] = s.oldp /\ ~linked[d] /\ Fail(w, "ENOENT")
          \/ /\ t # d /\ parent[d] = s.oldp /\ linked[d] /\ t # NoObj
             /\ d \in Dirs /\ t \in Files
             /\ Fail(w, "ENOTDIR")
          \/ /\ t # d /\ parent[d] = s.oldp /\ linked[d] /\ t # NoObj
             /\ d \in Files /\ t \in Dirs
             /\ Fail(w, "EISDIR")
          \/ /\ t # d /\ parent[d] = s.oldp /\ linked[d] /\ t # NoObj
             /\ d \in Dirs /\ t \in Dirs
             /\ pc' = [pc EXCEPT ![w] = "vfs_rename_target"]
             /\ UNCHANGED <<parent, name, linked, owner, st>>
          \/ /\ t # d /\ parent[d] = s.oldp /\ linked[d]
             /\ d \in Files /\ t \notin Dirs
             /\ parent' = [parent EXCEPT ![d] = s.newp]
             /\ name' = [name EXCEPT ![d] = s.newLeaf]
             /\ linked' = IF t = NoObj THEN linked ELSE [linked EXCEPT ![t] = FALSE]
             /\ pc' = [pc EXCEPT ![w] = "unlock"]
             /\ UNCHANGED <<owner, st>>
          \/ /\ t # d /\ parent[d] = s.oldp /\ linked[d] /\ d \in Dirs
             /\ t = NoObj
             /\ parent' = [parent EXCEPT ![d] = s.newp]
             /\ name' = [name EXCEPT ![d] = s.newLeaf]
             /\ pc' = [pc EXCEPT ![w] = "unlock"]
             /\ UNCHANGED <<linked, owner, st>>

\* The rest of vfs_rename over a directory target: mutex_lock on the
\* target's i_mutex (blocking), the filesystem refuses a non-empty target
\* (ENOTEMPTY), else the target is removed (S_DEAD) and the source moved;
\* the target's i_mutex is released before vfs_rename returns.
VfsRenameDirTarget(w) ==
    /\ pc[w] = "vfs_rename_target"
    /\ LET s == st[w]
       IN /\ owner[s.dnew] = NoOwner
          /\ \/ NonEmpty(s.dnew) /\ Fail(w, "ENOTEMPTY")
             \/ /\ ~NonEmpty(s.dnew)
                /\ parent' = [parent EXCEPT ![s.dold] = s.newp]
                /\ name' = [name EXCEPT ![s.dold] = s.newLeaf]
                /\ linked' = [linked EXCEPT ![s.dnew] = FALSE]
                /\ pc' = [pc EXCEPT ![w] = "unlock"]
                /\ UNCHANGED <<owner, st>>

\* Mutant of RenameLocks: unlock_rename forgets s_vfs_rename_mutex.
RenameLocksKeepMutex(p1, p2) == IF p1 = p2 THEN {p1} ELSE {p1, p2}

\* The locks unlock_rename(p1, p2) releases.
RenameLocks(p1, p2) == IF p1 = p2 THEN {p1} ELSE {p1, p2, RenameMutex}

\* out2: unlock_rename, then return ret.
Unlock(w) ==
    /\ pc[w] = "unlock"
    /\ owner' = [l \in Locks |->
                   IF l \in RenameLocks(st[w].oldp, st[w].newp) THEN NoOwner
                                                                ELSE owner[l]]
    /\ pc' = [pc EXCEPT ![w] = "idle"]
    /\ st' = [st EXCEPT ![w] = NoLocals]
    /\ UNCHANGED <<parent, name, linked>>

Next ==
    \E w \in Workers :
        \/ StartByPath(w) \/ StartByFid(w)
        \/ LockRenameSameDir(w) \/ LockRenameCrossDir(w) \/ Acquire(w)
        \/ Lookup(w) \/ VfsRenameCall(w) \/ VfsRenameDirTarget(w) \/ Unlock(w)

\* The steps of a worker inside smb_vfs_rename.
Running(w) ==
    \/ LockRenameSameDir(w) \/ LockRenameCrossDir(w) \/ Acquire(w)
    \/ Lookup(w) \/ VfsRenameCall(w) \/ VfsRenameDirTarget(w) \/ Unlock(w)

\* A worker that has been handed a request keeps running it, and a mutex it
\* waits for is handed to it if it is free again and again.  A worker is at
\* one step at a time, so strong fairness of the disjunction is strong
\* fairness of each step.  Requests themselves are not fair.
Fairness == \A w \in Workers : SF_vars(Running(w))

Spec == Init /\ [][Next]_vars /\ Fairness

-----------------------------------------------------------------------------
(* Properties.                                                             *)

\* The places of a worker in smb_vfs_rename.
RenameLabels == {"idle", "lock_rename", "lock", "lookup", "vfs_rename",
                 "vfs_rename_target", "unlock", "oops"}

\* The types of the state, for workers whose places are labels.
TypeOKOver(labels) ==
    /\ parent \in [Objs -> AllDirs]
    /\ name \in [Objs -> Names]
    /\ linked \in [Objs -> BOOLEAN]
    /\ owner \in [Locks -> Workers \cup {NoOwner}]
    /\ st \in [Workers -> [oldp : AllDirs \cup {NoObj}, oldLeaf : Names \cup {NoLeaf},
                           newp : AllDirs \cup {NoObj}, newLeaf : Names \cup {NoLeaf},
                           src : Handles \cup {NoObj}, byFid : BOOLEAN,
                           toLock : Seq(Locks), trap : Objs \cup {NoObj},
                           dold : Objs \cup {NoObj}, dnew : Objs \cup {NoObj}]]
    \* past kern_path, both parents of a rename are directories
    /\ \A w \in Workers : pc[w] \in RenameLabels \ {"idle"} =>
                            st[w].oldp \in AllDirs /\ st[w].newp \in AllDirs
    /\ pc \in [Workers -> labels]

TypeOK == TypeOKOver(RenameLabels)

\* The trap checks of smb_vfs_rename (dold == trap, dnew == trap) keep the
\* namespace a tree: every hashed object reaches the share root through
\* hashed directories, so no rename moves a directory under itself or
\* into a removed directory, whatever renames run at the same time.
TreeAcyclic ==
    \A o \in Objs : linked[o] =>
        /\ Root \in StrictAncestors(o)
        /\ \A a \in StrictAncestors(o) \ {Root} : linked[a]

\* The lock a waiting worker needs: the rename mutex or the next directory.
WaitsFor(w) ==
    CASE pc[w] = "lock_rename" /\ st[w].oldp = st[w].newp -> {st[w].oldp}
      [] pc[w] = "lock_rename" /\ st[w].oldp # st[w].newp -> {RenameMutex}
      [] pc[w] = "lock" /\ st[w].toLock # <<>>            -> {Head(st[w].toLock)}
      [] pc[w] = "vfs_rename_target"                       -> {st[w].dnew}
      [] OTHER                                             -> {}

\* lock_rename's ordering (the rename mutex for two directories, then
\* ancestor before descendant) leaves no cycle of workers each holding a
\* lock another one of them waits for: concurrent renames A->B and B->A
\* never deadlock.
NoCircularWaitOver(WF(_)) ==
    LET R == [p \in Workers \X Workers |->
                \E l \in WF(p[1]) : owner[l] = p[2]]
        C == TransitiveClosure(R, Workers)
    IN \A w \in Workers : ~C[w, w]

NoCircularWait == NoCircularWaitOver(WaitsFor)

\* Every step that changes where an object is in the namespace is taken by
\* a worker that holds the i_mutex of the directory the object is hashed in
\* before the step and of the one it is hashed in after it (vfs_rename
\* under lock_rename): the worker whose step it is, the one whose place or
\* locals change.
NamespaceChangesUnderLocks ==
    [][\A o \in Objs :
         <<parent[o], name[o], linked[o]>> # <<parent'[o], name'[o], linked'[o]>> =>
             \E w \in Workers :
                /\ <<pc[w], st[w]>> # <<pc'[w], st'[w]>>
                /\ linked[o] => owner[parent[o]] = w
                /\ linked'[o] => owner[parent'[o]] = w]_vars

\* A worker that has returned from its request holds no directory i_mutex
\* and not the rename mutex: every exit path releases what it took.
IdleHoldsNoLock ==
    \A w \in Workers : pc[w] = "idle" => \A l \in Locks : owner[l] # w

\* Every rename that has started returns, releasing its locks: no exit
\* path of smb_vfs_rename leaves a directory or the rename mutex locked.
RenameCompletes ==
    \A w \in Workers : pc[w] # "idle" ~> pc[w] = "idle"

\* When vfs_rename is called the worker holds both parents' locks and the
\* source still is a child of the directory it locked as its old parent
\* (the condition may_delete() asserts with BUG_ON).
RenameHoldsSourceParent ==
    \A w \in Workers : pc[w] = "vfs_rename" =>
        /\ owner[st[w].oldp] = w
        /\ owner[st[w].newp] = w
        /\ parent[st[w].dold] = st[w].oldp


\* smb_vfs_rename implements the namespace's atomic rename: under the
\* identity mapping of the tree, every step of the workers either leaves
\* the tree alone or is one legal Move of NamespaceSpec; lock_rename, the
\* lookups under the locks and the trap checks make the many steps of a
\* rename look like one.
AbsNamespace == INSTANCE NamespaceSpec WITH InitLinked <- Objs

RenameRefinesNamespace == AbsNamespace!Spec
=============================================================================
