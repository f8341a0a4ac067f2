# TLA+ models of the cifsd VFS layer

This directory holds TLA+ specifications of the VFS helper layer of the cifsd
SMB server (`src/unnamed/part_000`). That layer is the code between the SMB
request handlers and the Linux VFS. The specifications are checked with TLC.
Every definition is written from the C source, and `PROJECT.json` maps each one
to the lines it models.

## 1. The system

The layer has no threads of its own. Each SMB request runs on a kernel
worker, and several workers can be inside these helpers at the same time,
touching the same files and directories. All state that is shared between
workers belongs to the kernel or to other parts of cifsd:

* the dentry tree, which records each object's parent and name, and whether it
  is still linked;
* the directory `i_mutex` locks and the per-superblock `s_vfs_rename_mutex`;
* each inode's size and POSIX byte-range locks;
* the oplock table, protected by `ofile_list_lock`;
* the fid table, which maps an SMB fid to a `struct file`.

| Part (spec section) | Functions (line numbers in `part_000`) | Shared state it touches |
|---|---|---|
| Rename Coordinator (4.5) | `smb_vfs_rename` 611-738 | dentry tree, directory i_mutex, s_vfs_rename_mutex |
| Namespace operations (4.1) | `create` 41, `mkdir` 71, `rmdir` 427, `unlink` 457, `link` 498, `symlink` 549, `readlink` 579 | dentry tree, parent i_mutex |
| I/O Path Orchestrator (4.7) | `read` 106, `write` 190, `truncate` 749 (`fsync` 401 not modelled) | i_size, byte-range locks, oplocks |
| Byte-Range Lock Gate (4.3) | `smb_vfs_locks_mandatory_area` 965, `smb_vfs_lock` 949 | the inode's POSIX lock list |
| Lease Revocation Trigger (4.4) | the `smb_breakII_oplock` calls at 219-224 and 778-782 | oplock table under `ofile_list_lock` |
| Attribute Sanitizer (4.6) | `smb_check_attrs` 250, `smb_vfs_setattr` 286, `getattr` 374 | inode mode/uid/gid/size, i_mutex |
| Extended attributes (4.1) | `listxattr` 816, `getxattr` 851, `setxattr` 882 | xattrs of the inode |
| Hints and readdir | `set_fadvise` 913, `readdir` 997 | f_flags, f_mode |
| Handle Resolver (4.2) | `get_id_from_fidtable`, which is outside this repository | fid table |

How the parts interact:

* Read, write and truncate resolve a fid, probe the Lock Gate, then write or
  truncate (write and truncate first trigger a lease break).
* Rename, unlink and rmdir lock parent directories. A rename can move a
  file out from under a concurrent unlink, and a concurrent rename by fid.

* Setattr and the xattr helpers work on one inode's mode, owner, size, write
  count and extended attributes. Setattr's size change meets execve's
  `deny_write_access` and mandatory locks.

`compat.h` supplies `kuid_t`/`kgid_t`, `done_path_create` and `kvfree` to
old kernels, and `part_002` supplies `uid_eq`/`gid_eq`; they are modelled
where they are used (`VfsAttr`, `VfsNamespace`). The rest of `part_002`
and `part_001` only convert or iterate, and the `Makefile` is the build.

## 2. What is modelled

### VfsRename: the Rename Coordinator

The module models `smb_vfs_rename`, together with the kernel routines it calls:

* `lock_rename` and `unlock_rename`;
* `lookup_one_len`;
* `vfs_rename`, including `may_delete`'s `BUG_ON` and the locking of a directory
  target.

The state of the module:

* **Namespace.** `parent`, `name` and `linked` form the dentry tree, over the
  model values `Root`, `Dirs` and `Files`.
* **Locks.** `owner` records who holds each directory `i_mutex` and the rename
  mutex (`NoOwner` when it is free).
* **Workers.** `pc` is each worker's place in the function. `st` holds its
  locals:
  * `dold_p`, `dnew_p` and the two leaf names;
  * the dentries `dold` and `dnew`;
  * the lock sequence still to take, and the trap.

Each action is one step of the C function:

| Action | Code |
|---|---|
| `StartByPath` | `kern_path` of both parents and extraction of the leaf names (621-656), with every early return |
| `StartByFid` | the fid case (657-683): `dold_p` is read from `filp->f_path.dentry->d_parent` with no lock |
| `LockRenameSameDir`, `LockRenameCrossDir`, `Acquire` | `lock_rename` (686): one mutex if `p1 == p2`; otherwise the rename mutex, then both parents in ancestor-first order (`d_ancestor`), and the trap returned |
| `Lookup` | the two lookups and the trap checks (687-717), with all four error exits |
| `VfsRenameCall`, `VfsRenameDirTarget` | `vfs_rename` (719-725): no-op when source == target, ENOTDIR/EISDIR, ENOENT for an unhashed source, the `BUG_ON` of `may_delete` (a worker that hits it stops in `oops` with its locks held), the target's i_mutex, ENOTEMPTY |
| `Unlock` | `unlock_rename` on every exit label (727-737) |

Three bounded inputs keep the state space small:

* Paths have at most `MaxDepth` components (1 in every run).
* A rename can address any existing or missing name.
* Request arguments are chosen with `\E` from small sets.

### Runs

| Run | cfg | Checks | Result |
|---|---|---|---|
| `rename_fid` | `MC_VfsRename_fid.cfg` | `TypeOK`, `TreeAcyclic`, `NoCircularWait`, `NamespaceChangesUnderLocks`, `RenameRefinesNamespace`; renames by path and by fid | pass, about 1.4M states |
| `rename_live` | `MC_VfsRename_live.cfg` | `RenameCompletes` | pass |
| `rename_fid_race` | `MC_VfsRename_fid_race.cfg` | `RenameHoldsSourceParent` | violation (a code bug) |

What the properties mean:

* **`TreeAcyclic`.** Every linked object reaches `Root` through linked
  directories. This needs the trap checks and the dead-directory `ENOENT` of
  `lookup_one_len`.
* **`NoCircularWait`.** The waits-for relation between workers has no cycle.
  Locking in argument order instead breaks it. The deadlock that follows also
  involves a same-directory rename that locks a directory target.
* **`NamespaceChangesUnderLocks`.** This is an action property: any step that
  changes an object's parent, name or link is taken by a worker holding both
  the old and the new parent.
* **`RenameRefinesNamespace`.** Every behaviour of the workers is a
  behaviour of `NamespaceSpec` (below) under the identity mapping of
  `parent`, `name` and `linked`. So each namespace-changing step is one
  atomic move that the abstract rules allow. A mutant whose trap never
  fires moves a directory into its own child and breaks it.
* **`RenameCompletes`.** Every started rename returns, so no exit path leaves a
  lock held.
* **`RenameHoldsSourceParent`.** It fails as follows:
  1. Worker 1 holds `root` and `d1` while moving `f1` into `d1`.
  2. Worker 2 starts a rename of `f1` by fid and reads `d_parent = root`.
  3. Worker 2 waits for `root`, then gets it.
  4. `vfs_rename` then runs with a source that is not in the locked directory.

  In the kernel this is `BUG_ON(victim->d_parent->d_inode != dir)`. The
  worker dies holding both directory locks and the rename mutex (see
  `findings` in `PROJECT.json`).

In the fid run the `BUG_ON` stops the stale rename before it changes the
namespace. That is why `TreeAcyclic` and `NamespaceChangesUnderLocks` hold
there. The fid run sets `CHECK_DEADLOCK FALSE` because a worker that oopses
keeps its locks for ever, which is what the kernel does.

Bounds:

* Two workers.
* Two directories nested as `root/d1/d2` and one file `f1` in `root`.
  The `rename_live` run uses the same directories without the file.
* Two names and paths of depth 1.

These bounds are enough for every interesting case:

* a cross-directory rename in both directions;
* a directory moved into its own child, which hits the trap;
* a rename over a non-empty directory;
* a directory emptied and removed while the other worker waits on it;
* the fid race.

### NamespaceSpec: what the namespace operations promise

`NamespaceSpec` is the abstract specification of the share's tree (spec 4.1
and 4.5), with no locks, lookups or workers. It has three atomic steps:

* `Move(s, d, n)`: a linked object becomes entry `n` of a live directory `d`,
  never into itself or its own subtree. A target of the same kind is replaced;
  a directory target must be empty.
* `Remove(o)`: a file or an empty directory is unlinked.
* `Create(o, d, n)`: an unlinked object becomes a free entry of a live
  directory.

`VfsRename` and `VfsNamespace` both instantiate it with `INSTANCE ... WITH`,
and check the instance's `Spec` as a `PROPERTY`.

### Fairness

`Fairness` is strong fairness for each worker over all of its non-start
steps (`Running(w)`). A worker waiting on a mutex is enabled only while the
mutex is free. That happens infinitely often, not continuously. The kernel
mutex hands the lock over to queued waiters, so strong fairness is the right
assumption. Starting a request is not fair: clients need not send anything.

### VfsIO: the I/O Path Orchestrator, Lock Gate and Lease Revocation Trigger

The module covers one regular file and models:

* `smb_vfs_read`, `smb_vfs_write` and `smb_vfs_truncate`, by path and by fid;
* the byte-range probe `smb_vfs_locks_mandatory_area`;
* the level-II break made under `ofile_list_lock`.

Each open (`struct file`) is a worker that runs one request at a time. It is
also the lock owner the probe uses (`fl_owner = filp`).

The state of the module:

| Variable | What it holds |
|---|---|
| `isize` | `i_size` |
| `locks` | the inode's POSIX lock list |
| `oplock` | the level-II oplock of each open |
| `oplocks_enable` | the module parameter, chosen at Init |
| `pc`, `st` | each request's place in its function, and its locals |

Each action is one step of the C code:

| Action | Code |
|---|---|
| `ReadStart`, `ReadProbe`, `ReadIO` | read: the count-0 and unknown-fid returns (119-126), the `F_RDLCK` probe over `[pos, pos+count-1]` (132), vmalloc and `vfs_read` (no shared state changes) |
| `WriteStart`, `WriteProbe`, `WriteBreak`, `WriteIO` | write: the unknown-fid return, the `F_WRLCK` probe (208, no count-0 test), the level-II break under `ofile_list_lock` when `oplocks_enable` (218-224), `vfs_write` failing, or passing `rw_verify_area` and extending `i_size`; the `sync` flush (235-242) changes nothing the model keeps |
| `TruncStart`, `TruncBreak`, `TruncProbe`, `TruncIO` | truncate: by path straight to `vfs_truncate`; by fid, the break when `oplocks_enable`, otherwise the probe of `[size, i_size-1]` or `[i_size, size-1]` with `i_size` read unlocked (785); then `vfs_truncate` |
| `SetLock`, `Unlock` | `smb_vfs_lock` with `F_SETLK` or `F_UNLCK`, made by other requests of an open; one lock per open |
| `GrantLevelII` | the oplock code (outside this repository) granting a level-II oplock |

The probe (`ProbeRefused`) has two cases. With no lock on the inode it
returns at once. Otherwise it is the kernel's FL_ACCESS check:

* a lock of another owner conflicts when one of the two is a write lock and
  `locks_overlap` holds (`e1 >= s2 /\ e2 >= s1`);
* an empty range `[p, p-1]` therefore still overlaps a lock covering both
  `p-1` and `p`.

Offsets are `loff_t` values of `LoffBits` bits. `LoffT` converts a number
to `loff_t` by two's-complement wrapping. `ProbeEnd` is
`LoffT(pos + count - 1)`, as the C code computes `*pos + count - 1` (132,
208). Near `OFFSET_MAX` (`LoffMax`) that end wraps negative. The probe range
is then empty and the probe admits the request whatever locks it names.
`RwVerifyArea` is the kernel's `rw_verify_area` inside `vfs_read` and
`vfs_write`: `-EINVAL` when `pos + count`, as a `loff_t`, is negative.
`Transfers(w)` is a step of `ReadIO` or `WriteIO` that passes that check and
so may move the request's bytes. Requests may name any offset up to
`OFFSET_MAX`, as a client can. Locks may reach `OFFSET_MAX`, as a lock to
end of file does. The file may grow to `s_maxbytes`, taken to be
`OFFSET_MAX` (`MaxOff = LoffMax`).

The properties:

* **`GateAdmitsOnlyUnlocked`** (pass, run `io_locks`). It is an action
  property: a read, write or truncate that the VFS can carry out gets past
  the probe only if no other open holds a lock over a byte it touches, in a
  mode that excludes it. This is the spec's conflict rule (4.3), stated on
  bytes rather than on range ends. It is checked for every request whose
  last byte `pos + count - 1` is a `loff_t`: one-byte requests at 0 and 1
  and the two-byte request `[0, 1]`. An off-by-one in `*pos + count - 1`
  breaks it: the probe of `[0, 1]` stops at 0 and misses another open's
  lock on byte 1. A request whose last byte passes `OFFSET_MAX` is left to
  `NoTransferAcrossLock`, because there the probe does admit requests over
  locked bytes.
* **`NoTransferAcrossLock`** (pass, run `io_locks`). When `vfs_read` or
  `vfs_write` may move the bytes `[pos, pos+count-1]`, none of them lies
  under a lock of another open that excludes the access, was held when the
  request probed, and is held still. The probe is advisory (4.3), so a lock
  taken inside the window is not counted; `snap` keeps the locks the probe
  saw. The property holds although the probe end wraps: every request whose
  probe range wrapped empty also has `pos + count` past `OFFSET_MAX`, and
  `rw_verify_area` refuses it. A mutant that drops that check in
  `rw_verify_area` breaks it: a 2-byte read or write at `OFFSET_MAX`
  crosses another open's lock on `OFFSET_MAX`.
* **`RefusedOnlyOnOverlap`** (violation). A zero-byte write is refused by
  a lock around `pos`. Read has a `count == 0` return, write does not. A
  truncate to the current size is refused the same way.
* **`TruncateRespectsLocks`** (violation). It fails as follows:
  1. Open 2 locks byte 0.
  2. Open 1's truncate to 0 probes while `i_size` is 0, so the probed range is
     empty.
  3. Open 2 grows the file.
  4. `vfs_truncate` then cuts off the byte open 2 held locked all along.

  The auxiliary locals `seen` and `snap` keep the size and the other opens'
  locks that the probe saw.
* **`NoLevelIIDuringWrite`** (violation). `ofile_list_lock` is released
  between the break and `vfs_write`. A level-II oplock granted in that window
  is held while the data changes.

Bounds: two opens (they are symmetric), and requests of at most 2 bytes.
The pass run `io_locks` uses a 2-bit `loff_t`: `OFFSET_MAX` is 1, so the
offsets are 0 and 1 and the file has at most 1 byte. That is the smallest
width at which `*pos + count - 1` wraps: position 1 with 2 bytes gives -2.
Every lock range is possible, including one that reaches `OFFSET_MAX`, as
are cross-owner overlaps at both ends of a request, wrapped and unwrapped
requests, and growing and shrinking truncates. A truncate there changes
one byte; ranges of two bytes are checked through reads and writes only. It
has about 1M states and takes about 20 seconds. A 3-bit `loff_t` gives
more than 11M states at depth 8, with the queue still growing, and does
not finish in minutes. The three violation runs use the
3-bit width (a file of up to 3 bytes); TLC finds their counterexamples in
seconds.

No fairness is assumed. Nothing here waits: the probe is non-blocking, and
the break is a short critical section, modelled as one step.

### VfsNamespace: the namespace operations beside rename

`VfsNamespace` extends `VfsRename` with `smb_vfs_unlink` (457-489),
`smb_vfs_rmdir` (427-449), `smb_vfs_create` (41-63), `smb_vfs_mkdir`
(71-97), `smb_vfs_link` (498-541) and `smb_vfs_symlink` (549-571). They run
on the same workers, over the same dentry tree and `i_mutex` locks (`owner`).

Unlink and rmdir use `path.dentry->d_parent` three times:

1. for `mutex_lock_nested`. It is read before the call blocks
   (`ReadParent`, then `UnlinkLock` or `RmdirLock`);
2. for the vfs call (`UnlinkCall`, `RmdirCall`);
3. for `mutex_unlock` (`UnlockParent`).

A rename can change `d_parent` between any two of these.

The unlink and rmdir steps:

* `UnlinkCall` skips a file whose `i_nlink` is already 0. It refuses a
  directory (`-EISDIR`) and otherwise unlinks the file. All three cases go
  to the `skip:` unlock (`UnlinkExit`).
* `RmdirCall` stops on a dead parent directory.
* `RmdirVictim` is the rest of `vfs_rmdir`. It blocks on the victim's own
  `i_mutex` (`VictimLock`), then does one of three things:
  * fails with `-ENOENT` if the entry was removed or moved;
  * fails with `-ENOTEMPTY` if the directory is not empty;
  * otherwise removes the directory.

Create, mkdir and symlink go through `kern_path_create`, and link resolves
its source first (`LinkStart`). Their steps:

* `MkStart` walks the parent path.
* `PathCreateLock` blocks on the parent's `i_mutex` and looks the leaf up
  under it. `-EEXIST` unlocks and returns.
* `CreateCall`, `MkdirCall`, `SymlinkCall` and `LinkCall` are the vfs
  calls:
  * `-ENOENT` in a dead directory;
  * for link, `-EPERM` on a directory source and `-ENOENT` on a source that
    is already unlinked;
  * `-ENOSPC` when no object is left;
  * otherwise a new entry.
* `DonePathCreate` unlocks `path->dentry` (compat.h `done_path_create`).

A new inode is an object of the constant set `Spare`. Such an object is
unlinked, and no handle or worker's locals name it.

Two constants keep the state space small:

* `CrossDirRename` restricts renames to one parent directory when it is
  FALSE.
* `Requests` says which kinds of request the workers issue.

| run | cfg | properties | result |
|---|---|---|---|
| `ns_samedir` | `MC_VfsNamespace_samedir.cfg` | `TreeAcyclic`, `IdleHoldsNoLock`, `NamesUnique`, `NamespaceChangesUnderLocks`, `RenameCompletes`, `NsRefinesNamespace` | pass, about 555k states in 2-3 minutes |
| `ns_unlink_race` | `MC_VfsNamespace_unlink_race.cfg` | `IdleHoldsNoLock` | violation |

* **`IdleHoldsNoLock`.** A request that has returned holds no `i_mutex`.
  With renames inside one directory, `d_parent` never changes, so the
  property holds. A mutant that returns past the unlock on the
  `i_nlink == 0` path breaks it.
* **`NamesUnique`.** No directory holds two linked entries of the same name,
  whatever creates, links, renames and removals interleave. This holds
  because the lookup of `kern_path_create` runs under the parent's lock. A
  mutant that takes the parent without waiting for it breaks it.
* **`RenameCompletes`.** Its formula covers every worker whose `pc` is not
  `idle`, so in this run it says that every started request of the seven
  kinds returns. That includes the exits of `kern_path_create` on
  `-EEXIST` and of unlink on an `i_nlink == 0` file.
* **`NsRefinesNamespace`.** All seven operations together implement
  `NamespaceSpec`; the objects of `Spare` start outside the share. A
  mutant whose emptiness test (`NonEmpty`, shared with rename) never finds
  an entry breaks it through rmdir: a directory with an entry is removed,
  which no `Remove` of the abstract namespace allows.
* **`ns_unlink_race`.** Cross-directory renames are allowed here, and
  `IdleHoldsNoLock` fails after 13 steps:
  1. Unlink reads `d_parent = root`.
  2. A rename moves the file into `d1` and unlocks.
  3. Unlink takes `root` and removes the file from `d1`, which it does not
     hold.
  4. Unlink unlocks `d1` and returns still owning `root`.

  Every later request on `root` blocks for ever. `rmdir` has the same
  pattern. This is recorded as a code bug.

Bounds and fairness:

* `ns_samedir` issues all seven requests, by path and by fid, with two
  workers. The share is `root` with one directory `d1`, the file `f1` and
  the spare `f2`, and two names. So a creation can meet `-EEXIST`, `-ENOSPC`
  and a parent removed meanwhile.
* `ns_unlink_race` issues rename, unlink and rmdir only, over `root/d1/d2`.
* The fairness is that of `VfsRename`, extended to every non-start step of
  the new requests. A kernel mutex that is free again and again is
  eventually handed to its waiter.

### VfsAttr: setattr and the extended attributes

`VfsAttr` models one inode and these functions:

* `smb_vfs_setattr` (286-364) and the sanitizer `smb_check_attrs` (250-275);
* `smb_vfs_getxattr` (851-869), `smb_vfs_setxattr` (882-906) and
  `smb_vfs_listxattr` (816-840).

Each worker is a server thread, and the caller of listxattr frees the list
with `kvfree`. An `execve` of the file (`deny_write_access`) and a
mandatory lock of another process come and go as environment actions.

The state of the module:

* **Inode.** `imode` holds the type bit and the permission bits as names.
  `iuid` and `igid` are `kuid_t`/`kgid_t` records. `isize`, `writecount`
  (`i_writecount`) and `xattr` (each value's length) complete it.
* **Buffers.** `listbuf` says which callers hold a list, and `vmalloc_live`
  counts the list buffers not yet freed. `xattr_buf` is each caller's
  getxattr buffer: its capacity and the bytes written.

The setattr steps:

| Action | Code |
|---|---|
| `SetattrStart` | the symlink `ATTR_MODE` drop, the empty-request return, `smb_check_attrs` reading the inode without `i_mutex` (318-328) |
| `SetattrGetWrite` | `get_write_access`, `-ETXTBSY` while an execve denies writes (329-332) |
| `SetattrVerify` | `locks_verify_truncate`, and `put_write_access` on failure (334-339) |
| `SetattrNotify` | `ATTR_CTIME`, then `notify_change` under `i_mutex`, then `put_write_access` (342-353) |

`notify_change` is one step, because it runs under `i_mutex`. In it,
`ATTR_KILL_SUID`/`SGID` become a mode change computed from the current
`i_mode`, and `ATTR_KILL_PRIV` removes the capability xattr.

The xattr steps:

* `GetxattrSize` and `GetxattrRead` are the two `vfs_getxattr` calls, with
  the `-ENOMEM` check between them.
* `Setxattr` honours `XATTR_CREATE` and `XATTR_REPLACE`.
* `Listxattr` clamps the size to `XATTR_LIST_MAX`, calls vmalloc (which
  fails when `VmallocCap` buffers are live) and then `vfs_listxattr`.

| run | cfg | properties | result |
|---|---|---|---|
| `attr_ops` | `MC_VfsAttr_ops.cfg` | `AttrTypeOK`, `WriteAccessBalanced`, `GetxattrWithinBuffer`, `CheckAttrsAsSpecified` | pass, about 1.7M states in under a minute |
| `attr_chown_race` | `MC_VfsAttr_chown_race.cfg` | `ChownClearsSetuid` | violation |
| `attr_list_leak` | `MC_VfsAttr_list_leak.cfg` | `ListBufferOwned` | violation |

* **`WriteAccessBalanced`.** `i_writecount` is always the number of setattr
  calls holding write access less the running execve calls. A mutant that
  skips `put_write_access` when `locks_verify_truncate` fails breaks it.
* **`GetxattrWithinBuffer`.** No getxattr writes past `buf_len`, though a
  concurrent setxattr can grow the value between the two calls. The second
  call's size limit is what protects the buffer: a mutant that passes a
  larger size breaks it.
* **`CheckAttrsAsSpecified`.** It compares every request in flight, against
  the inode it read, with the rules of spec 4.6, which are written as
  conditions on the result rather than as the code's steps. A mutant that
  tests `S_IXGRP` on the old mode breaks it. Spec 8 words the rule that
  way, on the "current mode"; spec 4.6 and the code use the new mode.
* **`attr_chown_race`.** `ChownClearsSetuid` fails as follows:
  1. Thread 2 sanitizes "chown to u1 with a set-id chmod" while u1 owns the
     file. It sees no owner change and keeps `S_ISUID`.
  2. Thread 1's chown to u2 completes.
  3. Thread 2's `notify_change` gives the file back to u1 with `S_ISUID`
     set.

  The kernel's own chown path decides under `i_mutex`, but cifsd decides
  before taking it.
* **`attr_list_leak`.** `smb_vfs_listxattr` keeps the vmalloc'd list only
  when `vfs_listxattr` returns a positive length. With no xattrs, or a list
  larger than the buffer, the buffer is lost.

Bounds:

* Two symmetric threads.
* Two uids and one gid.
* The inode is a regular file or a symlink, starting with `S_ISUID` and
  `S_IXGRP`.
* Four requests: a chown with a set-id chmod, a plain chown, a truncate,
  and a chmod whose mode carries a type bit.
* One xattr (the capability, so killpriv matters) with values of length up
  to 2 and a getxattr buffer of 1, so a value can outgrow the buffer.
* `XATTR_LIST_MAX` is 3 and the caller sizes are 0, 2 and 5, so the
  zero-size probe, `-ERANGE` and the clamp all occur.

No fairness is assumed: no step here waits, because `i_mutex` is held only
inside single steps.

## 3. Plan and what is not modelled

Done:

* rename, the I/O path (read, write and truncate), all the namespace operations, setattr and the
  xattr helpers;
* the abstract namespace and its two refinements.

Still open:

* in VfsIO, several locks per open (POSIX merging and splitting, done by
  the kernel's `posix_lock_file`);
* the lock order of rmdir (parent, then victim, 439-441) against renames
  across directories: in that setting unlink and rmdir already fail
  `IdleHoldsNoLock` through their stale parent read, and `ns_samedir`
  keeps renames inside one directory, where no wait cycle can form;
* in VfsIO, a 3-bit `loff_t` for the pass run, which is beyond TLC's reach
  within minutes (see the bounds above);
* a bounded check of `smb_check_attrs` over every inode and request, beside
  the check of the requests the runs issue.

Observed in the code but not checked:

* `smb_vfs_read` clears `O_DIRECT` before `vfs_read` (162). The comment
  there explains why: direct I/O needs the caller's `mm`, and the kworkers
  that run these requests have none. `smb_vfs_write` does not clear it.
  So a handle opened with `FILE_NO_INTERMEDIATE_BUFFERING`, for which
  `smb_vfs_set_fadvise` sets `O_DIRECT` (924), writes with direct I/O
  from a kworker. Spec 4.7 says the server always performs buffered I/O.
  The outcome lies in the kernel's direct-I/O path, outside this layer,
  and no module models the hints, so it is recorded here and not checked.

* Truncate by fid with `oplocks_enable` breaks level-II oplocks and skips
  the byte-range probe (778). The spec keeps this on purpose (4.7), and a
  test reaches it directly, so no property is stated for it.
  `TruncateRespectsLocks` is stated for truncates that probed.

* `smb_vfs_link` tests `LOOKUP_FOLLOW & LOOKUP_REVAL` (512), which is always
  0.
* The debug condition of `smb_vfs_symlink` (563) is always true.
* `notify_change` can fail after `ATTR_KILL_PRIV` has already removed the
  capability xattr. This is a partial update that the kernel's failure
  paths (quota, for instance) would expose.

Not modelled:

* `part_001`, the rest of `part_002` (`from_kuid`, `i_uid_write`,
  `uid_valid`), the hlist macros and `file_inode` of `compat.h`, and the
  build;
* `smb_vfs_fsync` and the `sync` flush of `smb_vfs_write`: what is on disk
  is not kept, and no property here tells flushed bytes from others;
* `readdir`, which forwards to `iterate_dir` and holds no state;
* `readlink` and `getattr`, which only read;
* `set_fadvise`, which sets open-time hints only;
* `sync_inode_metadata`, which changes no modelled state;
* crashes: nothing this layer keeps survives one, and the file system, not
  this layer, recovers from it;
* data contents, names as strings, and logging.
