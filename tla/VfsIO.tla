------------------------------- MODULE VfsIO -------------------------------
(***************************************************************************)
(* The I/O path of the cifsd VFS layer over one regular file:             *)
(* smb_vfs_read, smb_vfs_write and smb_vfs_truncate, the byte-range probe  *)
(* smb_vfs_locks_mandatory_area they call, and the level-II oplock break   *)
(* they make under ofile_list_lock.  Every open of the file is a worker:   *)
(* it runs one request at a time, and it is the lock owner the probe uses  *)
(* (fl_owner = filp).  Byte-range locks (smb_vfs_lock, i.e. F_SETLK) and   *)
(* level-II oplock grants come from other requests and from the oplock     *)
(* code; they are environment actions.  File data is abstracted to which  *)
(* bytes a step changes.                                                   *)
(***************************************************************************)
EXTENDS Integers, FiniteSets

CONSTANTS
    Opens,      \* the open files (struct file) of the inode; lock owners
    LoffBits,   \* the width of loff_t (64 in the kernel)
    MaxOff,     \* s_maxbytes: the file size is at most MaxOff
    MaxCount    \* largest count of a read or write request

(* The largest loff_t, OFFSET_MAX.  The file may grow to the top of        *)
(* loff_t (MAX_LFS_FILESIZE), so s_maxbytes is taken to be OFFSET_MAX.     *)
LoffMax == 2^(LoffBits - 1) - 1

ASSUME LoffBits \in Nat \ {0, 1} /\ MaxOff = LoffMax /\ MaxCount \in Nat

(* A value converted to loff_t: two's complement, LoffBits wide.           *)
LoffT(x) == ((x + 2^(LoffBits - 1)) % 2^LoffBits) - 2^(LoffBits - 1)

(* The non-negative offsets a request or a lock can name.                  *)
Offsets == 0..LoffMax
LockTypes == {"F_RDLCK", "F_WRLCK"}

VARIABLES
    isize,          \* inode->i_size
    locks,          \* the inode's POSIX lock list (i_flctx->flc_posix)
    oplock,         \* level-II oplock held by each open, from the oplock code
    oplocks_enable, \* the module parameter oplocks_enable
    pc,             \* where each open's current request is
    st              \* the request's locals

vars == <<isize, locks, oplock, oplocks_enable, pc, st>>

Lock(o, t, s, e) == [owner |-> o, type |-> t, start |-> s, end |-> e]

NoLocals == [op |-> "none", pos |-> 0, count |-> 0, size |-> 0,
             probed |-> FALSE, seen |-> 0, snap |-> {}]

(* Bytes [first, last]; empty when last < first.                           *)
Range(first, last) == {b \in Offsets : first <= b /\ b <= last}

-----------------------------------------------------------------------------
(* posix_lock_file with FL_ACCESS: the probe lock of owner o conflicts     *)
(* with a held lock of another owner when the ranges overlap               *)
(* (locks_overlap) and one of the two is a write lock.                     *)
LocksOverlap(s1, e1, s2, e2) == e1 >= s2 /\ e2 >= s1

Conflicts(l, o, t, s, e) ==
    /\ l.owner # o
    /\ "F_WRLCK" \in {l.type, t}
    /\ LocksOverlap(s, e, l.start, l.end)

(* smb_vfs_locks_mandatory_area: 0 at once when the inode has no POSIX     *)
(* lock, otherwise the FL_ACCESS probe; -EAGAIN on a conflict.             *)
ProbeRefused(o, t, s, e) ==
    /\ locks # {}
    /\ \E l \in locks : Conflicts(l, o, t, s, e)

(* The last byte of a request: *pos + count - 1, a loff_t plus a size_t   *)
(* passed as the loff_t end; near OFFSET_MAX it wraps to a negative end,   *)
(* and the probe range [pos, end] is then empty.                           *)
ProbeEndOffByOne(pos, count) == LoffT(pos + count - 2)
ProbeEnd(pos, count) == LoffT(pos + count - 1)

(* rw_verify_area, called by vfs_read and vfs_write: -EINVAL when the end  *)
(* of the access, pos + count as a loff_t, is negative.                    *)
RwVerifyAreaNoWrap(pos, count) == TRUE
RwVerifyArea(pos, count) == LoffT(pos + count) >= 0

(* smb_breakII_oplock: the level-II oplocks of the other opens are broken. *)
BreakLevelII(w) == [o \in Opens |-> IF o = w THEN oplock[o] ELSE "none"]

Init ==
    /\ isize \in 0..MaxOff
    /\ locks = {}
    /\ oplock = [o \in Opens |-> "none"]
    /\ oplocks_enable \in BOOLEAN
    /\ pc = [o \in Opens |-> "idle"]
    /\ st = [o \in Opens |-> NoLocals]

(* A request returns: its locals die with it.                              *)
Return(w) ==
    /\ pc' = [pc EXCEPT ![w] = "idle"]
    /\ st' = [st EXCEPT ![w] = NoLocals]

Goto(w, l) == pc' = [pc EXCEPT ![w] = l]

Requests == {[pos |-> p, count |-> c] : p \in Offsets, c \in 0..MaxCount}

-----------------------------------------------------------------------------
(* smb_vfs_read, lines 106-130: count 0 returns 0 and a fid not in the    *)
(* fid table returns -ENOENT, both before anything is touched.  The        *)
(* modelled inode is a regular file, so the -EISDIR return is not taken.   *)
ReadStart(w) ==
    /\ pc[w] = "idle"
    /\ \/ Return(w)
       \/ \E r \in Requests :
            /\ r.count > 0
            /\ Goto(w, "read_probe")
            /\ st' = [st EXCEPT ![w] = [NoLocals EXCEPT
                        !.op = "read", !.pos = r.pos, !.count = r.count]]
    /\ UNCHANGED <<isize, locks, oplock, oplocks_enable>>

(* Lines 132-138: the read probe over [pos, pos + count - 1]; snap keeps  *)
(* the other opens' locks the probe saw, for NoTransferAcrossLock only.    *)
ReadProbe(w) ==
    /\ pc[w] = "read_probe"
    /\ LET s == st[w] IN
       IF ProbeRefused(w, "F_RDLCK", s.pos, ProbeEnd(s.pos, s.count))
       THEN Return(w)
       ELSE /\ Goto(w, "read_io")
            /\ st' = [st EXCEPT ![w].probed = TRUE,
                                ![w].snap = {l \in locks : l.owner # w}]
    /\ UNCHANGED <<isize, locks, oplock, oplocks_enable>>

(* Lines 140-175: vmalloc may fail (-ENOENT), vfs_read may fail, or it    *)
(* reads the bytes below i_size; none of it changes the shared state.      *)
ReadIO(w) ==
    /\ pc[w] = "read_io"
    /\ Return(w)
    /\ UNCHANGED <<isize, locks, oplock, oplocks_enable>>

-----------------------------------------------------------------------------
(* smb_vfs_write, lines 190-206: a fid not in the table returns -ENOENT.  *)
(* Unlike read, there is no early return for count 0.                      *)
WriteStart(w) ==
    /\ pc[w] = "idle"
    /\ \/ Return(w)
       \/ \E r \in Requests :
            /\ Goto(w, "write_probe")
            /\ st' = [st EXCEPT ![w] = [NoLocals EXCEPT
                        !.op = "write", !.pos = r.pos, !.count = r.count]]
    /\ UNCHANGED <<isize, locks, oplock, oplocks_enable>>

(* Lines 208-213: the write probe over [pos, pos + count - 1].             *)
WriteProbe(w) ==
    /\ pc[w] = "write_probe"
    /\ LET s == st[w] IN
       IF ProbeRefused(w, "F_WRLCK", s.pos, ProbeEnd(s.pos, s.count))
       THEN Return(w)
       ELSE /\ Goto(w, IF oplocks_enable THEN "write_break" ELSE "write_io")
            /\ st' = [st EXCEPT ![w].probed = TRUE,
                                ![w].snap = {l \in locks : l.owner # w}]
    /\ UNCHANGED <<isize, locks, oplock, oplocks_enable>>

(* Lines 218-224: with oplocks_enable, break level-II oplocks holding      *)
(* ofile_list_lock; the mutex is dropped before the write.                 *)
WriteBreak(w) ==
    /\ pc[w] = "write_break"
    /\ oplock' = BreakLevelII(w)
    /\ Goto(w, "write_io")
    /\ UNCHANGED <<isize, locks, oplocks_enable, st>>

(* The size after count bytes are written at pos.                          *)
SizeAfterWriteAppend(sz, pos, count) == sz + count
SizeAfterWrite(sz, pos, count) ==
    IF count > 0 /\ pos + count > sz THEN pos + count ELSE sz

(* Lines 226-242: vfs_write fails and the error is returned, or it        *)
(* passes rw_verify_area, writes the bytes and extends i_size.  The sync   *)
(* flush that may follow (235-240) changes nothing this model keeps.       *)
WriteIO(w) ==
    /\ pc[w] = "write_io"
    /\ \/ isize' = isize
       \/ /\ RwVerifyArea(st[w].pos, st[w].count)
          /\ isize' = SizeAfterWrite(isize, st[w].pos, st[w].count)
    /\ Return(w)
    /\ UNCHANGED <<locks, oplock, oplocks_enable>>

(* The steps of ReadIO and WriteIO in which vfs_read or vfs_write passes   *)
(* rw_verify_area and may move the bytes of the request.                   *)
Transfers(w) ==
    /\ pc[w] \in {"read_io", "write_io"}
    /\ pc'[w] = "idle"
    /\ RwVerifyArea(st[w].pos, st[w].count)

(* smb_vfs_truncate, lines 749-776.  By path: kern_path may fail, else     *)
(* vfs_truncate directly.  By fid: -ENOENT for an unknown fid; then the    *)
(* oplock break when oplocks_enable, the lock probe otherwise.             *)
TruncStart(w) ==
    /\ pc[w] = "idle"
    /\ \E size \in 0..MaxOff :
         LET s == [NoLocals EXCEPT !.op = "truncate", !.size = size] IN
         \/ Return(w)
         \/ /\ Goto(w, "trunc_io")
            /\ st' = [st EXCEPT ![w] = s]
         \/ /\ Goto(w, IF oplocks_enable THEN "trunc_break" ELSE "trunc_probe")
            /\ st' = [st EXCEPT ![w] = s]
    /\ UNCHANGED <<isize, locks, oplock, oplocks_enable>>

(* Lines 778-782.                                                          *)
TruncBreak(w) ==
    /\ pc[w] = "trunc_break"
    /\ oplock' = BreakLevelII(w)
    /\ Goto(w, "trunc_io")
    /\ UNCHANGED <<isize, locks, oplocks_enable, st>>

(* The bytes a truncate from size sz to size n changes.                    *)
TruncBytes(sz, n) == IF n < sz THEN Range(n, sz - 1) ELSE Range(sz, n - 1)

(* Lines 783-796: i_size is read without i_mutex and decides the probed    *)
(* range: [size, i_size - 1] when shrinking, else [i_size, size - 1].      *)
(* The code reads i_size at 785 and again at 787 and 790; one read is      *)
(* modelled, kept as seen; snap keeps the other opens' locks the probe     *)
(* saw, for TruncateRespectsLocks only.                                    *)
TruncProbe(w) ==
    /\ pc[w] = "trunc_probe"
    /\ LET n == st[w].size
           refused == IF n < isize
                      THEN ProbeRefused(w, "F_WRLCK", n, isize - 1)
                      ELSE ProbeRefused(w, "F_WRLCK", isize, n - 1)
       IN IF refused
          THEN Return(w)
          ELSE /\ Goto(w, "trunc_io")
               /\ st' = [st EXCEPT ![w].probed = TRUE, ![w].seen = isize,
                                       ![w].snap = {l \in locks : l.owner # w}]
    /\ UNCHANGED <<isize, locks, oplock, oplocks_enable>>

(* Lines 765 and 797-800: vfs_truncate fails, or sets i_size.             *)
TruncIO(w) ==
    /\ pc[w] = "trunc_io"
    /\ isize' \in {isize, st[w].size}
    /\ Return(w)
    /\ UNCHANGED <<locks, oplock, oplocks_enable>>

-----------------------------------------------------------------------------
(* smb_vfs_lock (lines 949-954) with F_SETLK from another request of the   *)
(* same open: granted unless a lock of another owner conflicts.  One lock  *)
(* per owner in this model.                                                *)
SetLock(o) ==
    /\ ~\E l \in locks : l.owner = o
    /\ \E t \in LockTypes, s \in Offsets, e \in Offsets :
         /\ s <= e
         /\ ~\E l \in locks : Conflicts(l, o, t, s, e)
         /\ locks' = locks \cup {Lock(o, t, s, e)}
    /\ UNCHANGED <<isize, oplock, oplocks_enable, pc, st>>

(* smb_vfs_lock with F_UNLCK over the owner's lock.                        *)
Unlock(o) ==
    /\ \E l \in locks : l.owner = o /\ locks' = locks \ {l}
    /\ UNCHANGED <<isize, oplock, oplocks_enable, pc, st>>

(* The oplock code (not part of this layer) grants a level-II oplock to an *)
(* open, under ofile_list_lock.                                            *)
GrantLevelII(o) ==
    /\ oplocks_enable
    /\ oplock[o] = "none"
    /\ oplock' = [oplock EXCEPT ![o] = "II"]
    /\ UNCHANGED <<isize, locks, oplocks_enable, pc, st>>

Next ==
    \E w \in Opens :
        \/ ReadStart(w) \/ ReadProbe(w) \/ ReadIO(w)
        \/ WriteStart(w) \/ WriteProbe(w) \/ WriteBreak(w) \/ WriteIO(w)
        \/ TruncStart(w) \/ TruncBreak(w) \/ TruncProbe(w) \/ TruncIO(w)
        \/ SetLock(w) \/ Unlock(w) \/ GrantLevelII(w)

Spec == Init /\ [][Next]_vars

-----------------------------------------------------------------------------
Labels == {"idle", "read_probe", "read_io", "write_probe", "write_break",
           "write_io", "trunc_break", "trunc_probe", "trunc_io"}

TypeOK ==
    /\ isize \in 0..MaxOff
    /\ locks \subseteq [owner : Opens, type : LockTypes,
                        start : Offsets, end : Offsets]
    /\ oplock \in [Opens -> {"none", "II"}]
    /\ oplocks_enable \in BOOLEAN
    /\ pc \in [Opens -> Labels]
    /\ \A w \in Opens :
         /\ st[w].op \in {"none", "read", "write", "truncate"}
         /\ st[w].pos \in Offsets /\ st[w].count \in 0..MaxCount
         /\ st[w].size \in 0..MaxOff
         /\ st[w].seen \in 0..MaxOff
         /\ st[w].snap \subseteq [owner : Opens, type : LockTypes,
                                  start : Offsets, end : Offsets]

(* The locks in ls of an owner other than w, of a type that excludes an    *)
(* access of type t, over one of the given bytes: the spec's conflict      *)
(* (4.3), stated on bytes rather than on range ends.                       *)
LockedAgainst(w, t, ls, bytes) ==
    {l \in ls : /\ l.owner # w
                /\ (l.type = "F_WRLCK" \/ t = "F_WRLCK")
                /\ Range(l.start, l.end) \cap bytes # {}}

ProbeType(w) == IF pc[w] = "read_probe" THEN "F_RDLCK" ELSE "F_WRLCK"
Probes == {"read_probe", "write_probe", "trunc_probe"}
RequestBytes(w) ==
    IF pc[w] = "trunc_probe" THEN TruncBytes(isize, st[w].size)
    ELSE Range(st[w].pos, st[w].pos + st[w].count - 1)

(* A read or write whose last byte pos + count - 1 is a loff_t, so that   *)
(* the probe range [pos, pos + count - 1] does not wrap.                   *)
LastByteInLoff(w) == st[w].pos + st[w].count - 1 <= LoffMax

(* smb_vfs_read, smb_vfs_write and smb_vfs_truncate by fid go past the     *)
(* lock probe only when no other open holds a lock over a byte of the      *)
(* request that excludes it, for every request whose last byte is a        *)
(* loff_t (the wrapped ones are NoTransferAcrossLock's).  This needs the   *)
(* ends (pos + count - 1 and the two truncate ranges), the probe type and  *)
(* the owner of the probe all right, and the fast path for a lock-free     *)
(* inode.                                                                  *)
GateAdmitsOnlyUnlocked ==
    [][\A w \in Opens :
         (/\ pc[w] \in Probes /\ pc'[w] \notin {pc[w], "idle"}
          /\ pc[w] = "trunc_probe" \/ LastByteInLoff(w)) =>
            LockedAgainst(w, ProbeType(w), locks, RequestBytes(w)) = {}]_vars

(* smb_vfs_read and smb_vfs_write: when vfs_read or vfs_write moves the    *)
(* bytes [pos, pos + count - 1], none of them lies under a lock of another *)
(* open that excludes the access, was held when the request probed and is  *)
(* held still (spec 4.3: the probe is advisory, so a lock taken after it   *)
(* is not seen).  Near OFFSET_MAX the probe end *pos + count - 1 wraps     *)
(* (lines 132 and 208) and the probe range is empty; only the              *)
(* rw_verify_area check inside vfs_read and vfs_write keeps such a request *)
(* from crossing a lock.                                                   *)
NoTransferAcrossLock ==
    [][\A w \in Opens :
         Transfers(w) =>
            LockedAgainst(w, IF pc[w] = "read_io" THEN "F_RDLCK" ELSE "F_WRLCK",
                          locks \cap st[w].snap,
                          Range(st[w].pos, st[w].pos + st[w].count - 1)) = {}]_vars

(* smb_vfs_truncate by fid: when vfs_truncate runs, none of the bytes it   *)
(* cuts off or adds lies under a lock of another open that was held when   *)
(* the truncate probed and is held still (spec 4.7: probe the range        *)
(* between the old and the new size).  The probe took i_size without       *)
(* i_mutex (line 785); another request may change the size before          *)
(* vfs_truncate runs.                                                      *)
TruncateRespectsLocks ==
    \A w \in Opens : pc[w] = "trunc_io" /\ st[w].probed =>
        LockedAgainst(w, "F_WRLCK", locks \cap st[w].snap,
                      TruncBytes(isize, st[w].size)) = {}

(* smb_vfs_write with oplocks_enable: when vfs_write changes data, no      *)
(* other open holds a level-II oplock, so no client still caches the old   *)
(* data (spec 4.4: the break completes before the write proceeds).         *)
NoLevelIIDuringWrite ==
    \A w \in Opens :
        (pc[w] = "write_io" /\ st[w].count > 0 /\ oplocks_enable) =>
            \A o \in Opens \ {w} : oplock[o] = "none"

(* A read, write or truncate refused by the lock probe (-EAGAIN, lines     *)
(* 134, 210 and 793) asked to touch at least one byte that another open    *)
(* holds locked against it (spec 4.3: conflict means an overlapping lock   *)
(* of another owner).  A zero-byte write, or a truncate to the current     *)
(* size, touches no byte.                                                  *)
RefusedOnlyOnOverlap ==
    [][\A w \in Opens :
         (pc[w] \in Probes /\ pc'[w] = "idle") =>
            LockedAgainst(w, ProbeType(w), locks, RequestBytes(w)) # {}]_vars

=============================================================================
