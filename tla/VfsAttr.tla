------------------------------- MODULE VfsAttr -------------------------------
(***************************************************************************)
(* Attribute and extended-attribute requests of the cifsd VFS layer on one *)
(* inode: smb_vfs_setattr with the sanitizer smb_check_attrs it calls, and *)
(* smb_vfs_getxattr, smb_vfs_setxattr and smb_vfs_listxattr.  Each worker  *)
(* is a server thread running one request at a time; the caller of        *)
(* listxattr releases the list it is handed with kvfree.  An execve of the *)
(* file (deny_write_access) and a mandatory lock of another process are    *)
(* environment actions.  The kernel's notify_change and vfs_*xattr run     *)
(* under i_mutex and are single steps; the server thread is root, so their *)
(* permission checks pass.  A path lookup that fails returns before any    *)
(* state is touched and is not a step.  Mode bits are the names of the     *)
(* bits the rules tell apart; uids and gids are the kuid_t/kgid_t structs  *)
(* of compat.h.                                                            *)
(***************************************************************************)
EXTENDS Integers, FiniteSets, FiniteSetsExt

CONSTANTS
    Workers,        \* server threads
    Uids, Gids,     \* uid_t and gid_t values
    InodeTypes,     \* file types the inode may have
    InitPerms,      \* permission bits the inode starts with
    AttrRequests,   \* the struct iattr requests the protocol layer sends
    MaxSize,        \* i_size is in 0..MaxSize
    XattrNames,     \* extended attribute names
    CapXattr,       \* "security.capability", removed by ATTR_KILL_PRIV
    NameLen,        \* strlen of each name
    MaxValLen,      \* longest value setxattr stores
    BufLens,        \* buf_len of the caller's getxattr buffer
    ListSizes,      \* size the caller passes to listxattr
    XattrListMax,   \* XATTR_LIST_MAX
    VmallocCap,     \* list buffers vmalloc can hand out at once
    MaxExecs        \* concurrent execve of the file

ASSUME CapXattr \in XattrNames /\ NameLen \in [XattrNames -> Nat \ {0}]

TypeBits == {"S_IFREG", "S_IFDIR", "S_IFLNK"}
PermBits == {"S_ISUID", "S_ISGID", "S_IXGRP"}   \* the S_IALLUGO bits in play
AttrFlags == {"ATTR_MODE", "ATTR_UID", "ATTR_GID", "ATTR_SIZE"}
KillFlags == {"ATTR_KILL_PRIV", "ATTR_KILL_SUID", "ATTR_KILL_SGID"}
NoValue == -1                                    \* -ENODATA: no such xattr

(* compat.h: kuid_t and kgid_t wrap the id; __kuid_val/__kgid_val unwrap. *)
KuidT(u) == [val |-> u]
KgidT(g) == [val |-> g]
KuidVal(k) == k.val
KgidVal(k) == k.val
UidEq(a, b) == KuidVal(a) = KuidVal(b)
GidEq(a, b) == KgidVal(a) = KgidVal(b)

VARIABLES
    imode,          \* inode->i_mode: its type bit and permission bits
    iuid, igid,     \* inode->i_uid, inode->i_gid
    isize,          \* inode->i_size
    writecount,     \* inode->i_writecount
    execs,          \* running execve of the file, each denying writes
    mandlock,       \* a mandatory lock of another process past i_size
    xattr,          \* value length of each xattr, or NoValue
    listbuf,        \* the vmalloc'd list a worker's caller holds, if any
    vmalloc_live,   \* list buffers allocated and not freed
    xattr_buf,      \* the caller's getxattr buffer: capacity, bytes written
    pc, st

vars == <<imode, iuid, igid, isize, writecount, execs, mandlock, xattr,
          listbuf, vmalloc_live, xattr_buf, pc, st>>

NoLocals == [req |-> "none", seen |-> "none", attrs |-> "none", update_size |-> FALSE,
             name |-> "none", len |-> 0]

Inode == [mode |-> imode, uid |-> iuid, gid |-> igid]
IsDir(mode) == "S_IFDIR" \in mode
IsLnk(mode) == "S_IFLNK" \in mode

-----------------------------------------------------------------------------
(* smb_check_attrs: the mode is masked to S_IALLUGO and keeps the inode's *)
(* type; a chown of a non-directory revokes the set-id bits, directly if  *)
(* the mode is set too, else through ATTR_KILL_SUID/SGID.                 *)
SanitizeModeUnmasked(i, a) ==
    IF "ATTR_MODE" \in a.valid
    THEN [a EXCEPT !.mode = @ \cup (i.mode \ PermBits)]
    ELSE a

SanitizeMode(i, a) ==
    IF "ATTR_MODE" \in a.valid
    THEN [a EXCEPT !.mode = (@ \cap PermBits) \cup (i.mode \ PermBits)]
    ELSE a

Chown(i, a) ==
    /\ ~IsDir(i.mode)
    /\ \/ "ATTR_UID" \in a.valid /\ ~UidEq(a.uid, i.uid)
       \/ "ATTR_GID" \in a.valid /\ ~GidEq(a.gid, i.gid)

SgidRevoked(mode) == IF "S_IXGRP" \in mode THEN {"S_ISGID"} ELSE {}

SmbCheckAttrsOldMode(i, a) ==
    LET m == SanitizeMode(i, a) IN
    IF ~Chown(i, m) THEN m
    ELSE IF "ATTR_MODE" \in m.valid
         THEN [m EXCEPT !.valid = @ \cup {"ATTR_KILL_PRIV"},
                        !.mode = (@ \ {"S_ISUID"}) \ SgidRevoked(i.mode)]
         ELSE [m EXCEPT !.valid = @ \cup KillFlags]

SmbCheckAttrs(i, a) ==
    LET m == SanitizeMode(i, a) IN
    IF ~Chown(i, m) THEN m
    ELSE IF "ATTR_MODE" \in m.valid
         THEN [m EXCEPT !.valid = @ \cup {"ATTR_KILL_PRIV"},
                        !.mode = (@ \ {"S_ISUID"}) \ SgidRevoked(@)]
         ELSE [m EXCEPT !.valid = @ \cup KillFlags]

(* smb_vfs_setattr before the checks: no mode change on a symlink.        *)
DropSymlinkMode(i, a) ==
    IF IsLnk(i.mode) THEN [a EXCEPT !.valid = @ \ {"ATTR_MODE"}] ELSE a

(* notify_change and setattr_copy, under i_mutex: the kill bits become a  *)
(* mode change computed from the current i_mode; ATTR_KILL_PRIV drops the *)
(* capability xattr (security_inode_killpriv).                            *)
KillSuid(a) == IF "ATTR_KILL_SUID" \in a.valid /\ "S_ISUID" \in imode
               THEN [a EXCEPT !.valid = @ \cup {"ATTR_MODE"}, !.mode = imode \ {"S_ISUID"}]
               ELSE a
KillSgid(a) == IF "ATTR_KILL_SGID" \in a.valid /\ {"S_ISGID", "S_IXGRP"} \subseteq imode
               THEN [a EXCEPT !.valid = @ \cup {"ATTR_MODE"},
                              !.mode = (IF "ATTR_MODE" \in a.valid THEN @ ELSE imode) \ {"S_ISGID"}]
               ELSE a

NotifyChange(a0) ==
    LET a == KillSgid(KillSuid(a0)) IN
    /\ xattr' = IF "ATTR_KILL_PRIV" \in a.valid
                THEN [xattr EXCEPT ![CapXattr] = NoValue] ELSE xattr
    /\ imode' = IF "ATTR_MODE" \in a.valid THEN a.mode ELSE imode
    /\ iuid' = IF "ATTR_UID" \in a.valid THEN a.uid ELSE iuid
    /\ igid' = IF "ATTR_GID" \in a.valid THEN a.gid ELSE igid
    /\ isize' = IF "ATTR_SIZE" \in a.valid THEN a.size ELSE isize

-----------------------------------------------------------------------------
Init ==
    /\ imode \in {{t} \cup InitPerms : t \in InodeTypes}
    /\ iuid \in {KuidT(u) : u \in Uids}
    /\ igid \in {KgidT(g) : g \in Gids}
    /\ isize \in 0..MaxSize
    /\ writecount = 0
    /\ execs = 0
    /\ mandlock = FALSE
    /\ xattr = [n \in XattrNames |-> NoValue]
    /\ listbuf = [w \in Workers |-> FALSE]
    /\ vmalloc_live = 0
    /\ xattr_buf = [w \in Workers |-> [cap |-> 0, len |-> 0]]
    /\ pc = [w \in Workers |-> "idle"]
    /\ st = [w \in Workers |-> NoLocals]

Return(w) ==
    /\ pc' = [pc EXCEPT ![w] = "idle"]
    /\ st' = [st EXCEPT ![w] = NoLocals]

Goto(w, l) == pc' = [pc EXCEPT ![w] = l]

InodeVars == <<imode, iuid, igid, isize, xattr>>

-----------------------------------------------------------------------------
(* smb_vfs_setattr up to the size checks: the symlink and empty-request   *)
(* early returns, then smb_check_attrs reading i_mode, i_uid and i_gid    *)
(* without i_mutex.                                                       *)
SetattrStart(w) ==
    /\ pc[w] = "idle"
    /\ \E req \in AttrRequests :
         LET a == DropSymlinkMode(Inode, req)
             r == SmbCheckAttrs(Inode, a)
         IN /\ a.valid # {}
            /\ st' = [st EXCEPT ![w].req = req, ![w].seen = Inode, ![w].attrs = r]
            /\ Goto(w, IF "ATTR_SIZE" \in r.valid THEN "get_write" ELSE "notify")
    /\ UNCHANGED <<InodeVars, writecount, execs, mandlock, listbuf, vmalloc_live, xattr_buf>>

(* get_write_access: atomic_inc_unless_negative(&i_writecount), else      *)
(* -ETXTBSY.                                                              *)
SetattrGetWrite(w) ==
    /\ pc[w] = "get_write"
    /\ \/ writecount >= 0 /\ writecount' = writecount + 1 /\ Goto(w, "verify")
                          /\ UNCHANGED st
       \/ writecount < 0 /\ Return(w) /\ UNCHANGED writecount
    /\ UNCHANGED <<InodeVars, execs, mandlock, listbuf, vmalloc_live, xattr_buf>>

(* The write access taken for a truncate is given back.                  *)
PutWriteAccess == writecount' = writecount - 1

(* locks_verify_truncate: a mandatory lock of another process on the      *)
(* truncated range refuses; the write access is given back.               *)
SetattrVerifyNoPut(w) ==
    /\ pc[w] = "verify"
    /\ \/ mandlock /\ Return(w) /\ UNCHANGED writecount
       \/ ~mandlock /\ st' = [st EXCEPT ![w].update_size = TRUE] /\ Goto(w, "notify")
          /\ UNCHANGED writecount
    /\ UNCHANGED <<InodeVars, execs, mandlock, listbuf, vmalloc_live, xattr_buf>>

SetattrVerify(w) ==
    /\ pc[w] = "verify"
    /\ \/ mandlock /\ PutWriteAccess /\ Return(w)
       \/ ~mandlock /\ st' = [st EXCEPT ![w].update_size = TRUE] /\ Goto(w, "notify")
          /\ UNCHANGED writecount
    /\ UNCHANGED <<InodeVars, execs, mandlock, listbuf, vmalloc_live, xattr_buf>>

(* ATTR_CTIME, then notify_change under i_mutex, then put_write_access if *)
(* the size was updated.  sync_inode_metadata writes nothing modelled.   *)
SetattrNotify(w) ==
    /\ pc[w] = "notify"
    /\ NotifyChange(st[w].attrs)
    /\ IF st[w].update_size THEN PutWriteAccess ELSE UNCHANGED writecount
    /\ Return(w)
    /\ UNCHANGED <<execs, mandlock, listbuf, vmalloc_live, xattr_buf>>

-----------------------------------------------------------------------------
(* smb_vfs_getxattr, first vfs_getxattr(NULL, 0): the value's length; no  *)
(* value or an empty one returns at once, one longer than buf_len gives   *)
(* -ENOMEM.                                                               *)
GetxattrFits(len, buf) == len <= buf

GetxattrSize(w) ==
    /\ pc[w] = "idle"
    /\ \E n \in XattrNames, buf \in BufLens :
         /\ xattr_buf' = [xattr_buf EXCEPT ![w] = [cap |-> buf, len |-> 0]]
         /\ \/ xattr[n] <= 0 /\ UNCHANGED <<pc, st>>
            \/ /\ xattr[n] > 0
               /\ ~GetxattrFits(xattr[n], buf)
               /\ UNCHANGED <<pc, st>>
            \/ /\ xattr[n] > 0
               /\ GetxattrFits(xattr[n], buf)
               /\ st' = [st EXCEPT ![w].name = n, ![w].len = xattr[n]]
               /\ Goto(w, "getxattr_read")
    /\ UNCHANGED <<InodeVars, writecount, execs, mandlock, listbuf, vmalloc_live>>

(* The size the second vfs_getxattr is given: the length read first.      *)
ReadLimitUnbounded(w) == MaxValLen
ReadLimit(w) == st[w].len

(* Second vfs_getxattr: -ENODATA if the value went, -ERANGE if it grew    *)
(* past the size given, else the whole value is copied to xattr_buf.      *)
GetxattrRead(w) ==
    /\ pc[w] = "getxattr_read"
    /\ LET v == xattr[st[w].name] IN
       IF v # NoValue /\ v <= ReadLimit(w)
       THEN xattr_buf' = [xattr_buf EXCEPT ![w].len = v]
       ELSE UNCHANGED xattr_buf
    /\ Return(w)
    /\ UNCHANGED <<InodeVars, writecount, execs, mandlock, listbuf, vmalloc_live>>

(* smb_vfs_setxattr: vfs_setxattr under i_mutex; XATTR_CREATE of a value  *)
(* that exists and XATTR_REPLACE of one that does not fail unchanged.     *)
Setxattr(w) ==
    /\ pc[w] = "idle"
    /\ \E n \in XattrNames, v \in 0..MaxValLen, flags \in {"0", "XATTR_CREATE", "XATTR_REPLACE"} :
         /\ ~(flags = "XATTR_CREATE" /\ xattr[n] # NoValue)
         /\ ~(flags = "XATTR_REPLACE" /\ xattr[n] = NoValue)
         /\ xattr[n] # v
         /\ xattr' = [xattr EXCEPT ![n] = v]
    /\ UNCHANGED <<imode, iuid, igid, isize, writecount, execs, mandlock, listbuf,
                   vmalloc_live, xattr_buf, pc, st>>

(* The length vfs_listxattr reports: every name with its NUL.             *)
ListLen == MapThenSumSet(LAMBDA n : NameLen[n] + 1, {n \in XattrNames : xattr[n] # NoValue})

(* smb_vfs_listxattr: a non-zero size is clamped to XATTR_LIST_MAX and    *)
(* vmalloc'd (-ENOMEM when vmalloc fails); vfs_listxattr fills it, or     *)
(* -ERANGE (returned as -E2BIG) when the list is longer.  Only a positive *)
(* length hands vlist to the caller as its list, else vlist is dropped.   *)
ListCall(w, size) ==
    LET vlist == size > 0
        handed == vlist /\ ListLen <= size /\ ListLen > 0
    IN /\ listbuf' = [listbuf EXCEPT ![w] = handed]
       /\ vmalloc_live' = IF vlist THEN vmalloc_live + 1 ELSE vmalloc_live

Listxattr(w) ==
    /\ pc[w] = "idle" /\ ~listbuf[w]
    /\ \E req \in ListSizes :
         LET size == IF req > XattrListMax THEN XattrListMax ELSE req IN
         \/ size > 0 /\ vmalloc_live = VmallocCap /\ UNCHANGED <<listbuf, vmalloc_live>>
         \/ (size = 0 \/ vmalloc_live < VmallocCap) /\ ListCall(w, size)
    /\ UNCHANGED <<InodeVars, writecount, execs, mandlock, xattr_buf, pc, st>>

(* The caller is done with the list and frees it (kvfree: vfree, as it is *)
(* vmalloc'd).                                                            *)
KvFree(w) ==
    /\ pc[w] = "idle" /\ listbuf[w]
    /\ listbuf' = [listbuf EXCEPT ![w] = FALSE]
    /\ vmalloc_live' = vmalloc_live - 1
    /\ UNCHANGED <<InodeVars, writecount, execs, mandlock, xattr_buf, pc, st>>

-----------------------------------------------------------------------------
(* Other processes: an execve of the file (deny_write_access, i.e.        *)
(* atomic_dec_unless_positive, and allow_write_access when it ends), and  *)
(* a mandatory lock set and released.                                     *)
ExecStart ==
    /\ execs < MaxExecs /\ writecount <= 0
    /\ writecount' = writecount - 1 /\ execs' = execs + 1
    /\ UNCHANGED <<InodeVars, mandlock, listbuf, vmalloc_live, xattr_buf, pc, st>>

ExecEnd ==
    /\ execs > 0
    /\ writecount' = writecount + 1 /\ execs' = execs - 1
    /\ UNCHANGED <<InodeVars, mandlock, listbuf, vmalloc_live, xattr_buf, pc, st>>

MandLock ==
    /\ mandlock' = ~mandlock
    /\ UNCHANGED <<InodeVars, writecount, execs, listbuf, vmalloc_live, xattr_buf, pc, st>>

Next ==
    \/ \E w \in Workers :
         \/ SetattrStart(w) \/ SetattrGetWrite(w) \/ SetattrVerify(w) \/ SetattrNotify(w)
         \/ GetxattrSize(w) \/ GetxattrRead(w) \/ Setxattr(w)
         \/ Listxattr(w) \/ KvFree(w)
    \/ ExecStart \/ ExecEnd \/ MandLock

Spec == Init /\ [][Next]_vars

-----------------------------------------------------------------------------
Perms == SUBSET PermBits

AttrTypeOK ==
    /\ imode \in {{t} \cup p : t \in TypeBits, p \in Perms}
    /\ iuid \in {KuidT(u) : u \in Uids} /\ igid \in {KgidT(g) : g \in Gids}
    /\ isize \in 0..MaxSize
    /\ writecount \in -MaxExecs..Cardinality(Workers) /\ execs \in 0..MaxExecs
    /\ mandlock \in BOOLEAN
    /\ xattr \in [XattrNames -> {NoValue} \cup 0..MaxValLen]
    /\ listbuf \in [Workers -> BOOLEAN] /\ vmalloc_live \in 0..VmallocCap
    /\ pc \in [Workers -> {"idle", "get_write", "verify", "notify", "getxattr_read"}]

(* The write access smb_vfs_setattr takes for a truncate is given back on *)
(* every path (the locks_verify_truncate failure included): i_writecount  *)
(* is the number of setattr calls holding it less the running execve.     *)
WriteAccessBalanced ==
    writecount = Cardinality({w \in Workers : pc[w] = "verify" \/ st[w].update_size}) - execs

(* smb_vfs_getxattr never copies more than buf_len bytes into xattr_buf,  *)
(* though the value can grow between its two vfs_getxattr calls.         *)
GetxattrWithinBuffer == \A w \in Workers : xattr_buf[w].len <= xattr_buf[w].cap

(* smb_check_attrs, after the symlink rule of smb_vfs_setattr, does what  *)
(* spec 4.6 asks of every request in flight, judged against the inode it  *)
(* read: the type bits stay, only permission bits come from the request,  *)
(* a chown of a non-directory clears S_ISUID (and S_ISGID if the new mode *)
(* has S_IXGRP) or asks notify_change to, and nothing else is changed.    *)
SanitizedAsSpecified(i, a, r) ==
    LET owner == ~IsDir(i.mode) /\ \/ "ATTR_UID" \in a.valid /\ a.uid # i.uid
                                   \/ "ATTR_GID" \in a.valid /\ a.gid # i.gid
        setmode == "ATTR_MODE" \in a.valid /\ ~IsLnk(i.mode)
    IN /\ r.valid \ KillFlags = a.valid \ (IF IsLnk(i.mode) THEN {"ATTR_MODE"} ELSE {})
       /\ r.uid = a.uid /\ r.gid = a.gid /\ r.size = a.size
       /\ setmode => /\ r.mode \ PermBits = i.mode \ PermBits
                     /\ r.mode \cap PermBits \subseteq a.mode
                     /\ owner => "S_ISUID" \notin r.mode
                     /\ owner /\ "S_IXGRP" \in r.mode => "S_ISGID" \notin r.mode
                     /\ ~owner => r.mode = (a.mode \cap PermBits) \cup (i.mode \ PermBits)
       /\ ~setmode => r.mode = a.mode
       /\ r.valid \cap KillFlags = IF ~owner THEN {}
                                   ELSE IF setmode THEN {"ATTR_KILL_PRIV"} ELSE KillFlags

CheckAttrsAsSpecified ==
    \A w \in Workers :
        pc[w] \in {"get_write", "verify", "notify"} => SanitizedAsSpecified(st[w].seen, st[w].req, st[w].attrs)

(* A chown of a non-directory never leaves S_ISUID set: smb_check_attrs   *)
(* judges "chown" against the i_uid/i_gid it read before i_mutex, and     *)
(* notify_change applies the result after it.                             *)
ChownClearsSetuid ==
    [][\A w \in Workers :
         pc[w] = "notify" /\ pc'[w] = "idle" /\ ~IsDir(imode)
         /\ (iuid' # iuid \/ igid' # igid)
         => "S_ISUID" \notin imode']_vars

(* Every vmalloc'd xattr list is either held by a caller, who frees it,   *)
(* or gone: smb_vfs_listxattr loses none on its error and empty paths.    *)
ListBufferOwned == vmalloc_live = Cardinality({w \in Workers : listbuf[w]})
=============================================================================
