---------------------------- MODULE NamespaceSpec ----------------------------
(***************************************************************************)
(* What the namespace operations promise, as atomic steps on the tree of   *)
(* a share (spec 4.1 and 4.5): an object is moved under a new name,        *)
(* replacing a target of the same kind (an empty directory for a           *)
(* directory); a file or an empty directory is removed; an unused object   *)
(* is created under a name that is free.  No step moves a directory into   *)
(* its own subtree or into a removed directory.  Locks, lookups and the    *)
(* workers that do this are not part of the promise.                       *)
(***************************************************************************)
EXTENDS Naturals, FiniteSets

CONSTANTS Root, Dirs, Files, Names, NoObj, InitParent, InitName, InitLinked

VARIABLES parent, name, linked

Objs    == Dirs \cup Files
AllDirs == {Root} \cup Dirs

\* The directories above o, following parent at most k times.
RECURSIVE Above(_, _)
Above(o, k) == IF o = Root \/ k = 0 THEN {} ELSE {parent[o]} \cup Above(parent[o], k - 1)

\* A directory that can hold entries: the root, or a hashed directory.
Live(d) == d = Root \/ (d \in Dirs /\ linked[d])

\* The hashed entry called n in d, if there is one.
Entry(d, n) ==
    IF \E o \in Objs : linked[o] /\ parent[o] = d /\ name[o] = n
    THEN CHOOSE o \in Objs : linked[o] /\ parent[o] = d /\ name[o] = n
    ELSE NoObj

Empty(d) == ~\E o \in Objs : linked[o] /\ parent[o] = d

Init ==
    /\ parent = InitParent
    /\ name = InitName
    /\ linked = [o \in Objs |-> o \in InitLinked]

\* rename: s becomes the entry n of d; a target of the same kind goes.
Move(s, d, n) ==
    LET t == Entry(d, n) IN
    /\ linked[s] /\ Live(d) /\ t # s
    /\ s \notin {d} \cup Above(d, Cardinality(AllDirs))
    /\ \/ t = NoObj
       \/ t \in Files /\ s \in Files
       \/ t \in Dirs /\ s \in Dirs /\ Empty(t)
    /\ parent' = [parent EXCEPT ![s] = d]
    /\ name' = [name EXCEPT ![s] = n]
    /\ linked' = IF t = NoObj THEN linked ELSE [linked EXCEPT ![t] = FALSE]

\* unlink of a file, rmdir of an empty directory.
Remove(o) ==
    /\ linked[o]
    /\ o \in Files \/ Empty(o)
    /\ linked' = [linked EXCEPT ![o] = FALSE]
    /\ UNCHANGED <<parent, name>>

\* create, mkdir, symlink, link: a new entry n in d.
Create(o, d, n) ==
    /\ ~linked[o] /\ Live(d) /\ Entry(d, n) = NoObj
    /\ parent' = [parent EXCEPT ![o] = d]
    /\ name' = [name EXCEPT ![o] = n]
    /\ linked' = [linked EXCEPT ![o] = TRUE]

Next ==
    \/ \E s \in Objs, d \in AllDirs, n \in Names : Move(s, d, n)
    \/ \E o \in Objs : Remove(o)
    \/ \E o \in Objs, d \in AllDirs, n \in Names : Create(o, d, n)

Spec == Init /\ [][Next]_<<parent, name, linked>>
=============================================================================
