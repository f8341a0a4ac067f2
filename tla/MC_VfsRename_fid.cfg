\* Renames by path and by fid, checked against the abstract namespace.
CONSTANTS
    w1 = w1  w2 = w2  root = root  d1 = d1  d2 = d2  f1 = f1  n1 = n1  n2 = n2
    badFid = badFid  noObj = noObj  noLeaf = noLeaf  noOwner = noOwner
    renameMutex = renameMutex
    Workers <- MCWorkers
    Root <- root
    Dirs <- MCDirs
    Files <- MCFiles
    Names <- MCNames
    Handles <- MCHandles
    BadFid <- badFid
    NoObj <- noObj
    NoLeaf <- noLeaf
    NoOwner <- noOwner
    RenameMutex <- renameMutex
    InitParent <- MCInitParent
    InitName <- MCInitName
    MaxDepth = 1
    FidRename = TRUE
SPECIFICATION Spec
INVARIANT TypeOK
INVARIANT TreeAcyclic
INVARIANT NoCircularWait
PROPERTY NamespaceChangesUnderLocks
CHECK_DEADLOCK FALSE
PROPERTY RenameRefinesNamespace
