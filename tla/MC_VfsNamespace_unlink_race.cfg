\* Unlink and rmdir against renames that move objects between directories.
CONSTANTS
    w1 = w1  w2 = w2  root = root  d1 = d1  d2 = d2  f1 = f1  f2 = f2  n1 = n1  n2 = n2
    badFid = badFid  noObj = noObj  noLeaf = noLeaf  noOwner = noOwner
    renameMutex = renameMutex
    Workers <- MCWorkers
    Root <- root
    Dirs <- MCDirs
    Files <- MCNsFiles
    Names <- MCNames
    Handles <- MCHandles
    BadFid <- badFid
    NoObj <- noObj
    NoLeaf <- noLeaf
    NoOwner <- noOwner
    RenameMutex <- renameMutex
    InitParent <- MCNsInitParent
    InitName <- MCNsInitName
    MaxDepth = 1
    FidRename = FALSE
    Spare <- MCSpare
    Requests <- MCRequests
    CrossDirRename = TRUE
SPECIFICATION NsSpec
INVARIANT IdleHoldsNoLock
CHECK_DEADLOCK FALSE
