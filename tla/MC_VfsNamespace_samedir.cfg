\* Every request kind in a share with one directory, renames within one directory: safety, and every request returns.
CONSTANTS
    w1 = w1  w2 = w2  root = root  d1 = d1  d2 = d2  f1 = f1  f2 = f2  n1 = n1  n2 = n2
    badFid = badFid  noObj = noObj  noLeaf = noLeaf  noOwner = noOwner
    renameMutex = renameMutex
    Workers <- MCWorkers
    Root <- root
    Dirs <- MCSmallDirs
    Files <- MCNsFiles
    Names <- MCNames
    Handles <- MCHandles
    BadFid <- badFid
    NoObj <- noObj
    NoLeaf <- noLeaf
    NoOwner <- noOwner
    RenameMutex <- renameMutex
    InitParent <- MCSmallInitParent
    InitName <- MCSmallInitName
    MaxDepth = 1
    FidRename = TRUE
    Spare <- MCSpare
    Requests <- MCAllRequests
    CrossDirRename = FALSE
SPECIFICATION NsSpec
INVARIANT TreeAcyclic
INVARIANT IdleHoldsNoLock
INVARIANT NamesUnique
PROPERTY NamespaceChangesUnderLocks
PROPERTY RenameCompletes
PROPERTY NsRefinesNamespace
