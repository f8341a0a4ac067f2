\* Renames by path only: the protocol of lock_rename and the trap checks.
CONSTANTS
    w1 = w1  w2 = w2  root = root  d1 = d1  d2 = d2  f1 = f1  n1 = n1  n2 = n2
    badFid = badFid  noObj = noObj  noLeaf = noLeaf  noOwner = noOwner
    renameMutex = renameMutex
    Workers <- MCWorkers
    Root <- root
    Dirs <- MCDirs
    Files <- MCNoFiles
    Names <- MCNames
    Handles <- MCNoFiles
    BadFid <- badFid
    NoObj <- noObj
    NoLeaf <- noLeaf
    NoOwner <- noOwner
    RenameMutex <- renameMutex
    InitParent <- MCInitParentDirs
    InitName <- MCInitNameDirs
    MaxDepth = 1
    FidRename = FALSE
SPECIFICATION Spec
PROPERTY RenameCompletes
