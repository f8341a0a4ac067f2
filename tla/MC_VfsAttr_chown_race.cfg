CONSTANTS
    w1 = w1
    w2 = w2
    u1 = u1
    u2 = u2
    g1 = g1
    Workers <- MCWorkers
    Uids = {u1, u2}
    Gids = {g1}
    InodeTypes = {"S_IFREG", "S_IFLNK"}
    InitPerms = {"S_ISUID", "S_IXGRP"}
    AttrRequests <- MCAttrRequests
    MaxSize = 1
    XattrNames = {"security.capability"}
    CapXattr = "security.capability"
    NameLen <- MCNameLen
    MaxValLen = 2
    BufLens = {1}
    ListSizes = {0, 2, 5}
    XattrListMax = 3
    VmallocCap = 1
    MaxExecs = 1
SYMMETRY MCSymmetry
SPECIFICATION Spec




PROPERTY ChownClearsSetuid
