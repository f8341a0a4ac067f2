CONSTANTS
    o1 = o1
    o2 = o2
    Opens <- MCOpens
    LoffBits = 2
    MaxOff = 1
    MaxCount = 2
SYMMETRY MCSymmetry
SPECIFICATION Spec
INVARIANT TypeOK
PROPERTY GateAdmitsOnlyUnlocked NoTransferAcrossLock
