CONSTANTS
    o1 = o1
    o2 = o2
    Opens <- MCOpens
    LoffBits = 3
    MaxOff = 3
    MaxCount = 2
SYMMETRY MCSymmetry
SPECIFICATION Spec
INVARIANT NoLevelIIDuringWrite
