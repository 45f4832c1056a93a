CONSTANTS
    Cpu = Cpu
    AbsentQty = AbsentQty
    NilRes = NilRes
    Keys <- MCKeys
    Absent <- AbsentQty
    Nil <- NilRes
SPECIFICATION Spec
INVARIANT ReplaceWhenClaimsDiffer
