CONSTANTS
    u1 = u1
    u2 = u2
    bad = bad
    f1 = f1
    fbad = fbad
    Nil = Nil
    NoValue <- Nil
    Names <- MCNames
    ValidNames <- MCValidNames
    FlagSets = {f1, fbad}
    BadFlags = {fbad}
SPECIFICATION Spec
INVARIANT MergeMatchesReference
INVARIANT RoleInv
PROPERTY ImplementsAbstract
