CONSTANTS
    Bad = Bad
    Nil = Nil
    NoValue <- Nil
    Unparsable <- Bad
    NumPVs = 2
    InitQty = 2
    Requests <- MCRequests
    BadIds = {}
    MaxCalls = 3
SPECIFICATION Spec
INVARIANT TypeOK
INVARIANT RecordBackedByFs
PROPERTY ResizeConverges
INVARIANT IInv
